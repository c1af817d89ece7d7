-------------------------- MODULE RemindersProofs --------------------------
(***************************************************************************)
(* OutboxInv is inductive; with it, a reminder is recorded as sent only if  *)
(* it was delivered, and only a stale read takes that record back.  With    *)
(* ScheduleInv, a confirmed start keeps its reminder and no index refuses   *)
(* it, unless columns of two requests were mixed; with WaitingInv, no       *)
(* reminder waits for a start that is past while requests come in turn.     *)
(***************************************************************************)
EXTENDS RemindersInvariant, FiniteSetTheorems, TLAPS

-----------------------------------------------------------------------------
(* Rows *)

\* The statuses, and the lease that never is a time.
LEMMA Statuses ==
    /\ "pending" \in ReminderStatus /\ "processing" \in ReminderStatus
    /\ "sent" \in ReminderStatus /\ "failed" \in ReminderStatus
    /\ "skipped" \in ReminderStatus
    /\ NoLease \in Int
BY DEF ReminderStatus, NoLease

\* The bounds on deliveries and tries are numbers.
LEMMA EnoughNat == Enough \in Nat /\ SendTries \in Nat
<1>1. SendTries \in Nat /\ MaxAttempts \in Nat
  BY TimeAssumption
<1>2. QED
  BY <1>1 DEF Enough

\* Times are integers.
LEMMA TimesAreIntegers == \A t \in Starts \cup Leads \cup 0..Horizon : t \in Int
BY TimeAssumption

\* What a skipped reminder is.
LEMMA SkipRow ==
    ASSUME NEW r \in Reminder
    PROVE  /\ Skip(r) \in Reminder /\ Skip(r) # NoRow
           /\ Skip(r).status = "skipped" /\ Skip(r).appointment = r.appointment
<1>1. /\ Skip(r) \in Reminder
      /\ Skip(r).status = "skipped" /\ Skip(r).appointment = r.appointment
  BY Statuses DEF Skip, Reminder
<1>2. QED
  BY <1>1, NullAssumption

\* A skipped row keeps what it is for.
LEMMA SkipSnapshot ==
    ASSUME NEW r \in Reminder
    PROVE  /\ Skip(r) # NoRow /\ Skip(r).status = "skipped"
           /\ Skip(r).appointment = r.appointment /\ Skip(r).type = r.type
           /\ Skip(r).start = r.start
<1>1. /\ Skip(r).appointment = r.appointment /\ Skip(r).type = r.type
      /\ Skip(r).start = r.start
  BY DEF Skip, Reminder
<1>2. QED
  BY <1>1, SkipRow

\* A merged row has the status the writer changed to or the one it finds.
LEMMA MergeRow ==
    ASSUME NEW want \in Reminder, NEW seen \in Reminder, NEW current \in Reminder
    PROVE  LET final == MergeReminder(want, seen, current) IN
           /\ final \in Reminder /\ final # NoRow
           /\ final.appointment = current.appointment
           /\ \/ final.status = want.status /\ want.status # seen.status
              \/ final.status = current.status
<1> DEFINE final == MergeReminder(want, seen, current)
<1>1. /\ final \in Reminder
      /\ final.appointment = current.appointment
      /\ \/ final.status = want.status /\ want.status # seen.status
         \/ final.status = current.status
  BY DEF MergeReminder, Column, Reminder
<1>2. final # NoRow
  BY <1>1, NullAssumption
<1>3. QED
  BY <1>1, <1>2

\* What a rescheduled reminder is.
LEMMA RescheduledRow ==
    ASSUME NEW r \in Reminder, NEW due \in Int
    PROVE  Rescheduled(r, due) \in Reminder /\ Rescheduled(r, due).status = "pending"
<1>1. 0 \in 0..MaxAttempts
  BY TimeAssumption
<1>2. CASE r.status \in {"failed", "skipped"}
  BY <1>1, <1>2, Statuses DEF Rescheduled, Reminder
<1>3. CASE r.status \notin {"failed", "skipped"}
  BY <1>3, Statuses DEF Rescheduled, Reminder
<1>4. QED
  BY <1>2, <1>3

\* What a new reminder is.
LEMMA NewRow ==
    ASSUME NEW id \in Appointments, NEW type \in ReminderType, NEW start \in Starts,
           NEW due \in Int
    PROVE  /\ NewReminder(id, type, start, due) \in Reminder
           /\ NewReminder(id, type, start, due).status = "pending"
BY Statuses, TimeAssumption DEF NewReminder, Reminder

\* What a claimed reminder is, and one claimed too late.
LEMMA ClaimRow ==
    ASSUME NEW r \in Reminder, r.attempts < MaxAttempts, now \in Int
    PROVE  /\ Claimed(r) \in Reminder /\ Claimed(r) # NoRow
           /\ Claimed(r).status = "processing" /\ Claimed(r).appointment = r.appointment
           /\ Unsendable(r) \in Reminder /\ Unsendable(r) # NoRow
           /\ Unsendable(r).status = "failed" /\ Unsendable(r).appointment = r.appointment
<1>1. r.attempts + 1 \in 0..MaxAttempts /\ now + Lease \in Int
  BY TimeAssumption DEF Reminder
<1>2. /\ Claimed(r) \in Reminder
      /\ Claimed(r).status = "processing" /\ Claimed(r).appointment = r.appointment
  BY <1>1, Statuses DEF Claimed, Reminder
<1>3. /\ Unsendable(r) \in Reminder
      /\ Unsendable(r).status = "failed" /\ Unsendable(r).appointment = r.appointment
  BY <1>1, Statuses DEF Unsendable, Reminder
<1>4. QED
  BY <1>2, <1>3, NullAssumption

-----------------------------------------------------------------------------
(* What a step leaves alone *)

\* Reports stay valid while no reminder disappears.
LEMMA ReportsKept ==
    ASSUME TypeOK, ReportsFit,
           worker' = worker, delivered' = delivered,
           \A i \in ReminderIds : Exists(i) => reminders'[i] # NoRow
    PROVE  ReportsFit'
<1>1. ASSUME NEW w \in Workers
      PROVE  worker[w].todo \cup worker[w].ok \cup worker[w].bad \subseteq ReminderIds
  BY <1>1 DEF TypeOK, Worker
<1>2. QED
  BY <1>1 DEF ReportsFit, Exists

\* What the columns that differ make of a row is a row; on the row that was read it is
\* the wanted one.
LEMMA MergeAppointmentRow ==
    ASSUME NEW want \in Appointment, NEW read \in Appointment \cup {NoRow}, NEW current,
           read # NoRow => current \in Appointment
    PROVE  /\ MergeAppointment(want, read, current) \in Appointment
           /\ MergeAppointment(want, read, current) # NoRow
           /\ read = NoRow => MergeAppointment(want, read, current) = want
           /\ read # NoRow /\ current = read => MergeAppointment(want, read, current) = want
<1>1. CASE read = NoRow
  BY <1>1, NullAssumption DEF MergeAppointment
<1>2. CASE read # NoRow
  <2>1. /\ MergeAppointment(want, read, current) \in Appointment
        /\ current = read => MergeAppointment(want, read, current) = want
    BY <1>2 DEF MergeAppointment, Column, Appointment
  <2>2. QED
    BY <1>2, <2>1, NullAssumption
<1>3. QED
  BY <1>1, <1>2

\* Requests stay valid while no reminder appears or disappears and the locked
\* ones keep still.
LEMMA RequestsKept ==
    ASSUME TypeOK, RequestsApart, SkipsHold, SessionsFit, WantsFit, request' = request,
           appointments' = appointments,
           \A i \in ReminderIds : Exists(i) <=> reminders'[i] # NoRow,
           \A i \in ReminderIds : RowLocked(i) => reminders'[i] = reminders[i]
    PROVE  RequestsApart' /\ SkipsHold' /\ SessionsFit' /\ WantsFit'
<1>1. RequestsApart' /\ SessionsFit'
  BY DEF RequestsApart, SessionsFit, SessionFits, Holds, Changes
<1>2. \A q \in Requests : request[q].skip \subseteq ReminderIds
  BY DEF TypeOK, Request
<1>3. SkipsHold'
  <2>1. \A q \in Requests : \A i \in request[q].skip : reminders'[i] = reminders[i]
    BY <1>2 DEF RowLocked
  <2>2. QED
    BY <2>1 DEF SkipsHold, Active, Holds, Changes
<1>4. WantsFit'
  <2>1. ASSUME NEW q \in Requests
        PROVE  request[q].rid \in ReminderIds \/ request[q].want = NoRow
    BY <2>1 DEF WantsFit
  <2>2. ASSUME NEW q \in Requests, request[q].seen # NoRow
        PROVE  Exists(request[q].rid)'
    BY <2>1, <2>2 DEF WantsFit, Exists
  <2>3. ASSUME NEW q \in Requests, request[q].want # NoRow, request[q].seen = NoRow
        PROVE  ~Exists(request[q].rid)'
    BY <2>1, <2>3 DEF WantsFit, Exists
  <2>4. QED
    BY <2>2, <2>3 DEF WantsFit
<1>5. QED
  BY <1>1, <1>3, <1>4

\* A step of executions or the clock keeps the invariant if it makes no
\* reminder appear or vanish, leaves locked ones alone, writes "sent" only where
\* something was delivered, and leaves valid reports.
LEMMA OutboxStepKeeps ==
    ASSUME OutboxInv, request' = request, appointments' = appointments,
           now' \in 0..Horizon, lead' \in Leads, handed' \subseteq ReminderIds, history' = history,
           worker' \in [Workers -> Worker],
           reminders' \in [ReminderIds -> Reminder \cup {NoRow}],
           delivered' \in [ReminderIds -> 0..Enough + SendTries],
           \A i \in ReminderIds : Exists(i) <=> reminders'[i] # NoRow,
           \A i \in ReminderIds : RowLocked(i) => reminders'[i] = reminders[i],
           \A i \in ReminderIds :
              /\ delivered[i] > 0 => delivered'[i] > 0
              /\ reminders'[i] # NoRow /\ reminders'[i].status = "sent" =>
                    reminders[i].status = "sent" \/ delivered[i] > 0,
           ReportsFit'
    PROVE  OutboxInv'
<1>1. TypeOK /\ RequestsApart /\ SkipsHold /\ SessionsFit /\ WantsFit /\ SentWasDelivered
  BY DEF OutboxInv
<1>2. TypeOK'
  BY <1>1 DEF TypeOK, history
<1>3. RequestsApart' /\ SkipsHold' /\ SessionsFit' /\ WantsFit'
  BY <1>1, RequestsKept
<1>4. SentWasDelivered'
  BY <1>1 DEF SentWasDelivered, Exists
<1>5. QED
  BY <1>2, <1>3, <1>4 DEF OutboxInv

-----------------------------------------------------------------------------
(* Requests *)

\* What the record of an ended request holds.
LEMMA NothingOpen ==
    /\ NoRequest \in Request /\ NoRequest.step = "closed" /\ NoRequest.skip = {}
    /\ NoRequest.rid = NoId /\ NoRequest.seen = NoRow /\ NoRequest.want = NoRow
BY DEF NoRequest, Request, AllOps

\* What an operation may make of the appointment it loads.
Makes(op, id, row) ==
    /\ appointments[id] = NoRow <=> op = "create"
    /\ op = "update" => row = [appointments[id] EXCEPT !.start = row.start]
    /\ op = "confirm" => row = [appointments[id] EXCEPT !.confirmation_pending = FALSE]
    /\ op \in {"complete", "cancel"} =>
          /\ row = [appointments[id] EXCEPT !.status = row.status]
          /\ row # appointments[id] /\ row.status # "scheduled"
    /\ op = "manual" => row = appointments[id]

\* Every request begins so.
LEMMA StartLoads ==
    ASSUME OutboxInv, NEW q \in Requests, StartRequest(q)
    PROVE  \E op \in AllOps, id \in Appointments, row \in Appointment :
              Load(q, op, id, row) /\ Makes(op, id, row)
<1>1. ASSUME NEW id \in Appointments, appointments[id] # NoRow
      PROVE  appointments[id] \in Appointment
  BY <1>1 DEF OutboxInv, TypeOK
<1>2. CASE CreateAppointment(q)
  <2>1. PICK id \in Appointments, s \in Starts, pending \in BOOLEAN :
          /\ appointments[id] = NoRow /\ s > now
          /\ Load(q, "create", id,
                  [status |-> "scheduled", confirmation_pending |-> pending, start |-> s])
    BY <1>2 DEF CreateAppointment
  <2>2. /\ [status |-> "scheduled", confirmation_pending |-> pending, start |-> s] \in Appointment
        /\ [status |-> "scheduled", confirmation_pending |-> pending, start |-> s].start = s
    BY DEF Appointment
  <2>3. QED
    BY <2>1, <2>2 DEF AllOps, Makes
<1>3. CASE UpdateAppointment(q)
  <2>1. PICK id \in Appointments, s \in Starts :
          IsScheduled(id) /\ Load(q, "update", id, [appointments[id] EXCEPT !.start = s])
    BY <1>3 DEF UpdateAppointment
  <2>2. appointments[id] # NoRow
    BY <2>1 DEF IsScheduled
  <2>3. /\ [appointments[id] EXCEPT !.start = s] \in Appointment
        /\ [appointments[id] EXCEPT !.start = s].start = s
    BY <1>1, <2>2 DEF Appointment
  <2>4. QED
    BY <2>1, <2>2, <2>3 DEF AllOps, Makes
<1>4. CASE ConfirmAppointment(q)
  <2>1. PICK id \in Appointments :
          /\ IsScheduled(id)
          /\ Load(q, "confirm", id, [appointments[id] EXCEPT !.confirmation_pending = FALSE])
    BY <1>4 DEF ConfirmAppointment
  <2>2. appointments[id] # NoRow
    BY <2>1 DEF IsScheduled
  <2>3. [appointments[id] EXCEPT !.confirmation_pending = FALSE] \in Appointment
    BY <1>1, <2>2 DEF Appointment
  <2>4. QED
    BY <2>1, <2>2, <2>3 DEF AllOps, Makes
<1>5. CASE CloseAppointment(q)
  <2>1. PICK id \in Appointments, op \in {"complete", "cancel"} :
          /\ IsScheduled(id)
          /\ Load(q, op, id, [appointments[id] EXCEPT
                                 !.status = IF op = "complete" THEN "completed" ELSE "canceled"])
    BY <1>5 DEF CloseAppointment
  <2> DEFINE row == [appointments[id] EXCEPT
                        !.status = IF op = "complete" THEN "completed" ELSE "canceled"]
  <2>2. appointments[id] # NoRow /\ appointments[id].status = "scheduled"
    BY <2>1 DEF IsScheduled
  <2>3. /\ row \in Appointment /\ row.status # "scheduled"
        /\ row = [appointments[id] EXCEPT !.status = row.status]
    BY <1>1, <2>2 DEF Appointment
  <2>4. row # appointments[id]
    BY <2>2, <2>3
  <2>5. op \in AllOps /\ Makes(op, id, row)
    BY <2>1, <2>2, <2>3, <2>4 DEF AllOps, Makes
  <2> HIDE DEF row
  <2>6. QED
    BY <2>1, <2>3, <2>5 DEF row
<1>6. CASE ManualReminder(q)
  <2>1. PICK id \in Appointments :
          appointments[id] # NoRow /\ Load(q, "manual", id, appointments[id])
    BY <1>6 DEF ManualReminder
  <2>2. QED
    BY <1>1, <2>1 DEF AllOps, Makes
<1>7. QED
  BY <1>2, <1>3, <1>4, <1>5, <1>6 DEF StartRequest

\* The record of a request that has loaded its appointment.
Loaded(op, id, row) ==
    [NoRequest EXCEPT !.step = "loaded", !.op = op, !.id = id,
                      !.read = appointments[id], !.row = row]

\* The fields of that record.
LEMMA LoadedRecord ==
    ASSUME TypeOK, NEW op \in AllOps, NEW id \in Appointments, NEW row \in Appointment
    PROVE  /\ Loaded(op, id, row) \in Request
           /\ Loaded(op, id, row).step = "loaded" /\ Loaded(op, id, row).op = op
           /\ Loaded(op, id, row).id = id /\ Loaded(op, id, row).row = row
           /\ Loaded(op, id, row).read = appointments[id] /\ Loaded(op, id, row).skip = {}
           /\ Loaded(op, id, row).rid = NoId /\ Loaded(op, id, row).seen = NoRow
           /\ Loaded(op, id, row).want = NoRow
<1>1. appointments[id] \in Appointment \cup {NoRow}
  BY DEF TypeOK
<1>2. QED
  BY <1>1 DEF Loaded, NoRequest, Request

\* A request opens with what it loaded, and nothing to write yet.
LEMMA StartKeeps ==
    ASSUME OutboxInv, NEW q \in Requests, StartRequest(q)
    PROVE  OutboxInv'
<1>1. PICK op \in AllOps, id \in Appointments, row \in Appointment :
        Load(q, op, id, row) /\ Makes(op, id, row)
  BY StartLoads
<1> DEFINE new == Loaded(op, id, row)
<1>2. /\ request[q].step = "closed" /\ request' = [request EXCEPT ![q] = new]
      /\ now' = now /\ lead' = lead /\ appointments' = appointments
      /\ reminders' = reminders /\ worker' = worker /\ handed' = handed
      /\ delivered' = delivered /\ overlap' \in BOOLEAN /\ mixed' = mixed
  BY <1>1 DEF Load, Loaded
<1>3. TypeOK /\ RequestsApart /\ SkipsHold /\ SessionsFit /\ WantsFit /\ ReportsFit
      /\ SentWasDelivered
  BY DEF OutboxInv
<1>4. /\ new \in Request /\ new.step = "loaded" /\ new.op = op /\ new.id = id
      /\ new.row = row /\ new.read = appointments[id] /\ new.skip = {} /\ new.rid = NoId
      /\ new.seen = NoRow /\ new.want = NoRow
  BY <1>3, LoadedRecord
<1> HIDE DEF new
<1>5. request'[q] = new /\ \A u \in Requests \ {q} : request'[u] = request[u]
  BY <1>2, <1>3 DEF TypeOK
<1>6. TypeOK'
  BY <1>2, <1>3, <1>4 DEF TypeOK
<1>7. RequestsApart'
  BY <1>3, <1>4, <1>5 DEF RequestsApart, Holds, Changes
<1>8. SkipsHold'
  BY <1>2, <1>3, <1>4, <1>5 DEF SkipsHold, Active, Holds, Changes
<1>9. SessionsFit'
  <2>1. SUFFICES ASSUME NEW u \in Requests
                 PROVE  SessionFits(u)'
    BY DEF SessionsFit, SessionFits, Changes
  <2>2. CASE u = q
    <3>1. /\ request'[u] = new /\ row # NoRow
          /\ new.op \in {"complete", "cancel"} => new.row # new.read
          /\ new.op = "manual" => new.row = new.read
          /\ new.read = NoRow <=> new.op = "create"
      BY <1>1, <1>4, <1>5, <2>2, NullAssumption DEF Makes
    <3>2. /\ new.op = "update" => new.row = [new.read EXCEPT !.start = new.row.start]
          /\ new.op = "confirm" => new.row = [new.read EXCEPT !.confirmation_pending = FALSE]
          /\ new.op \in {"complete", "cancel"} =>
                new.row = [new.read EXCEPT !.status = new.row.status] /\ new.row.status # "scheduled"
      BY <1>1, <1>4 DEF Makes
    <3>3. QED
      BY <1>2, <1>4, <2>2, <3>1, <3>2 DEF SessionFits, Changes
  <2>3. CASE u # q
    BY <1>2, <1>3, <1>5, <2>3 DEF SessionsFit, SessionFits, Changes
  <2>4. QED
    BY <2>2, <2>3
<1>10. WantsFit'
  <2>1. ASSUME NEW u \in Requests, request[u].want # NoRow
        PROVE  request[u].rid # NoId
    BY <1>3, <2>1, KeyAssumption DEF WantsFit
  <2>2. QED
    BY <1>2, <1>3, <1>4, <1>5, <2>1 DEF WantsFit, Exists
<1>11. ReportsFit' /\ SentWasDelivered'
  BY <1>2, <1>3 DEF ReportsFit, SentWasDelivered, Exists
<1>12. QED
  BY <1>6, <1>7, <1>8, <1>9, <1>10, <1>11 DEF OutboxInv

\* What a request decides to write: rows it may skip and a reminder.
SkipAllowed(q, skip) ==
    skip = {} \/ (Changes(q) /\ skip = PendingOf(request[q].id))

WantAllowed(rid, seen, want) ==
    \/ rid = NoId /\ seen = NoRow /\ want = NoRow
    \/ /\ rid \in ReminderIds /\ want \in Reminder /\ want.status = "pending"
       /\ \/ seen = NoRow /\ Unused(rid)
          \/ seen \in Reminder /\ seen.status # "sent" /\ Exists(rid)

\* A change of the start or the status skips the active reminders; the automatic
\* reminder is for the row of the session, new only where its start has none, and one
\* that is set back keeps its attempts unless it had failed or been skipped.
Decides(q, skip, rid, seen, want) ==
    LET id == request[q].id
        row == request[q].row
        read == request[q].read IN
    /\ read # NoRow =>
          /\ row.confirmation_pending => read.confirmation_pending
          /\ row.start # read.start \/ row.status # read.status => skip = PendingOf(id)
    /\ want # NoRow /\ want.type = "upcoming" =>
          /\ Schedulable(row) /\ want.appointment = id /\ want.start = row.start
          /\ seen = NoRow => Snapshot(id, row.start) = {}
    /\ seen # NoRow =>
          /\ want.type = "upcoming" /\ SameSnapshot(reminders[rid], want)
          /\ seen.status \in {"failed", "skipped"} \/ want.attempts = seen.attempts
    /\ Schedulable(row) /\ Changes(q) =>
          \/ Snapshot(id, row.start) # {}
          \/ want # NoRow /\ seen = NoRow /\ want.type = "upcoming"

\* What the flush of a request leaves in its record and alone.
LEMMA FlushStep ==
    ASSUME TypeOK, NEW q \in Requests, NEW skip, NEW rid, NEW seen, NEW want,
           Flush(q, skip, rid, seen, want)
    PROVE  /\ request'[q].step = "flushed" /\ request'[q].skip = skip /\ request'[q].rid = rid
           /\ request'[q].seen = seen /\ request'[q].want = want
           /\ request'[q].op = request[q].op /\ request'[q].id = request[q].id
           /\ request'[q].read = request[q].read /\ request'[q].row = request[q].row
           /\ \A u \in Requests \ {q} : request'[u] = request[u]
           /\ now' = now /\ lead' = lead /\ appointments' = appointments
           /\ reminders' = reminders /\ worker' = worker /\ handed' = handed
           /\ delivered' = delivered /\ overlap' = overlap /\ mixed' = mixed
<1>1. request[q] \in Request /\ DOMAIN request = Requests
  BY DEF TypeOK
<1>2. request' = [request EXCEPT ![q].step = "flushed", ![q].skip = skip,
                                 ![q].rid = rid, ![q].seen = seen, ![q].want = want]
  BY DEF Flush
<1>3. QED
  BY <1>1, <1>2 DEF Flush, Request, history

\* A request takes the locks and decides.
LEMMA FlushKeeps ==
    ASSUME OutboxInv, NEW q \in Requests, NEW skip, NEW rid, NEW seen, NEW want,
           request[q].step = "loaded", RowFree(q),
           SkipAllowed(q, skip), WantAllowed(rid, seen, want),
           Flush(q, skip, rid, seen, want)
    PROVE  OutboxInv'
<1>1. TypeOK /\ RequestsApart /\ SkipsHold /\ SessionsFit /\ WantsFit /\ ReportsFit
      /\ SentWasDelivered
  BY DEF OutboxInv
<1>2. /\ request'[q].step = "flushed" /\ request'[q].skip = skip /\ request'[q].rid = rid
      /\ request'[q].seen = seen /\ request'[q].want = want
      /\ request'[q].op = request[q].op /\ request'[q].id = request[q].id
      /\ request'[q].read = request[q].read /\ request'[q].row = request[q].row
      /\ \A u \in Requests \ {q} : request'[u] = request[u]
      /\ now' = now /\ lead' = lead /\ appointments' = appointments
      /\ reminders' = reminders /\ worker' = worker /\ handed' = handed
      /\ delivered' = delivered /\ overlap' = overlap /\ mixed' = mixed
  BY <1>1, FlushStep
<1>3. /\ skip \subseteq ReminderIds
      /\ rid \in ReminderIds \cup {NoId} /\ seen \in Reminder \cup {NoRow}
      /\ want \in Reminder \cup {NoRow}
  BY DEF SkipAllowed, PendingOf, WantAllowed
<1>4. request' \in [Requests -> Request]
  <2>1. request[q] \in Request /\ request \in [Requests -> Request]
    BY <1>1 DEF TypeOK
  <2>2. [request[q] EXCEPT !.step = "flushed", !.skip = skip, !.rid = rid, !.seen = seen,
                           !.want = want] \in Request
    BY <1>3, <2>1 DEF Request
  <2>3. request' = [request EXCEPT ![q] =
           [request[q] EXCEPT !.step = "flushed", !.skip = skip, !.rid = rid, !.seen = seen,
                              !.want = want]]
    BY <2>1 DEF Flush
  <2>4. QED
    BY <2>1, <2>2, <2>3
<1>5. TypeOK'
  BY <1>1, <1>2, <1>4 DEF TypeOK
<1>6. /\ \A u \in Requests \ {q} : Holds(u, request[u].id)' = Holds(u, request[u].id)
      /\ Holds(q, request[q].id)' = Changes(q)
  BY <1>2 DEF Holds, Changes
<1>7. RequestsApart'
  <2>1. ASSUME NEW u \in Requests \ {q}, Changes(q), Holds(u, request[u].id)
        PROVE  request[u].id # request[q].id
    BY <2>1 DEF RowFree
  <2>2. QED
    BY <1>1, <1>2, <1>6, <2>1 DEF RequestsApart
<1>8. SkipsHold'
  <2>1. ASSUME NEW i \in skip
        PROVE  Changes(q) /\ Active(reminders[i]) /\ reminders[i].appointment = request[q].id
    BY <2>1 DEF SkipAllowed, PendingOf
  <2>2. ASSUME NEW u \in Requests, NEW i \in request'[u].skip
        PROVE  /\ Holds(u, request[u].id)'
               /\ Active(reminders[i]) /\ reminders[i].appointment = request'[u].id
    BY <1>1, <1>2, <1>6, <2>1, <2>2 DEF SkipsHold
  <2>3. \A u \in Requests : request'[u].id = request[u].id
    BY <1>2
  <2>4. QED
    BY <1>2, <2>2, <2>3 DEF SkipsHold, Active
<1>9. SessionsFit'
  BY <1>1, <1>2 DEF SessionsFit, SessionFits, Changes
<1>10. WantsFit'
  <2>1. /\ want = NoRow => rid = NoId /\ seen = NoRow
        /\ want # NoRow => rid \in ReminderIds /\ want.status = "pending"
        /\ want # NoRow /\ seen = NoRow => ~Exists(rid) /\ Unused(rid)
        /\ seen # NoRow => Exists(rid) /\ seen.status # "sent"
    BY NullAssumption DEF WantAllowed, Unused, Used
  <2>2. ASSUME NEW u \in Requests \ {q}, request[u].want # NoRow, request[u].seen = NoRow
        PROVE  rid # request[u].rid
    <3>1. ~Exists(request[u].rid) /\ request[u].rid \in ReminderIds
      BY <1>1, <2>2 DEF WantsFit
    <3>2. QED
      BY <2>2, <3>1, KeyAssumption DEF WantAllowed, Unused, Used
  <2>3. ASSUME want # NoRow, seen = NoRow, NEW u \in Requests
        PROVE  request[u].rid # rid
    BY <2>1, <2>3 DEF Unused, Used
  <2>4. \A i : Exists(i)' = Exists(i)
    BY <1>2 DEF Exists
  <2>5. ASSUME NEW u \in Requests \ {q}, request[u].want # NoRow, request[u].seen = NoRow,
               NEW v \in Requests \ {u}
        PROVE  request'[v].rid # request[u].rid
    BY <1>1, <1>2, <2>2, <2>5 DEF WantsFit
  <2>6. QED
    BY <1>1, <1>2, <2>1, <2>3, <2>4, <2>5 DEF WantsFit
<1>11. ReportsFit' /\ SentWasDelivered'
  BY <1>1, <1>2 DEF ReportsFit, SentWasDelivered, Exists
<1>12. QED
  BY <1>5, <1>7, <1>8, <1>9, <1>10, <1>11 DEF OutboxInv

\* schedule_for_appointment decides so, if the skipped rows are those its operation
\* asks for.
LEMMA ScheduleDecides ==
    ASSUME OutboxInv, NEW q \in Requests, NEW skip,
           request[q].step = "loaded", WithReminder(q, skip),
           LET row == request[q].row
               read == request[q].read IN
           read # NoRow =>
              /\ row.confirmation_pending => read.confirmation_pending
              /\ row.start # read.start \/ row.status # read.status => skip = PendingOf(request[q].id)
    PROVE  \E rid, seen, want : /\ WantAllowed(rid, seen, want)
                                /\ Decides(q, skip, rid, seen, want)
                                /\ Flush(q, skip, rid, seen, want)
<1> DEFINE id == request[q].id
           row == request[q].row
           due == row.start - lead
           found == Snapshot(id, row.start)
           Now(i) == IF i \in skip THEN Skip(reminders[i]) ELSE reminders[i]
           new == NewReminder(id, "upcoming", row.start, due)
           Allowed == \E rid, seen, want : /\ WantAllowed(rid, seen, want)
                                           /\ Decides(q, skip, rid, seen, want)
                                           /\ Flush(q, skip, rid, seen, want)
<1>1. id \in Appointments /\ row \in Appointment
  BY DEF OutboxInv, SessionsFit, SessionFits, TypeOK, Request
<1>2. due \in Int /\ row.start \in Starts
  <2>1. lead \in Int /\ row.start \in Starts
    BY <1>1, TimeAssumption DEF OutboxInv, TypeOK, Appointment
  <2>2. row.start \in Int
    BY <2>1, TimesAreIntegers
  <2>3. QED
    BY <2>1, <2>2
<1>3. CASE /\ ~Schedulable(row) \/ \E i \in found : Now(i).status = "sent"
           /\ Flush(q, skip, NoId, NoRow, NoRow)
  <2>1. Decides(q, skip, NoId, NoRow, NoRow) /\ WantAllowed(NoId, NoRow, NoRow)
    BY <1>3 DEF Decides, WantAllowed
  <2>2. QED
    BY <1>3, <2>1
<1>4. ASSUME Schedulable(row), found = {}, NEW i \in ReminderIds, Unused(i),
             Flush(q, skip, i, NoRow, new)
      PROVE  Allowed
  <2>1. new \in Reminder /\ new.status = "pending"
    BY <1>1, <1>2, NewRow DEF ReminderType
  <2>2. /\ new.type = "upcoming" /\ new.appointment = id /\ new.start = row.start
        /\ new # NoRow
    BY <2>1, NullAssumption DEF NewReminder
  <2> HIDE DEF new
  <2>3. Decides(q, skip, i, NoRow, new) /\ WantAllowed(i, NoRow, new)
    BY <1>4, <2>1, <2>2 DEF Decides, WantAllowed
  <2>4. QED
    BY <1>4, <2>3
<1>5. ASSUME Schedulable(row), NEW i \in found, Now(i).status # "sent",
             Flush(q, skip, i, Now(i), Rescheduled(Now(i), due))
      PROVE  Allowed
  <2>1. /\ i \in ReminderIds /\ Exists(i) /\ reminders[i] \in Reminder
        /\ reminders[i].type = "upcoming" /\ reminders[i].appointment = id
        /\ reminders[i].start = row.start
    BY <1>5 DEF Snapshot, Exists, OutboxInv, TypeOK
  <2>2. /\ Now(i) \in Reminder /\ Now(i) # NoRow /\ Now(i).type = reminders[i].type
        /\ Now(i).appointment = reminders[i].appointment /\ Now(i).start = reminders[i].start
    BY <2>1, SkipRow, SkipSnapshot, NullAssumption
  <2> HIDE DEF Now
  <2>3. /\ Rescheduled(Now(i), due).type = Now(i).type
        /\ Rescheduled(Now(i), due).appointment = Now(i).appointment
        /\ Rescheduled(Now(i), due).start = Now(i).start
        /\ \/ Now(i).status \in {"failed", "skipped"}
           \/ Rescheduled(Now(i), due).attempts = Now(i).attempts
    BY <2>2 DEF Rescheduled, Reminder
  <2>4. /\ Rescheduled(Now(i), due) \in Reminder
        /\ Rescheduled(Now(i), due).status = "pending"
    BY <1>2, <2>2, RescheduledRow
  <2>5. Decides(q, skip, i, Now(i), Rescheduled(Now(i), due))
    BY <1>5, <2>1, <2>2, <2>3 DEF Decides, SameSnapshot
  <2>6. WantAllowed(i, Now(i), Rescheduled(Now(i), due))
    BY <1>5, <2>1, <2>2, <2>4 DEF WantAllowed
  <2>7. QED
    BY <1>5, <2>5, <2>6
<1>6. \/ /\ ~Schedulable(row) \/ \E i \in found : Now(i).status = "sent"
         /\ Flush(q, skip, NoId, NoRow, NoRow)
      \/ /\ Schedulable(row) /\ found = {}
         /\ \E i \in ReminderIds : Unused(i) /\ Flush(q, skip, i, NoRow, new)
      \/ /\ Schedulable(row)
         /\ \E i \in found : /\ Now(i).status # "sent"
                             /\ Flush(q, skip, i, Now(i), Rescheduled(Now(i), due))
  BY DEF WithReminder, SessionRow
<1> HIDE DEF Now, found, due, new
<1>7. Allowed
  <2>1. CASE /\ ~Schedulable(row) \/ \E i \in found : Now(i).status = "sent"
             /\ Flush(q, skip, NoId, NoRow, NoRow)
    BY <1>3, <2>1
  <2>2. CASE /\ Schedulable(row) /\ found = {}
             /\ \E i \in ReminderIds : Unused(i) /\ Flush(q, skip, i, NoRow, new)
    <3> HIDE DEF Allowed
    <3>1. QED
      BY <1>4, <2>2
  <2>3. CASE /\ Schedulable(row)
             /\ \E i \in found : /\ Now(i).status # "sent"
                                 /\ Flush(q, skip, i, Now(i), Rescheduled(Now(i), due))
    <3> HIDE DEF Allowed
    <3>1. QED
      BY <1>5, <2>3
  <2>4. QED
    BY <1>6, <2>1, <2>2, <2>3
<1>8. QED
  BY <1>7

\* So does every request, once no other holds the row it changes.
LEMMA FlushDecides ==
    ASSUME OutboxInv, NEW q \in Requests, FlushRequest(q)
    PROVE  /\ request[q].step = "loaded" /\ RowFree(q)
           /\ \E skip, rid, seen, want :
                 /\ SkipAllowed(q, skip) /\ WantAllowed(rid, seen, want)
                 /\ Decides(q, skip, rid, seen, want) /\ Flush(q, skip, rid, seen, want)
<1> DEFINE id == request[q].id
           row == request[q].row
           read == request[q].read
<1>1. request[q].step = "loaded"
  BY DEF FlushRequest, FlushScheduled, FlushClosed, QueryManual
<1>2. /\ id \in Appointments /\ row \in Appointment /\ read \in Appointment \cup {NoRow}
      /\ read = NoRow <=> request[q].op = "create"
      /\ request[q].op = "update" => row = [read EXCEPT !.start = row.start]
      /\ request[q].op = "confirm" => row = [read EXCEPT !.confirmation_pending = FALSE]
      /\ request[q].op \in {"complete", "cancel"} =>
            /\ row = [read EXCEPT !.status = row.status]
            /\ Changes(q) /\ row.status # "scheduled"
      /\ request[q].op = "manual" => ~Changes(q)
  BY <1>1 DEF OutboxInv, SessionsFit, SessionFits, TypeOK, Request
<1>3. CASE FlushScheduled(q)
  <2> DEFINE skip == IF Rescheduling(q) THEN PendingOf(id) ELSE {}
  <2>1. /\ RowFree(q) /\ WithReminder(q, skip)
        /\ request[q].op \in {"create", "update", "confirm"}
    BY <1>3 DEF FlushScheduled
  <2>2. SkipAllowed(q, skip)
    BY DEF SkipAllowed, Rescheduling, Changes
  <2>3. read # NoRow =>
           /\ row.confirmation_pending => read.confirmation_pending
           /\ row.start # read.start \/ row.status # read.status => skip = PendingOf(id)
    <3>1. SUFFICES ASSUME read # NoRow
                   PROVE  /\ row.confirmation_pending => read.confirmation_pending
                          /\ row.start # read.start \/ row.status # read.status
                                => skip = PendingOf(id)
      OBVIOUS
    <3>2. CASE request[q].op = "update"
      <4>1. row.confirmation_pending = read.confirmation_pending /\ row.status = read.status
        BY <1>2, <3>1, <3>2 DEF Appointment
      <4>2. row.start # read.start => skip = PendingOf(id)
        BY <3>2 DEF Rescheduling
      <4>3. QED
        BY <4>1, <4>2
    <3>3. CASE request[q].op = "confirm"
      <4>1. /\ row.confirmation_pending = FALSE /\ row.status = read.status
            /\ row.start = read.start
        BY <1>2, <3>1, <3>3 DEF Appointment
      <4>2. QED
        BY <4>1
    <3>4. QED
      BY <1>2, <2>1, <3>1, <3>2, <3>3
  <2> HIDE DEF skip
  <2>4. \E rid, seen, want : /\ WantAllowed(rid, seen, want)
                             /\ Decides(q, skip, rid, seen, want)
                             /\ Flush(q, skip, rid, seen, want)
    BY <1>1, <2>1, <2>3, ScheduleDecides
  <2>5. QED
    BY <1>1, <2>1, <2>2, <2>4
<1>4. CASE FlushClosed(q)
  <2>1. /\ RowFree(q) /\ Changes(q) /\ row.status # "scheduled" /\ read # NoRow
        /\ row = [read EXCEPT !.status = row.status]
        /\ Flush(q, PendingOf(id), NoId, NoRow, NoRow)
    BY <1>2, <1>4 DEF FlushClosed
  <2>2. /\ SkipAllowed(q, PendingOf(id)) /\ WantAllowed(NoId, NoRow, NoRow)
    BY <2>1 DEF SkipAllowed, WantAllowed
  <2>3. Decides(q, PendingOf(id), NoId, NoRow, NoRow)
    <3>1. row.confirmation_pending => read.confirmation_pending
      BY <1>2, <2>1 DEF Appointment
    <3>2. QED
      BY <2>1, <3>1 DEF Decides, Schedulable
  <2>4. QED
    BY <1>1, <2>1, <2>2, <2>3
<1>5. CASE QueryManual(q)
  <2> DEFINE r == NewReminder(id, "manual", row.start, now)
  <2>1. \E i \in ReminderIds : Unused(i) /\ Flush(q, {}, i, NoRow, r)
    BY <1>5 DEF QueryManual
  <2>2. PICK i \in ReminderIds : Unused(i) /\ Flush(q, {}, i, NoRow, r)
    BY <2>1
  <2>3. ~Changes(q) /\ row = read
    BY <1>2, <1>5 DEF QueryManual, Changes
  <2>4. row.start \in Starts /\ "manual" \in ReminderType /\ now \in Int
    BY <1>2, TimeAssumption DEF Appointment, ReminderType, OutboxInv, TypeOK
  <2>5. r \in Reminder /\ r.status = "pending" /\ r.type = "manual"
    BY <1>2, <2>4, NewRow DEF NewReminder
  <2> HIDE DEF r
  <2>6. WantAllowed(i, NoRow, r) /\ SkipAllowed(q, {}) /\ RowFree(q)
    BY <2>2, <2>3, <2>5 DEF WantAllowed, SkipAllowed, RowFree
  <2>7. Decides(q, {}, i, NoRow, r)
    BY <2>3, <2>5 DEF Decides
  <2>8. QED
    BY <1>1, <2>2, <2>6, <2>7
<1>6. QED
  BY <1>3, <1>4, <1>5 DEF FlushRequest

\* A flush leaves the outbox as it should be.
LEMMA FlushRequestKeeps ==
    ASSUME OutboxInv, NEW q \in Requests, FlushRequest(q)
    PROVE  OutboxInv'
BY FlushDecides, FlushKeeps

\* A commit merges what changed into the committed rows.
LEMMA CommitKeeps ==
    ASSUME OutboxInv, NEW q \in Requests, CommitRequest(q)
    PROVE  OutboxInv'
<1> DEFINE rq == request[q]
           changed == MergeAppointment(rq.row, rq.read, appointments[rq.id])
           skipped == [i \in ReminderIds |-> IF i \in rq.skip THEN Skip(reminders[i])
                                                             ELSE reminders[i]]
           final == IF rq.seen = NoRow THEN rq.want
                    ELSE MergeReminder(rq.want, rq.seen, skipped[rq.rid])
<1>1. TypeOK /\ RequestsApart /\ SkipsHold /\ SessionsFit /\ WantsFit /\ ReportsFit
      /\ SentWasDelivered
  BY DEF OutboxInv
<1>2. /\ now' = now /\ lead' = lead /\ worker' = worker /\ handed' = handed
      /\ delivered' = delivered /\ overlap' = overlap
      /\ request' = [request EXCEPT ![q] = NoRequest]
      /\ rq.step = "flushed" /\ \A u \in Requests \ {q} : rq.rid \notin request[u].skip
  BY DEF CommitRequest, End
<1>3. \/ appointments' = appointments /\ reminders' = reminders /\ mixed' = mixed
      \/ /\ appointments' = IF Changes(q) THEN [appointments EXCEPT ![rq.id] = changed]
                                          ELSE appointments
         /\ mixed' = IF Changes(q) /\ changed # rq.row THEN mixed \cup {rq.id} ELSE mixed
         /\ reminders' = IF rq.want = NoRow THEN skipped
                         ELSE [skipped EXCEPT ![rq.rid] = final]
  BY DEF CommitRequest
<1>4. rq \in Request /\ rq.skip \subseteq ReminderIds
      /\ rq.want \in Reminder \cup {NoRow} /\ rq.seen \in Reminder \cup {NoRow}
      /\ rq.row \in Appointment /\ rq.id \in Appointments
      /\ changed \in Appointment
  <2>1. /\ rq \in Request /\ rq.row # NoRow /\ rq.id \in Appointments
        /\ rq.read # NoRow => appointments[rq.id] # NoRow
    BY <1>1, <1>2 DEF TypeOK, SessionsFit, SessionFits
  <2>2. /\ rq.row \in Appointment /\ rq.read \in Appointment \cup {NoRow}
        /\ rq.read # NoRow => appointments[rq.id] \in Appointment
    BY <1>1, <2>1 DEF TypeOK, Request
  <2>3. changed \in Appointment
    BY <2>2, MergeAppointmentRow
  <2>4. QED
    BY <2>1, <2>2, <2>3 DEF Request
<1>5. ASSUME NEW i \in ReminderIds
      PROVE  /\ skipped[i] \in Reminder \cup {NoRow}
             /\ Exists(i) <=> skipped[i] # NoRow
             /\ Exists(i) => skipped[i].appointment = reminders[i].appointment
             /\ Exists(i) /\ skipped[i].status = "sent" => reminders[i].status = "sent"
             /\ i \notin rq.skip => skipped[i] = reminders[i]
  <2>1. reminders[i] \in Reminder \cup {NoRow}
    BY <1>1 DEF TypeOK
  <2>2. CASE i \in rq.skip
    <3>1. Exists(i)
      BY <1>1, <2>2 DEF SkipsHold, Active, Exists
    <3>2. reminders[i] \in Reminder
      BY <2>1, <3>1 DEF Exists
    <3>3. skipped[i] = Skip(reminders[i])
      BY <2>2
    <3>4. QED
      BY <2>2, <3>1, <3>2, <3>3, SkipRow
  <2>3. CASE i \notin rq.skip
    <3>1. skipped[i] = reminders[i]
      BY <2>3
    <3>2. QED
      BY <2>1, <2>3, <3>1 DEF Exists
  <2>4. QED
    BY <2>2, <2>3
<1>6. ASSUME rq.want # NoRow
      PROVE  /\ rq.rid \in ReminderIds /\ final \in Reminder /\ final # NoRow
             /\ final.status = "sent" => Exists(rq.rid) /\ reminders[rq.rid].status = "sent"
             /\ Exists(rq.rid) => final.appointment = reminders[rq.rid].appointment
             /\ ~Exists(rq.rid) => \A u \in Requests \ {q} : request[u].rid # rq.rid
  <2>1. rq.rid \in ReminderIds /\ rq.want \in Reminder /\ rq.want.status = "pending"
    BY <1>1, <1>4, <1>6 DEF WantsFit
  <2>2. CASE rq.seen = NoRow
    <3>1. final = rq.want
      BY <2>2
    <3>2. ~Exists(rq.rid) /\ \A u \in Requests \ {q} : request[u].rid # rq.rid
      BY <1>1, <1>6, <2>2 DEF WantsFit
    <3>3. QED
      BY <1>6, <2>1, <3>1, <3>2
  <2>3. CASE rq.seen # NoRow
    <3>1. Exists(rq.rid) /\ rq.seen \in Reminder
      BY <1>1, <1>4, <2>3 DEF WantsFit
    <3>2. skipped[rq.rid] \in Reminder
          /\ skipped[rq.rid].appointment = reminders[rq.rid].appointment
          /\ (skipped[rq.rid].status = "sent" => reminders[rq.rid].status = "sent")
      BY <1>5, <2>1, <3>1
    <3>3. final = MergeReminder(rq.want, rq.seen, skipped[rq.rid])
      BY <2>3
    <3>4. /\ final \in Reminder /\ final # NoRow
          /\ final.appointment = skipped[rq.rid].appointment
          /\ final.status = rq.want.status \/ final.status = skipped[rq.rid].status
      BY <2>1, <3>1, <3>2, <3>3, MergeRow
    <3>5. QED
      BY <2>1, <3>1, <3>2, <3>4
  <2>4. QED
    BY <2>2, <2>3
<1>7. ASSUME NEW i \in ReminderIds
      PROVE  /\ reminders'[i] \in Reminder \cup {NoRow}
             /\ Exists(i) => reminders'[i] # NoRow
                             /\ reminders'[i].appointment = reminders[i].appointment
             /\ reminders'[i] # NoRow /\ ~Exists(i) =>
                   \A u \in Requests \ {q} : request[u].rid # i
             /\ reminders'[i] # NoRow /\ reminders'[i].status = "sent" =>
                   Exists(i) /\ reminders[i].status = "sent"
             /\ i \notin rq.skip /\ i # rq.rid => reminders'[i] = reminders[i]
  <2>1. CASE reminders' = reminders
    BY <1>1, <2>1 DEF TypeOK, Exists
  <2>2. CASE reminders' = skipped
    BY <1>5, <2>2 DEF Exists
  <2>3. CASE rq.want # NoRow /\ reminders' = [skipped EXCEPT ![rq.rid] = final]
    <3>1. CASE i = rq.rid
      <4>1. reminders'[i] = final
        BY <2>3, <3>1
      <4>2. QED
        BY <1>6, <2>3, <3>1, <4>1
    <3>2. CASE i # rq.rid
      <4>1. reminders'[i] = skipped[i]
        BY <2>3, <3>2
      <4>2. QED
        BY <1>5, <3>2, <4>1 DEF Exists
    <3>3. QED
      BY <3>1, <3>2
  <2>4. QED
    BY <1>3, <2>1, <2>2, <2>3
<1>8. TypeOK'
  <2>1. reminders' \in [ReminderIds -> Reminder \cup {NoRow}]
    <3>1. DOMAIN reminders' = ReminderIds /\ reminders' = [i \in ReminderIds |-> reminders'[i]]
      BY <1>1, <1>3 DEF TypeOK
    <3>2. QED
      BY <1>7, <3>1
  <2>2. appointments' \in [Appointments -> Appointment \cup {NoRow}]
    BY <1>1, <1>3, <1>4 DEF TypeOK
  <2>3. request' \in [Requests -> Request]
    BY <1>1, <1>2, NothingOpen DEF TypeOK
  <2>4. mixed' \subseteq Appointments
    BY <1>1, <1>3, <1>4 DEF TypeOK
  <2>5. QED
    BY <1>1, <1>2, <2>1, <2>2, <2>3, <2>4 DEF TypeOK
<1>9. /\ request'[q] = NoRequest
      /\ \A u \in Requests \ {q} : request'[u] = request[u]
  BY <1>1, <1>2 DEF TypeOK
<1>10. /\ \A u \in Requests \ {q} : Holds(u, request[u].id)' = Holds(u, request[u].id)
       /\ ~Holds(q, request[q].id)'
  BY <1>9, NothingOpen DEF Holds, Changes
<1>11. RequestsApart'
  BY <1>1, <1>9, <1>10 DEF RequestsApart
<1>12. SkipsHold'
  <2>1. ASSUME NEW u \in Requests \ {q}, NEW i \in request[u].skip
        PROVE  Holds(u, request[u].id) /\ Active(reminders'[i])
               /\ reminders'[i].appointment = request[u].id
    <3>1. /\ Holds(u, request[u].id)
          /\ Active(reminders[i]) /\ reminders[i].appointment = request[u].id
          /\ i \in ReminderIds
      BY <1>1, <2>1 DEF SkipsHold, TypeOK, Request
    <3>2. i \notin rq.skip
      <4>1. SUFFICES ASSUME i \in rq.skip PROVE FALSE
        OBVIOUS
      <4>2. Holds(q, rq.id) /\ reminders[i].appointment = rq.id
        BY <1>1, <4>1 DEF SkipsHold
      <4>3. QED
        BY <1>1, <3>1, <4>2 DEF RequestsApart
    <3>3. reminders'[i] = reminders[i]
      BY <1>2, <1>7, <3>1, <3>2
    <3>4. QED
      BY <3>1, <3>3
  <2>2. QED
    BY <1>9, <1>10, <2>1, NothingOpen DEF SkipsHold, Active
<1>13. WantsFit'
  <2>1. ASSUME NEW u \in Requests \ {q}
        PROVE  /\ request[u].want = NoRow => request[u].rid = NoId /\ request[u].seen = NoRow
               /\ request[u].want # NoRow => request[u].rid \in ReminderIds
                                             /\ request[u].want.status = "pending"
               /\ request[u].want # NoRow /\ request[u].seen = NoRow =>
                     /\ ~Exists(request[u].rid)
                     /\ \A v \in Requests \ {u} : request[v].rid # request[u].rid
               /\ request[u].seen # NoRow => Exists(request[u].rid)
                     /\ request[u].seen.status # "sent" /\ request[u].want # NoRow
    BY <1>1 DEF WantsFit
  <2>2. ASSUME NEW u \in Requests \ {q}, request[u].seen # NoRow
        PROVE  reminders'[request[u].rid] # NoRow
    <3>1. Exists(request[u].rid) /\ request[u].want # NoRow
      BY <2>1, <2>2
    <3>2. request[u].rid \in ReminderIds
      BY <2>1, <3>1
    <3>3. QED
      BY <1>7, <3>1, <3>2
  <2>3. ASSUME NEW u \in Requests \ {q}, request[u].want # NoRow, request[u].seen = NoRow
        PROVE  /\ reminders'[request[u].rid] = NoRow
               /\ \A v \in Requests \ {u} : request'[v].rid # request[u].rid
    <3>1. request[u].rid \in ReminderIds /\ ~Exists(request[u].rid)
      BY <2>1, <2>3
    <3>2. reminders'[request[u].rid] = NoRow
      BY <1>7, <3>1
    <3>3. request[u].rid # NoId
      BY <3>1, KeyAssumption
    <3>4. QED
      BY <1>9, <2>1, <2>3, <3>2, <3>3, NothingOpen
  <2>4. QED
    BY <1>9, <2>1, <2>2, <2>3, NothingOpen DEF WantsFit, Exists
<1>14. SessionsFit'
  <2>1. \A id \in Appointments : appointments[id] # NoRow => appointments'[id] # NoRow
    BY <1>1, <1>3, <1>4, NullAssumption DEF TypeOK
  <2>2. QED
    BY <1>1, <1>9, <2>1, NothingOpen DEF SessionsFit, SessionFits, Changes
<1>15. ReportsFit'
  BY <1>1, <1>2, <1>7, ReportsKept
<1>16. SentWasDelivered'
  BY <1>1, <1>2, <1>7 DEF SentWasDelivered, Exists
<1>17. QED
  BY <1>8, <1>11, <1>12, <1>13, <1>14, <1>15, <1>16 DEF OutboxInv

\* An aborted request leaves only its own record behind, empty.
LEMMA AbortKeeps ==
    ASSUME OutboxInv, NEW q \in Requests, AbortRequest(q)
    PROVE  OutboxInv'
<1>1. TypeOK /\ RequestsApart /\ SkipsHold /\ SessionsFit /\ WantsFit /\ ReportsFit
      /\ SentWasDelivered
  BY DEF OutboxInv
<1>2. /\ now' = now /\ lead' = lead /\ appointments' = appointments
      /\ reminders' = reminders /\ worker' = worker /\ handed' = handed
      /\ delivered' = delivered /\ overlap' = overlap /\ mixed' = mixed
      /\ request' = [request EXCEPT ![q] = NoRequest]
  BY DEF AbortRequest, End, history
<1>3. /\ request'[q] = NoRequest
      /\ \A u \in Requests \ {q} : request'[u] = request[u]
  BY <1>1, <1>2 DEF TypeOK
<1>4. TypeOK'
  BY <1>1, <1>2, NothingOpen DEF TypeOK
<1>5. RequestsApart' /\ SkipsHold' /\ SessionsFit'
  <2>1. /\ \A u \in Requests \ {q} : Holds(u, request[u].id)' = Holds(u, request[u].id)
        /\ ~Holds(q, request[q].id)'
    BY <1>3, NothingOpen DEF Holds, Changes
  <2>2. RequestsApart'
    BY <1>1, <1>3, <2>1 DEF RequestsApart
  <2>3. SkipsHold'
    BY <1>1, <1>2, <1>3, <2>1, NothingOpen DEF SkipsHold, Active
  <2>4. SessionsFit'
    BY <1>1, <1>2, <1>3, NothingOpen DEF SessionsFit, SessionFits, Changes
  <2>5. QED
    BY <2>2, <2>3, <2>4
<1>6. WantsFit'
  <2>1. ASSUME NEW u \in Requests, request[u].want # NoRow, request[u].seen = NoRow
        PROVE  \A v \in Requests \ {u} : request'[v].rid # request[u].rid
    <3>1. /\ request[u].rid # NoId
          /\ \A v \in Requests \ {u} : request[v].rid # request[u].rid
      BY <1>1, <2>1, KeyAssumption DEF WantsFit
    <3>2. QED
      BY <1>3, <3>1, NothingOpen
  <2>2. QED
    BY <1>1, <1>2, <1>3, <2>1, NothingOpen DEF WantsFit, Exists
<1>7. ReportsFit' /\ SentWasDelivered'
  BY <1>1, <1>2 DEF ReportsFit, SentWasDelivered, Exists
<1>8. QED
  BY <1>4, <1>5, <1>6, <1>7 DEF OutboxInv

-----------------------------------------------------------------------------
(* Executions and the clock *)

\* The rows a claim takes are unlocked, active reminders.
LEMMA ClaimKeeps ==
    ASSUME OutboxInv, NEW w \in Workers, Claim(w)
    PROVE  OutboxInv'
<1> DEFINE invalid == Oldest(DueInvalid)
           batch == Oldest(Due)
<1>1. TypeOK /\ ReportsFit
  BY DEF OutboxInv
<1>2. PICK blocked \in SUBSET batch :
        /\ reminders' = [i \in ReminderIds |->
              IF i \in invalid THEN Skip(reminders[i])
              ELSE IF i \in blocked THEN Unsendable(reminders[i])
              ELSE IF i \in batch THEN Claimed(reminders[i])
              ELSE reminders[i]]
        /\ handed' = handed \cup (batch \ blocked)
        /\ worker' = IF batch = blocked THEN worker
                     ELSE [worker EXCEPT ![w].pc = "send", ![w].todo = batch \ blocked]
  BY DEF Claim
<1>3. /\ worker[w].pc = "idle" /\ now' = now /\ lead' = lead
      /\ appointments' = appointments /\ request' = request /\ delivered' = delivered
      /\ history' = history
  BY DEF Claim
<1>4. invalid \subseteq DueInvalid /\ batch \subseteq Due
  BY DEF Oldest
<1>5. ASSUME NEW i \in invalid
      PROVE  i \in ReminderIds /\ Active(reminders[i]) /\ ~RowLocked(i)
  BY <1>4, <1>5 DEF DueInvalid, InvalidLocked
<1>6. ASSUME NEW i \in batch
      PROVE  /\ i \in ReminderIds /\ Active(reminders[i]) /\ ~RowLocked(i)
             /\ reminders[i].attempts < MaxAttempts
  BY <1>4, <1>6 DEF Due
<1>7. now \in Int
  BY <1>1, TimesAreIntegers DEF TypeOK
<1>8. ASSUME NEW i \in ReminderIds
      PROVE  /\ reminders'[i] \in Reminder \cup {NoRow}
             /\ Exists(i) <=> reminders'[i] # NoRow
             /\ RowLocked(i) => reminders'[i] = reminders[i]
             /\ reminders'[i] # NoRow /\ reminders'[i].status = "sent" =>
                   reminders[i].status = "sent"
  <2>1. reminders[i] \in Reminder \cup {NoRow}
    BY <1>1 DEF TypeOK
  <2>2. CASE i \in invalid
    <3>1. reminders[i] \in Reminder /\ Exists(i) /\ ~RowLocked(i)
      BY <1>5, <2>1, <2>2 DEF Active, Exists
    <3>2. reminders'[i] = Skip(reminders[i])
      BY <1>2, <2>2
    <3>3. QED
      BY <3>1, <3>2, SkipRow
  <2>3. CASE i \notin invalid /\ i \in batch
    <3>1. /\ reminders[i] \in Reminder /\ Exists(i) /\ ~RowLocked(i)
          /\ reminders[i].attempts < MaxAttempts
      BY <1>6, <2>1, <2>3 DEF Active, Exists
    <3>2. reminders'[i] \in {Claimed(reminders[i]), Unsendable(reminders[i])}
      BY <1>2, <2>3
    <3>3. QED
      BY <1>7, <3>1, <3>2, ClaimRow
  <2>4. CASE i \notin invalid /\ i \notin batch
    <3>1. reminders'[i] = reminders[i]
      BY <1>2, <2>4
    <3>2. QED
      BY <2>1, <3>1 DEF Exists
  <2>5. QED
    BY <2>2, <2>3, <2>4
<1>9. reminders' \in [ReminderIds -> Reminder \cup {NoRow}]
  BY <1>2, <1>8
<1>10. batch \ blocked \subseteq ReminderIds
  BY <1>6
<1>11. worker' \in [Workers -> Worker]
  <2>1. [worker[w] EXCEPT !.pc = "send", !.todo = batch \ blocked] \in Worker
    BY <1>1, <1>10 DEF TypeOK, Worker
  <2>2. [worker EXCEPT ![w].pc = "send", ![w].todo = batch \ blocked]
          = [worker EXCEPT ![w] = [worker[w] EXCEPT !.pc = "send", !.todo = batch \ blocked]]
    BY <1>1 DEF TypeOK
  <2>3. QED
    BY <1>1, <1>2, <2>1, <2>2 DEF TypeOK
<1>12. handed' \subseteq ReminderIds
  BY <1>1, <1>2, <1>10 DEF TypeOK
<1>13. ReportsFit'
  <2>1. ASSUME NEW v \in Workers, NEW i \in worker'[v].todo \cup worker'[v].ok \cup worker'[v].bad
        PROVE  reminders'[i] # NoRow
    <3>1. i \in batch \/ i \in worker[v].todo \cup worker[v].ok \cup worker[v].bad
      BY <1>1, <1>2, <2>1 DEF TypeOK, Worker
    <3>2. i \in ReminderIds /\ Exists(i)
      BY <1>1, <1>6, <3>1 DEF ReportsFit, Active, Exists, TypeOK, Worker
    <3>3. QED
      BY <1>8, <3>2
  <2>2. ASSUME NEW v \in Workers
        PROVE  /\ worker'[v].ok = worker[v].ok /\ worker'[v].bad = worker[v].bad
               /\ worker'[v].item = worker[v].item /\ worker'[v].seen = worker[v].seen
               /\ worker[v].pc = "report" => worker'[v].pc = "report"
    BY <1>1, <1>2, <1>3, <2>2 DEF TypeOK, Worker
  <2>3. QED
    BY <1>1, <1>3, <2>1, <2>2 DEF ReportsFit, Exists
<1>14. QED
  BY <1>1, <1>3, <1>8, <1>9, <1>11, <1>12, <1>13, OutboxStepKeeps DEF TypeOK

\* What a step of an execution may turn its record into.
Progress(w, x) ==
    /\ x \in Worker
    /\ x.todo \subseteq worker[w].todo
    /\ x.ok \subseteq worker[w].ok /\ x.bad \subseteq worker[w].bad
    /\ x.item # NoId => /\ x.pc = "report" /\ x.item \in x.ok \cup x.bad
                        /\ x.seen # NoRow /\ x.seen.status # "sent"

\* A worker may always end its work,
LEMMA IdleProgress ==
    ASSUME NEW w PROVE Progress(w, NoWork)
<1>1. NoWork \in Worker
  BY DEF NoWork, Worker
<1>2. QED
  BY <1>1 DEF Progress, NoWork

\* drop a reminder from it,
LEMMA DroppedProgress ==
    ASSUME TypeOK, NEW w \in Workers, NEW i \in ReminderIds
    PROVE  /\ Progress(w, Dropped(w, i)) /\ Progress(w, Unread(w))
           /\ Progress(w, [Dropped(w, i) EXCEPT !.bad = {}])
<1>1. worker[w] \in Worker
  BY DEF TypeOK
<1>2. Dropped(w, i) \in Worker /\ Unread(w) \in Worker
  BY <1>1 DEF Dropped, Unread, Worker
<1>3. [Dropped(w, i) EXCEPT !.bad = {}] \in Worker
  BY <1>2 DEF Worker
<1>4. QED
  BY <1>1, <1>2, <1>3 DEF Progress, Dropped, Unread, Worker

\* or read one that was not sent.
LEMMA ReadingProgress ==
    ASSUME TypeOK, NEW w \in Workers, NEW i \in worker[w].ok \cup worker[w].bad,
           worker[w].pc = "report", Exists(i), reminders[i].status # "sent"
    PROVE  Progress(w, Reading(w, i))
<1>1. worker[w] \in Worker /\ i \in ReminderIds
  BY DEF TypeOK, Worker
<1>2. reminders[i] \in Reminder \cup {NoRow}
  BY <1>1 DEF TypeOK
<1>3. Reading(w, i) \in Worker
  BY <1>1, <1>2 DEF Reading, Worker
<1>4. QED
  BY <1>1, <1>3 DEF Progress, Reading, Worker, Exists

\* A step of a worker that makes progress so and changes only the rows it may.
LEMMA WorkKeeps ==
    ASSUME OutboxInv, NEW w \in Workers, NEW x, Progress(w, x), Work(w, x),
           reminders' \in [ReminderIds -> Reminder \cup {NoRow}],
           \A i \in ReminderIds : Exists(i) <=> reminders'[i] # NoRow,
           \A i \in ReminderIds : RowLocked(i) => reminders'[i] = reminders[i],
           \A i \in ReminderIds :
              reminders'[i] # NoRow /\ reminders'[i].status = "sent" =>
                 reminders[i].status = "sent" \/ delivered[i] > 0
    PROVE  OutboxInv'
<1> DEFINE y == IF x.todo \cup x.ok \cup x.bad = {} THEN NoWork ELSE x
<1>1. TypeOK /\ ReportsFit
  BY DEF OutboxInv
<1>2. /\ now' = now /\ lead' = lead /\ appointments' = appointments /\ request' = request
      /\ handed' = handed /\ delivered' = delivered /\ worker' = [worker EXCEPT ![w] = y]
      /\ history' = history
  BY DEF Work
<1>3. Progress(w, y)
  BY IdleProgress
<1>4. worker' \in [Workers -> Worker]
  BY <1>1, <1>2, <1>3 DEF TypeOK, Progress
<1>5. worker'[w] = y /\ \A v \in Workers \ {w} : worker'[v] = worker[v]
  BY <1>1, <1>2 DEF TypeOK
<1>6. ReportsFit'
  <2>1. ASSUME NEW v \in Workers, NEW i \in worker[v].todo \cup worker[v].ok \cup worker[v].bad
        PROVE  reminders'[i] # NoRow
    <3>1. i \in ReminderIds /\ Exists(i)
      BY <1>1, <2>1 DEF ReportsFit, TypeOK, Worker
    <3>2. QED
      BY <3>1
  <2>2. QED
    BY <1>1, <1>2, <1>3, <1>5, <2>1 DEF ReportsFit, Progress, Exists
<1>7. QED
  BY <1>1, <1>2, <1>4, <1>6, OutboxStepKeeps DEF TypeOK

\* Steps of an execution that leave the reminders alone.
LEMMA ReadKeeps ==
    ASSUME OutboxInv, NEW w \in Workers, ReadSent(w) \/ ReadFailed(w) \/ Crash(w)
    PROVE  OutboxInv'
<1>1. TypeOK /\ ReportsFit
  BY DEF OutboxInv
<1>2. reminders' = reminders
  BY DEF ReadSent, ReadFailed, Crash
<1>3. ASSUME NEW x, Progress(w, x), Work(w, x)
      PROVE  OutboxInv'
  BY <1>1, <1>2, <1>3, WorkKeeps DEF TypeOK, Exists
<1>4. CASE ReadSent(w)
  <2>1. PICK i \in worker[w].ok :
          /\ Reporting(w)
          /\ CASE reminders[i].status = "sent" -> Work(w, Dropped(w, i))
               [] reminders[i].status = "processing" -> Work(w, Reading(w, i))
               [] OTHER -> Work(w, [Dropped(w, i) EXCEPT !.bad = {}])
    BY <1>4 DEF ReadSent
  <2>2. i \in ReminderIds /\ Exists(i)
    BY <1>1 DEF ReportsFit, TypeOK, Worker
  <2>3. CASE Work(w, Dropped(w, i))
    BY <1>1, <1>3, <2>2, <2>3, DroppedProgress
  <2>4. CASE reminders[i].status = "processing" /\ Work(w, Reading(w, i))
    BY <1>1, <1>3, <2>1, <2>2, <2>4, ReadingProgress DEF Reporting
  <2>5. CASE Work(w, [Dropped(w, i) EXCEPT !.bad = {}])
    BY <1>1, <1>3, <2>2, <2>5, DroppedProgress
  <2>6. QED
    BY <2>1, <2>3, <2>4, <2>5
<1>5. CASE ReadFailed(w)
  <2>1. PICK i \in worker[w].bad :
          /\ Reporting(w)
          /\ Work(w, IF reminders[i].status = "sent" THEN Dropped(w, i) ELSE Reading(w, i))
    BY <1>5 DEF ReadFailed
  <2>2. i \in ReminderIds /\ Exists(i)
    BY <1>1 DEF ReportsFit, TypeOK, Worker
  <2>3. CASE reminders[i].status = "sent"
    BY <1>1, <1>3, <2>1, <2>2, <2>3, DroppedProgress
  <2>4. CASE reminders[i].status # "sent"
    BY <1>1, <1>3, <2>1, <2>2, <2>4, ReadingProgress DEF Reporting
  <2>5. QED
    BY <2>3, <2>4
<1>6. CASE Crash(w)
  BY <1>3, <1>6, IdleProgress DEF Crash
<1>7. QED
  BY <1>4, <1>5, <1>6

\* A report writes "sent" only for a reminder its execution delivered.
LEMMA CommitReportKeeps ==
    ASSUME OutboxInv, NEW w \in Workers, NEW answered, CommitReport(w, answered)
    PROVE  OutboxInv'
<1> DEFINE i == worker[w].item
           seen == worker[w].seen
           final == MergeReminder(Marked(w), seen, reminders[i])
<1>1. TypeOK /\ ReportsFit
  BY DEF OutboxInv
<1>2. i # NoId /\ ~RowLocked(i)
  BY DEF CommitReport
<1>3. /\ i \in worker[w].ok \cup worker[w].bad /\ seen # NoRow
      /\ i \in worker[w].ok => delivered[i] > 0
      /\ Exists(i)
  BY <1>1, <1>2 DEF ReportsFit
<1>4. i \in ReminderIds /\ seen \in Reminder /\ reminders[i] \in Reminder
  BY <1>1, <1>3 DEF TypeOK, Worker, Exists
<1>5. /\ Marked(w) \in Reminder
      /\ Marked(w).status = "sent" => i \in worker[w].ok
  BY <1>4, Statuses DEF Marked, Reminder
<1>6. /\ final \in Reminder /\ final # NoRow
      /\ final.status = "sent" => reminders[i].status = "sent" \/ delivered[i] > 0
  BY <1>3, <1>4, <1>5, MergeRow
<1>7. CASE Work(w, NoWork) /\ UNCHANGED reminders
  BY <1>1, <1>7, WorkKeeps, IdleProgress DEF TypeOK, Exists
<1>8. CASE /\ Work(w, IF answered THEN Dropped(w, i) ELSE Unread(w))
           /\ reminders' = [reminders EXCEPT ![i] = final]
  <2>1. /\ reminders' \in [ReminderIds -> Reminder \cup {NoRow}]
        /\ reminders'[i] = final
        /\ \A j \in ReminderIds \ {i} : reminders'[j] = reminders[j]
    BY <1>1, <1>4, <1>6, <1>8 DEF TypeOK
  <2>2. \A j \in ReminderIds :
           /\ Exists(j) <=> reminders'[j] # NoRow
           /\ RowLocked(j) => reminders'[j] = reminders[j]
           /\ reminders'[j] # NoRow /\ reminders'[j].status = "sent" =>
                 reminders[j].status = "sent" \/ delivered[j] > 0
    BY <1>2, <1>3, <1>6, <2>1 DEF Exists
  <2>3. Progress(w, IF answered THEN Dropped(w, i) ELSE Unread(w))
    BY <1>1, <1>4, DroppedProgress
  <2>4. QED
    BY <1>8, <2>1, <2>2, <2>3, WorkKeeps
<1>9. QED
  BY <1>7, <1>8 DEF CommitReport

\* A send moves one item to the reports; to those of success only when delivered.
LEMMA SendKeeps ==
    ASSUME OutboxInv, NEW w \in Workers, Send(w)
    PROVE  OutboxInv'
<1>1. TypeOK /\ ReportsFit
  BY DEF OutboxInv
<1>2. PICK i \in worker[w].todo, outcome \in Outcomes, messages \in 0..SendTries :
        /\ worker[w].pc = "send"
        /\ outcome = "ok" => messages > 0
        /\ worker' = [worker EXCEPT ![w] =
              [Route(w, i, outcome) EXCEPT !.pc = IF worker[w].todo = {i} THEN "report"
                                                                         ELSE "send"]]
        /\ delivered' = [delivered EXCEPT ![i] = IF @ > Enough THEN @ ELSE @ + messages]
        /\ now' = now /\ lead' = lead /\ appointments' = appointments
        /\ reminders' = reminders /\ request' = request /\ handed' = handed
        /\ history' = history
  BY DEF Send
<1> DEFINE x == [Route(w, i, outcome) EXCEPT !.pc = IF worker[w].todo = {i} THEN "report"
                                                                          ELSE "send"]
<1>3. i \in ReminderIds /\ worker[w] \in Worker
  BY <1>1 DEF TypeOK, Worker
<1>4. ASSUME NEW j \in ReminderIds
      PROVE  /\ delivered'[j] \in 0..Enough + SendTries
             /\ delivered[j] > 0 => delivered'[j] > 0
             /\ j = i /\ outcome = "ok" => delivered'[j] > 0
  <2>1. delivered[j] \in 0..Enough + SendTries
    BY <1>1 DEF TypeOK
  <2>2. CASE j = i
    <3>1. delivered'[j] = IF delivered[j] > Enough THEN delivered[j] ELSE delivered[j] + messages
      BY <1>1, <1>2, <1>3, <2>2 DEF TypeOK
    <3>2. messages \in 0..SendTries /\ (outcome = "ok" => messages > 0)
      BY <1>2
    <3>3. CASE delivered[j] > Enough
      BY <2>1, <3>1, <3>3, EnoughNat
    <3>4. CASE ~(delivered[j] > Enough)
      <4>1. delivered'[j] = delivered[j] + messages
        BY <3>1, <3>4
      <4>2. QED
        BY <2>1, <3>2, <3>4, <4>1, EnoughNat
    <3>5. QED
      BY <3>3, <3>4
  <2>3. CASE j # i
    <3>1. delivered'[j] = delivered[j]
      BY <1>1, <1>2, <2>3 DEF TypeOK
    <3>2. QED
      BY <2>1, <2>3, <3>1
  <2>4. QED
    BY <2>2, <2>3
<1>5. delivered' \in [ReminderIds -> 0..Enough + SendTries]
  <2>1. delivered' = [j \in ReminderIds |-> delivered'[j]]
    BY <1>1, <1>2 DEF TypeOK
  <2>2. QED
    BY <1>4, <2>1
<1>6. /\ x \in Worker /\ x.item = worker[w].item
      /\ x.todo \cup x.ok \cup x.bad \subseteq
            worker[w].todo \cup worker[w].ok \cup worker[w].bad
      /\ \A j \in x.ok : j \in worker[w].ok \/ (j = i /\ outcome = "ok")
  BY <1>3 DEF Route, Worker
<1>7. worker'[w] = x /\ \A v \in Workers \ {w} : worker'[v] = worker[v]
  BY <1>1, <1>2 DEF TypeOK
<1>8. worker' \in [Workers -> Worker]
  BY <1>1, <1>2, <1>6 DEF TypeOK
<1>9. worker[w].item = NoId
  <2>1. worker[w].pc # "report"
    BY <1>2
  <2>2. QED
    BY <1>1, <2>1 DEF ReportsFit
<1>10. ReportsFit'
  <2>1. ASSUME NEW v \in Workers, NEW j \in worker'[v].ok
        PROVE  delivered'[j] > 0
    <3>1. j \in worker[v].ok \/ (j = i /\ outcome = "ok")
      BY <1>6, <1>7, <2>1
    <3>2. j \in ReminderIds
      BY <1>1, <1>3, <3>1 DEF TypeOK, Worker
    <3>3. QED
      BY <1>1, <1>4, <3>1, <3>2 DEF ReportsFit
  <2>2. ASSUME NEW v \in Workers,
               NEW j \in worker'[v].todo \cup worker'[v].ok \cup worker'[v].bad
        PROVE  reminders'[j] # NoRow
    BY <1>1, <1>2, <1>6, <1>7, <2>2 DEF ReportsFit, Exists
  <2>3. QED
    BY <1>1, <1>6, <1>7, <1>9, <2>1, <2>2 DEF ReportsFit, Exists
<1>11. QED
  BY <1>1, <1>2, <1>4, <1>5, <1>8, <1>10, OutboxStepKeeps DEF TypeOK, Exists, SentWasDelivered, OutboxInv

\* Time changes no row.
LEMMA TickKeeps ==
    ASSUME OutboxInv, Tick
    PROVE  OutboxInv'
<1>1. TypeOK /\ ReportsFit /\ SentWasDelivered
  BY DEF OutboxInv
<1>2. /\ now' = now + 1 /\ now < Horizon /\ lead' = lead
      /\ appointments' = appointments /\ reminders' = reminders /\ request' = request
      /\ worker' = worker /\ handed' = handed /\ delivered' = delivered /\ history' = history
  BY DEF Tick
<1>3. now' \in 0..Horizon
  BY <1>1, <1>2, TimeAssumption DEF TypeOK
<1>4. ReportsFit'
  BY <1>1, <1>2 DEF ReportsFit, Exists
<1>5. QED
  BY <1>1, <1>2, <1>3, <1>4, OutboxStepKeeps DEF TypeOK, Exists, SentWasDelivered

-----------------------------------------------------------------------------
(* The specification *)

\* The invariant holds at first.
LEMMA InitOutbox ==
    ASSUME Init PROVE OutboxInv
<1>1. \A q \in Requests : ~Holds(q, request[q].id)
  BY NothingOpen DEF Init, Holds
<1>2. /\ NoWork \in Worker /\ NoWork.todo = {} /\ NoWork.ok = {} /\ NoWork.bad = {}
      /\ NoWork.item = NoId
  BY DEF NoWork, Worker
<1>3. 0 \in 0..Horizon /\ 0 \in 0..Enough + SendTries
  BY TimeAssumption, EnoughNat
<1>4. TypeOK
  BY <1>2, <1>3, NothingOpen DEF Init, TypeOK
<1>5. RequestsApart /\ SkipsHold /\ SessionsFit /\ WantsFit
  BY <1>1, NothingOpen DEF Init, RequestsApart, SkipsHold, SessionsFit, SessionFits, WantsFit
<1>6. ReportsFit
  BY <1>2 DEF Init, ReportsFit
<1>7. SentWasDelivered
  BY DEF Init, SentWasDelivered, Exists
<1>8. QED
  BY <1>4, <1>5, <1>6, <1>7 DEF OutboxInv

\* The invariant is inductive.
LEMMA NextOutbox ==
    ASSUME OutboxInv, [Next]_vars PROVE OutboxInv'
<1>1. ASSUME NEW q \in Requests,
             StartRequest(q) \/ FlushRequest(q) \/ CommitRequest(q) \/ AbortRequest(q)
      PROVE  OutboxInv'
  BY <1>1, StartKeeps, FlushRequestKeeps, CommitKeeps, AbortKeeps
<1>2. ASSUME NEW w \in Workers,
             \/ Claim(w) \/ Send(w) \/ Read(w) \/ Crash(w)
             \/ \E answered \in BOOLEAN : CommitReport(w, answered)
      PROVE  OutboxInv'
  BY <1>2, ClaimKeeps, SendKeeps, ReadKeeps, CommitReportKeeps DEF Read
<1>3. CASE Tick
  BY <1>3, TickKeeps
<1>4. CASE UNCHANGED vars
  BY <1>4 DEF vars, OutboxInv, TypeOK, history, RequestsApart, SkipsHold, SessionsFit, SessionFits,
              WantsFit, ReportsFit, SentWasDelivered, Exists, Active, Holds, Changes
<1>5. QED
  BY <1>1, <1>2, <1>3, <1>4 DEF Next

\* Open requests and executions never lose what they rely on: a request's locked
\* rows stay active, the key of a row to insert stays free, the row to change
\* stays; an execution reports only on rows that exist.
THEOREM OutboxSafe == Spec => []OutboxInv
BY InitOutbox, NextOutbox, PTL DEF Spec

\* The tables, requests and executions keep their types.
THEOREM OutboxTypeCorrect == Spec => []TypeOK
<1>1. OutboxInv => TypeOK
  BY DEF OutboxInv
<1>2. QED
  BY <1>1, OutboxSafe, PTL

\* mark_sent never records a delivery that did not happen, for any number of
\* requests, executions, reminders and attempts.
THEOREM SentOnlyDelivered == Spec => []SentWasDelivered
<1>1. OutboxInv => SentWasDelivered
  BY DEF OutboxInv
<1>2. QED
  BY <1>1, OutboxSafe, PTL

\* What SentUndoneOnlyByStaleRead says of one step.
SentKept ==
    \A i \in ReminderIds :
      Exists(i) /\ reminders[i].status = "sent" /\ reminders'[i].status # "sent"
        => \/ \E q \in Requests : request[q].rid = i /\ request[q].seen.status # "sent"
           \/ \E w \in Workers : worker[w].item = i /\ worker[w].seen.status # "sent"

\* A sent reminder is taken back only by who read it before it was sent.
LEMMA NextSentKept ==
    ASSUME OutboxInv, [Next]_vars PROVE SentKept
<1>1. TypeOK /\ SkipsHold /\ WantsFit /\ ReportsFit
  BY DEF OutboxInv
<1>2. SUFFICES ASSUME NEW i \in ReminderIds, Exists(i), reminders[i].status = "sent",
                      reminders'[i].status # "sent"
               PROVE  \/ \E q \in Requests : request[q].rid = i /\ request[q].seen.status # "sent"
                      \/ \E w \in Workers : worker[w].item = i /\ worker[w].seen.status # "sent"
  BY DEF SentKept
<1>3. reminders' # reminders /\ ~Active(reminders[i])
  BY <1>2 DEF Active
<1>4. ASSUME NEW q \in Requests, StartRequest(q) \/ FlushRequest(q) \/ AbortRequest(q)
      PROVE  FALSE
  <2>1. reminders' = reminders
    BY <1>4 DEF StartRequest, CreateAppointment, UpdateAppointment, ConfirmAppointment,
                CloseAppointment, ManualReminder, Load, FlushRequest, FlushScheduled, FlushClosed,
                QueryManual, WithReminder, Flush, AbortRequest
  <2>2. QED
    BY <1>3, <2>1
<1>5. ASSUME NEW q \in Requests, CommitRequest(q)
      PROVE  request[q].rid = i /\ request[q].seen.status # "sent"
  <2>1. i \notin request[q].skip
    BY <1>1, <1>3 DEF SkipsHold
  <2>2. i = request[q].rid /\ request[q].want # NoRow
    BY <1>2, <1>3, <1>5, <2>1 DEF CommitRequest
  <2>3. request[q].seen # NoRow
    BY <1>1, <1>2, <2>2 DEF WantsFit
  <2>4. QED
    BY <1>1, <2>2, <2>3 DEF WantsFit
<1>6. ASSUME NEW w \in Workers, Claim(w)
      PROVE  FALSE
  <2>1. i \notin Oldest(DueInvalid) /\ i \notin Oldest(Due)
    BY <1>3 DEF Oldest, DueInvalid, Due
  <2>2. reminders'[i] = reminders[i]
    BY <1>6, <2>1 DEF Claim
  <2>3. QED
    BY <1>2, <2>2
<1>7. ASSUME NEW w \in Workers, Send(w) \/ ReadSent(w) \/ ReadFailed(w) \/ Crash(w)
      PROVE  FALSE
  BY <1>3, <1>7 DEF Send, ReadSent, ReadFailed, Crash
<1>8. ASSUME NEW w \in Workers, NEW answered, CommitReport(w, answered)
      PROVE  worker[w].item = i /\ worker[w].seen.status # "sent"
  <2>1. worker[w].item = i /\ i # NoId
    BY <1>1, <1>2, <1>3, <1>8 DEF CommitReport, TypeOK
  <2>2. QED
    BY <1>1, <2>1 DEF ReportsFit
<1>9. CASE Tick \/ UNCHANGED vars
  BY <1>3, <1>9 DEF Tick, vars
<1>10. QED
  BY <1>4, <1>5, <1>6, <1>7, <1>8, <1>9 DEF Next, Read

\* A reminder recorded as sent stays so against everyone who read it as sent: only
\* a request or report whose read is older than the record takes it back.
THEOREM SentStays == Spec => SentUndoneOnlyByStaleRead
<1>1. OutboxInv /\ [Next]_vars => [SentKept]_vars
  BY NextSentKept
<1>2. Spec => [][SentKept]_vars
  BY <1>1, OutboxSafe, PTL DEF Spec
<1>3. QED
  BY <1>2 DEF SentUndoneOnlyByStaleRead, SentKept

-----------------------------------------------------------------------------
(* What a step does to the rows *)

\* The row stays, an automatic one with its start, and waits only if it did.
Kept(i) ==
    /\ Exists(i) <=> reminders'[i] # NoRow
    /\ Exists(i) => /\ reminders'[i].appointment = reminders[i].appointment
                    /\ reminders'[i].type = reminders[i].type
                    /\ reminders[i].type = "upcoming" => reminders'[i].start = reminders[i].start
    /\ Waiting(i)' => Waiting(i)

\* A row that changes in its other columns only, and begins to wait only if it was
\* handed out, is kept.
LEMMA KeptIf ==
    ASSUME NEW i \in ReminderIds, handed \subseteq handed',
           Exists(i) <=> reminders'[i] # NoRow,
           Exists(i) => /\ reminders'[i].appointment = reminders[i].appointment
                        /\ reminders'[i].type = reminders[i].type
                        /\ reminders[i].type = "upcoming" =>
                              reminders'[i].start = reminders[i].start
                        /\ \/ reminders'[i].status # "pending" \/ reminders[i].status = "pending"
                           \/ i \in handed
    PROVE  Kept(i)
BY DEF Kept, Waiting, Exists

\* A merged row keeps what it is for.
LEMMA MergeSnapshot ==
    ASSUME NEW want \in Reminder, NEW seen \in Reminder, NEW current \in Reminder
    PROVE  LET final == MergeReminder(want, seen, current) IN
           /\ final # NoRow /\ final.appointment = current.appointment
           /\ final.type = current.type /\ final.start = current.start
           /\ \/ final.status = want.status /\ want.status # seen.status
              \/ final.status = current.status
<1> DEFINE final == MergeReminder(want, seen, current)
<1>1. final.type = current.type /\ final.start = current.start
  BY DEF MergeReminder, Reminder
<1>2. QED
  BY <1>1, MergeRow

\* A claim changes only columns of progress.
LEMMA ClaimKept ==
    ASSUME OutboxInv, NEW w \in Workers, Claim(w)
    PROVE  /\ \A i \in ReminderIds : Kept(i)
           /\ handed \subseteq handed'
<1> DEFINE invalid == Oldest(DueInvalid)
           batch == Oldest(Due)
<1>1. TypeOK
  BY DEF OutboxInv
<1>2. PICK blocked \in SUBSET batch :
        /\ reminders' = [i \in ReminderIds |->
              IF i \in invalid THEN Skip(reminders[i])
              ELSE IF i \in blocked THEN Unsendable(reminders[i])
              ELSE IF i \in batch THEN Claimed(reminders[i])
              ELSE reminders[i]]
        /\ handed' = handed \cup (batch \ blocked)
  BY DEF Claim
<1>3. invalid \subseteq DueInvalid /\ batch \subseteq Due
  BY DEF Oldest
<1>4. ASSUME NEW i \in invalid \cup batch
      PROVE  i \in ReminderIds /\ Exists(i) /\ reminders[i] \in Reminder
  BY <1>1, <1>3, <1>4 DEF DueInvalid, Due, Active, Exists, TypeOK
<1>5. ASSUME NEW i \in batch
      PROVE  reminders[i].attempts < MaxAttempts
  BY <1>3, <1>5 DEF Due
<1>6. now \in Int
  BY <1>1, TimesAreIntegers DEF TypeOK
<1>7. ASSUME NEW i \in ReminderIds
      PROVE  Kept(i)
  <2>1. CASE i \in invalid
    <3>1. reminders'[i] = Skip(reminders[i])
      BY <1>2, <2>1
    <3>2. QED
      BY <1>2, <1>4, <2>1, <3>1, SkipSnapshot, KeptIf
  <2>2. CASE i \notin invalid /\ i \in batch
    <3>1. reminders[i] \in Reminder /\ Exists(i) /\ reminders[i].attempts < MaxAttempts
      BY <1>4, <1>5, <2>2
    <3>2. /\ Claimed(reminders[i]) # NoRow /\ Claimed(reminders[i]).status = "processing"
          /\ Unsendable(reminders[i]) # NoRow /\ Unsendable(reminders[i]).status = "failed"
      BY <1>6, <3>1, ClaimRow
    <3>3. \A r \in {Claimed(reminders[i]), Unsendable(reminders[i])} :
             /\ r.appointment = reminders[i].appointment /\ r.type = reminders[i].type
             /\ r.start = reminders[i].start
      BY <3>1 DEF Claimed, Unsendable, Reminder
    <3>4. reminders'[i] \in {Claimed(reminders[i]), Unsendable(reminders[i])}
      BY <1>2, <2>2
    <3>5. QED
      BY <1>2, <3>1, <3>2, <3>3, <3>4, KeptIf
  <2>3. CASE i \notin invalid /\ i \notin batch
    <3>1. reminders'[i] = reminders[i]
      BY <1>2, <2>3
    <3>2. QED
      BY <1>2, <3>1, KeptIf DEF Exists
  <2>4. QED
    BY <2>1, <2>2, <2>3
<1>8. QED
  BY <1>2, <1>7

\* A report changes only columns of progress, of a reminder that was handed out.
LEMMA CommitReportKept ==
    ASSUME OutboxInv, WorkHanded, NEW w \in Workers, NEW answered, CommitReport(w, answered)
    PROVE  \A i \in ReminderIds : Kept(i)
<1> DEFINE i == worker[w].item
           seen == worker[w].seen
           final == MergeReminder(Marked(w), seen, reminders[i])
<1>1. TypeOK /\ ReportsFit
  BY DEF OutboxInv
<1>2. i # NoId /\ handed' = handed
  BY DEF CommitReport, Work
<1>3. i \in worker[w].ok \cup worker[w].bad /\ seen # NoRow /\ Exists(i) /\ i \in handed
  BY <1>1, <1>2 DEF ReportsFit, WorkHanded
<1>4. i \in ReminderIds /\ seen \in Reminder /\ reminders[i] \in Reminder
  BY <1>1, <1>3 DEF TypeOK, Worker, Exists
<1>5. Marked(w) \in Reminder
  BY <1>4, Statuses DEF Marked, Reminder
<1>6. /\ final # NoRow /\ final.appointment = reminders[i].appointment
      /\ final.type = reminders[i].type /\ final.start = reminders[i].start
  BY <1>4, <1>5, MergeSnapshot
<1>7. reminders' = reminders \/ reminders' = [reminders EXCEPT ![i] = final]
  BY DEF CommitReport
<1>8. ASSUME NEW j \in ReminderIds
      PROVE  Kept(j)
  <2>1. CASE reminders'[j] = reminders[j]
    BY <1>2, <2>1, KeptIf DEF Exists
  <2>2. CASE j = i /\ reminders'[j] = final
    BY <1>2, <1>3, <1>6, <2>2, KeptIf
  <2>3. reminders'[j] = reminders[j] \/ (j = i /\ reminders'[j] = final)
    BY <1>1, <1>7 DEF TypeOK
  <2>4. QED
    BY <2>1, <2>2, <2>3
<1>9. QED
  BY <1>8

\* Where nothing is written, everything is kept.
LEMMA UnchangedKept ==
    ASSUME reminders' = reminders, handed' = handed
    PROVE  \A i \in ReminderIds : Kept(i)
BY KeptIf DEF Exists

-----------------------------------------------------------------------------
(* Work that was handed out *)

\* An execution turns to other records of the same items.
LEMMA WorkStaysHanded ==
    ASSUME TypeOK, WorkHanded, NEW w \in Workers, NEW x, Work(w, x),
           x.todo \cup x.ok \cup x.bad \subseteq worker[w].todo \cup worker[w].ok \cup worker[w].bad
    PROVE  WorkHanded'
<1> DEFINE y == IF x.todo \cup x.ok \cup x.bad = {} THEN NoWork ELSE x
<1>1. worker' = [worker EXCEPT ![w] = y] /\ handed' = handed
  BY DEF Work
<1>2. y.todo \cup y.ok \cup y.bad \subseteq handed
  BY DEF WorkHanded, NoWork
<1>3. \A v \in Workers : worker'[v] = IF v = w THEN y ELSE worker[v]
  BY <1>1 DEF TypeOK
<1> HIDE DEF y
<1>4. QED
  BY <1>1, <1>2, <1>3 DEF WorkHanded

\* Every step of an execution works on what was handed out.
LEMMA WorkHandedKept ==
    ASSUME OutboxInv, WorkHanded, NEW w \in Workers,
           \/ Claim(w) \/ Send(w) \/ Read(w) \/ Crash(w)
           \/ \E answered \in BOOLEAN : CommitReport(w, answered)
    PROVE  WorkHanded'
<1>1. TypeOK /\ worker[w] \in Worker
  BY DEF OutboxInv, TypeOK
<1>2. ASSUME NEW i
      PROVE  \A x \in {Dropped(w, i), Unread(w), Reading(w, i), [Dropped(w, i) EXCEPT !.bad = {}], NoWork} :
               x.todo \cup x.ok \cup x.bad \subseteq worker[w].todo \cup worker[w].ok \cup worker[w].bad
  <2> DEFINE items(x) == x.todo \cup x.ok \cup x.bad
  <2>1. items(Dropped(w, i)) \subseteq items(worker[w])
    BY <1>1 DEF Dropped, Worker
  <2>2. items([Dropped(w, i) EXCEPT !.bad = {}]) \subseteq items(worker[w])
    BY <1>1 DEF Dropped, Worker
  <2>3. items(Unread(w)) = items(worker[w])
    BY <1>1 DEF Unread, Worker
  <2>4. items(Reading(w, i)) = items(worker[w])
    BY <1>1 DEF Reading, Worker
  <2>5. items(NoWork) = {}
    BY DEF NoWork
  <2>6. QED
    BY <2>1, <2>2, <2>3, <2>4, <2>5
<1>3. ASSUME NEW i, NEW x \in {Dropped(w, i), Unread(w), Reading(w, i),
                                [Dropped(w, i) EXCEPT !.bad = {}], NoWork},
             Work(w, x)
      PROVE  WorkHanded'
  BY <1>1, <1>2, <1>3, WorkStaysHanded
<1>4. CASE ReadSent(w)
  <2>1. PICK i \in worker[w].ok :
          \/ Work(w, Dropped(w, i)) \/ Work(w, Reading(w, i))
          \/ Work(w, [Dropped(w, i) EXCEPT !.bad = {}])
    BY <1>4 DEF ReadSent
  <2>2. QED
    BY <1>3, <2>1
<1>5. CASE ReadFailed(w)
  <2>1. PICK i \in worker[w].bad : Work(w, Dropped(w, i)) \/ Work(w, Reading(w, i))
    BY <1>5 DEF ReadFailed
  <2>2. QED
    BY <1>3, <2>1
<1>6. CASE Crash(w)
  BY <1>3, <1>6 DEF Crash
<1>7. ASSUME NEW answered, CommitReport(w, answered)
      PROVE  WorkHanded'
  <2>1. \/ Work(w, NoWork) \/ Work(w, Dropped(w, worker[w].item)) \/ Work(w, Unread(w))
    BY <1>7 DEF CommitReport
  <2>2. QED
    BY <1>3, <2>1
<1>8. CASE Claim(w)
  <2>1. PICK new : /\ handed' = handed \cup new
                   /\ worker' = worker \/ worker' = [worker EXCEPT ![w].pc = "send", ![w].todo = new]
    BY <1>8 DEF Claim
  <2>2. ASSUME NEW v \in Workers
        PROVE  /\ worker'[v].ok = worker[v].ok /\ worker'[v].bad = worker[v].bad
               /\ worker'[v].todo = worker[v].todo \/ worker'[v].todo = new
    BY <1>1, <2>1 DEF TypeOK, Worker
  <2>3. QED
    BY <2>1, <2>2 DEF WorkHanded
<1>9. CASE Send(w)
  <2>1. PICK i \in worker[w].todo, outcome \in Outcomes :
          /\ worker' = [worker EXCEPT ![w] =
                [Route(w, i, outcome) EXCEPT !.pc = IF worker[w].todo = {i} THEN "report" ELSE "send"]]
          /\ handed' = handed
    BY <1>9 DEF Send
  <2> DEFINE x == [Route(w, i, outcome) EXCEPT !.pc = IF worker[w].todo = {i} THEN "report" ELSE "send"]
  <2>2. x.todo \cup x.ok \cup x.bad \subseteq worker[w].todo \cup worker[w].ok \cup worker[w].bad
    BY <1>1 DEF Route, Worker
  <2>3. \A v \in Workers : worker'[v] = IF v = w THEN x ELSE worker[v]
    BY <1>1, <2>1 DEF TypeOK
  <2> HIDE DEF x
  <2>4. QED
    BY <2>1, <2>2, <2>3 DEF WorkHanded
<1>10. QED
  BY <1>4, <1>5, <1>6, <1>7, <1>8, <1>9 DEF Read

-----------------------------------------------------------------------------
(* The reminder of every start *)

\* The starts of committed rows, of what requests have loaded and of what they are
\* about to write have their reminders; without the executions.
StartsCovered == StartsHaveReminders /\ ReadsCovered /\ RowsCovered /\ FreshWantsAlone

\* Kept rows are found under the same appointment and start.
LEMMA SnapshotKept ==
    ASSUME \A i \in ReminderIds : Kept(i), NEW id, NEW start
    PROVE  Snapshot(id, start) = {i \in ReminderIds :
              /\ reminders'[i] # NoRow /\ reminders'[i].type = "upcoming"
              /\ reminders'[i].appointment = id /\ reminders'[i].start = start}
<1> DEFINE found == {i \in ReminderIds :
              /\ reminders'[i] # NoRow /\ reminders'[i].type = "upcoming"
              /\ reminders'[i].appointment = id /\ reminders'[i].start = start}
<1>1. \A i \in ReminderIds : i \in Snapshot(id, start) <=> i \in found
  BY DEF Kept, Snapshot, Exists
<1>2. Snapshot(id, start) \subseteq ReminderIds /\ found \subseteq ReminderIds
  BY DEF Snapshot
<1>3. QED
  BY <1>1, <1>2

\* Where rows are kept and no request moves, nothing is uncovered: time only makes
\* fewer appointments schedulable.
LEMMA KeptCovers ==
    ASSUME TypeOK, StartsCovered, request' = request, appointments' = appointments,
           mixed' = mixed, now' \in Nat, now' >= now, \A i \in ReminderIds : Kept(i)
    PROVE  StartsCovered'
<1>1. \A id, start : Snapshot(id, start)' = Snapshot(id, start)
  BY SnapshotKept DEF Snapshot, Exists
<1>2. ASSUME NEW row \in Appointment \cup {NoRow}, Schedulable(row)'
      PROVE  Schedulable(row)
  <2>1. row \in Appointment /\ row.start > now'
    BY <1>2 DEF Schedulable
  <2>2. row.start \in Int /\ now \in Int
    BY <2>1, TimesAreIntegers DEF Appointment, TypeOK
  <2>3. row.start > now
    BY <2>1, <2>2
  <2>4. QED
    BY <1>2, <2>3 DEF Schedulable
<1>3. StartsHaveReminders'
  <2>1. SUFFICES ASSUME NEW id \in Appointments \ mixed, Schedulable(appointments[id])'
                 PROVE  (Snapshot(id, appointments[id].start) # {})'
    BY DEF StartsHaveReminders
  <2>2. Schedulable(appointments[id])
    BY <1>2, <2>1 DEF Schedulable, TypeOK
  <2>3. Snapshot(id, appointments[id].start) # {}
    BY <2>1, <2>2 DEF StartsCovered, StartsHaveReminders
  <2>4. QED
    BY <1>1, <2>3 DEF Snapshot, Exists
<1>4. ReadsCovered'
  <2>1. SUFFICES ASSUME NEW q \in Requests, request[q].id \notin mixed, request[q].read # NoRow,
                        Schedulable(request[q].read)'
                 PROVE  (Snapshot(request[q].id, request[q].read.start) # {})'
    BY DEF ReadsCovered
  <2>2. Schedulable(request[q].read)
    BY <1>2, <2>1 DEF Schedulable, TypeOK, Request
  <2>3. Snapshot(request[q].id, request[q].read.start) # {}
    BY <2>1, <2>2 DEF StartsCovered, ReadsCovered
  <2>4. QED
    BY <1>1, <2>3 DEF Snapshot, Exists
<1>5. RowsCovered'
  <2>1. SUFFICES ASSUME NEW q \in Requests, request[q].id \notin mixed, Holds(q, request[q].id),
                        Schedulable(request[q].row)'
                 PROVE  (Snapshot(request[q].id, request[q].row.start) # {} \/ FreshWant(q))'
    BY DEF RowsCovered, Holds, Changes
  <2>2. Schedulable(request[q].row)
    BY <1>2, <2>1 DEF Schedulable, TypeOK, Request
  <2>3. Snapshot(request[q].id, request[q].row.start) # {} \/ FreshWant(q)
    BY <2>1, <2>2 DEF StartsCovered, RowsCovered
  <2>4. QED
    BY <1>1, <2>3 DEF Snapshot, Exists, FreshWant
<1>6. FreshWantsAlone'
  BY <1>1 DEF StartsCovered, FreshWantsAlone, FreshWant, Snapshot, Exists, Holds, Changes
<1>7. QED
  BY <1>3, <1>4, <1>5, <1>6 DEF StartsCovered

\* What is covered of one request.
CoveredFor(q) ==
    /\ request[q].id \notin mixed /\ request[q].read # NoRow /\ Schedulable(request[q].read)
          => Snapshot(request[q].id, request[q].read.start) # {}
    /\ request[q].id \notin mixed /\ Holds(q, request[q].id) /\ Schedulable(request[q].row)
          => Snapshot(request[q].id, request[q].row.start) # {} \/ FreshWant(q)
    /\ FreshWant(q) =>
          /\ request[q].want.appointment = request[q].id
          /\ request[q].want.start = request[q].row.start
          /\ request[q].id \notin mixed =>
                /\ Holds(q, request[q].id)
                /\ Snapshot(request[q].id, request[q].row.start) = {}

\* The three facts about requests, taken request by request.
LEMMA CoveredForAll ==
    (\A q \in Requests : CoveredFor(q)) <=> ReadsCovered /\ RowsCovered /\ FreshWantsAlone
BY DEF CoveredFor, ReadsCovered, RowsCovered, FreshWantsAlone

\* A request on its own changes nothing for the others, as long as no row does.
LEMMA OneCovers ==
    ASSUME StartsCovered, NEW q \in Requests, \A u \in Requests \ {q} : request'[u] = request[u],
           now' = now, appointments' = appointments, reminders' = reminders, mixed' = mixed,
           CoveredFor(q)'
    PROVE  StartsCovered'
<1>1. StartsHaveReminders'
  BY DEF StartsCovered, StartsHaveReminders, Schedulable, Snapshot, Exists
<1>2. ASSUME NEW u \in Requests \ {q}
      PROVE  CoveredFor(u)'
  <2>1. CoveredFor(u)
    BY CoveredForAll DEF StartsCovered
  <2>2. QED
    BY <2>1 DEF CoveredFor, Schedulable, Snapshot, Exists, FreshWant, Holds, Changes
<1>3. (\A u \in Requests : CoveredFor(u))'
  BY <1>2
<1>4. (ReadsCovered /\ RowsCovered /\ FreshWantsAlone)'
  BY <1>3 DEF CoveredFor, ReadsCovered, RowsCovered, FreshWantsAlone
<1>5. QED
  BY <1>1, <1>4 DEF StartsCovered

\* What a request loads was a committed row: its start has its reminder.
LEMMA StartCovers ==
    ASSUME OutboxInv, StartsCovered, NEW q \in Requests, StartRequest(q)
    PROVE  StartsCovered'
<1>1. PICK op \in AllOps, id \in Appointments, row \in Appointment : Load(q, op, id, row)
  BY StartLoads
<1> DEFINE new == Loaded(op, id, row)
<1>2. /\ request' = [request EXCEPT ![q] = new] /\ now' = now
      /\ appointments' = appointments /\ reminders' = reminders /\ mixed' = mixed
  BY <1>1 DEF Load, Loaded
<1>3. TypeOK
  BY DEF OutboxInv
<1>4. /\ new.step = "loaded" /\ new.id = id /\ new.read = appointments[id] /\ new.want = NoRow
  BY <1>3, LoadedRecord
<1> HIDE DEF new
<1>5. request'[q] = new /\ \A u \in Requests \ {q} : request'[u] = request[u]
  BY <1>2, <1>3 DEF TypeOK
<1>6. id \notin mixed /\ Schedulable(appointments[id]) => Snapshot(id, appointments[id].start) # {}
  BY DEF StartsCovered, StartsHaveReminders
<1>7. CoveredFor(q)'
  BY <1>2, <1>4, <1>5, <1>6 DEF CoveredFor, Holds, FreshWant, Schedulable, Snapshot, Exists
<1>8. QED
  BY <1>2, <1>5, <1>7, OneCovers

\* A request that decides brings the reminder of a start that has none: one that
\* changes nothing finds it, since what it loaded had it.
LEMMA FlushCovers ==
    ASSUME OutboxInv, StartsCovered, NEW q \in Requests, FlushRequest(q)
    PROVE  StartsCovered'
<1>1. TypeOK /\ request[q].step = "loaded"
  BY FlushDecides DEF OutboxInv
<1>2. PICK skip, rid, seen, want : Decides(q, skip, rid, seen, want) /\ Flush(q, skip, rid, seen, want)
  BY FlushDecides
<1>3. /\ request'[q].step = "flushed" /\ request'[q].seen = seen /\ request'[q].want = want
      /\ request'[q].id = request[q].id
      /\ request'[q].read = request[q].read /\ request'[q].row = request[q].row
      /\ \A u \in Requests \ {q} : request'[u] = request[u]
      /\ now' = now /\ appointments' = appointments /\ reminders' = reminders /\ mixed' = mixed
  BY <1>1, <1>2, FlushStep
<1> DEFINE id == request[q].id
           row == request[q].row
           fresh == want # NoRow /\ seen = NoRow /\ want.type = "upcoming"
<1>4. Holds(q, id)' <=> Changes(q)
  BY <1>3 DEF Holds, Changes
<1>5. /\ id \notin mixed /\ request[q].read # NoRow /\ Schedulable(request[q].read)
            => Snapshot(id, request[q].read.start) # {}
      /\ row # NoRow
  BY <1>1 DEF StartsCovered, ReadsCovered, OutboxInv, SessionsFit, SessionFits
<1>6. Schedulable(row) /\ Changes(q) => Snapshot(id, row.start) # {} \/ fresh
  BY <1>2 DEF Decides
<1>7. fresh => /\ want.appointment = id /\ want.start = row.start
               /\ Schedulable(row) /\ Snapshot(id, row.start) = {}
  BY <1>2 DEF Decides
<1>8. fresh /\ id \notin mixed => Changes(q)
  BY <1>5, <1>7 DEF Changes
<1>9. /\ FreshWant(q)' <=> fresh
      /\ \A r : Schedulable(r)' <=> Schedulable(r)
      /\ \A j, start : Snapshot(j, start)' = Snapshot(j, start)
  BY <1>3 DEF FreshWant, Schedulable, Snapshot, Exists
<1> HIDE DEF fresh
<1>10. CoveredFor(q)'
  BY <1>3, <1>4, <1>5, <1>6, <1>7, <1>8, <1>9 DEF CoveredFor, Snapshot, Exists, fresh
<1>11. QED
  BY <1>3, <1>10, OneCovers

\* The row a commit leaves: its changes on the row it finds, or what it was.
RowWritten(q) ==
    LET rq == request[q]
        changed == MergeAppointment(rq.row, rq.read, appointments[rq.id]) IN
    IF Changes(q)
    THEN /\ appointments' = [appointments EXCEPT ![rq.id] = changed]
         /\ mixed' = IF changed # rq.row THEN mixed \cup {rq.id} ELSE mixed
    ELSE appointments' = appointments /\ mixed' = mixed

\* What a commit does to the rows: those it does not name are kept, a skipped one
\* waits no longer, the row it changes is kept but for its status, and a row it
\* inserts is the one it wants; a refused one changes nothing.
LEMMA CommitRows ==
    ASSUME OutboxInv, NEW q \in Requests, CommitRequest(q)
    PROVE  \/ appointments' = appointments /\ reminders' = reminders /\ mixed' = mixed
           \/ /\ RowWritten(q)
              /\ \A i \in ReminderIds :
                    /\ i # request[q].rid => Kept(i) /\ (i \in request[q].skip => ~Waiting(i)')
                    /\ Exists(i) =>
                          /\ reminders'[i] # NoRow
                          /\ reminders'[i].appointment = reminders[i].appointment
                          /\ reminders'[i].type = reminders[i].type
                          /\ reminders'[i].start = reminders[i].start
              /\ request[q].want # NoRow =>
                    /\ request[q].rid \in ReminderIds
                    /\ request[q].seen = NoRow => /\ reminders'[request[q].rid] = request[q].want
                                                  /\ ~Exists(request[q].rid)
                    /\ request[q].seen # NoRow => Exists(request[q].rid)
              /\ request[q].want = NoRow => request[q].rid \notin ReminderIds
<1> DEFINE rq == request[q]
           skipped == [i \in ReminderIds |-> IF i \in rq.skip THEN Skip(reminders[i])
                                                             ELSE reminders[i]]
           final == IF rq.seen = NoRow THEN rq.want
                    ELSE MergeReminder(rq.want, rq.seen, skipped[rq.rid])
<1>1. TypeOK /\ SkipsHold /\ WantsFit
  BY DEF OutboxInv
<1>2. handed' = handed
  BY DEF CommitRequest
<1>3. \/ appointments' = appointments /\ reminders' = reminders /\ mixed' = mixed
      \/ /\ RowWritten(q)
         /\ reminders' = IF rq.want = NoRow THEN skipped
                         ELSE [skipped EXCEPT ![rq.rid] = final]
  BY DEF CommitRequest, RowWritten
<1>4. SUFFICES ASSUME reminders' = IF rq.want = NoRow THEN skipped
                                   ELSE [skipped EXCEPT ![rq.rid] = final]
               PROVE  /\ \A i \in ReminderIds :
                           /\ i # rq.rid => Kept(i) /\ (i \in rq.skip => ~Waiting(i)')
                           /\ Exists(i) =>
                                 /\ reminders'[i] # NoRow
                                 /\ reminders'[i].appointment = reminders[i].appointment
                                 /\ reminders'[i].type = reminders[i].type
                                 /\ reminders'[i].start = reminders[i].start
                      /\ rq.want # NoRow =>
                            /\ rq.rid \in ReminderIds
                            /\ rq.seen = NoRow => reminders'[rq.rid] = rq.want /\ ~Exists(rq.rid)
                            /\ rq.seen # NoRow => Exists(rq.rid)
                      /\ rq.want = NoRow => rq.rid \notin ReminderIds
  BY <1>3
<1>5. /\ rq.want \in Reminder \cup {NoRow} /\ rq.seen \in Reminder \cup {NoRow}
      /\ rq.skip \subseteq ReminderIds
  BY <1>1 DEF TypeOK, Request
<1>6. ASSUME NEW i \in ReminderIds, Exists(i)
      PROVE  /\ skipped[i] \in Reminder /\ skipped[i] # NoRow
             /\ skipped[i].appointment = reminders[i].appointment
             /\ skipped[i].type = reminders[i].type /\ skipped[i].start = reminders[i].start
             /\ skipped[i].status = reminders[i].status \/ skipped[i].status = "skipped"
             /\ i \in rq.skip => skipped[i].status = "skipped"
  <2>1. reminders[i] \in Reminder
    BY <1>1, <1>6 DEF TypeOK, Exists
  <2>2. CASE i \in rq.skip
    <3>1. skipped[i] = Skip(reminders[i])
      BY <2>2
    <3>2. QED
      BY <2>1, <3>1, SkipRow, SkipSnapshot
  <2>3. CASE i \notin rq.skip
    <3>1. skipped[i] = reminders[i]
      BY <2>3
    <3>2. QED
      BY <1>6, <2>1, <2>3, <3>1 DEF Exists
  <2>4. QED
    BY <2>2, <2>3
<1>7. ASSUME NEW i \in ReminderIds, ~Exists(i)
      PROVE  skipped[i] = NoRow /\ i \notin rq.skip
  <2>1. i \notin rq.skip
    BY <1>1, <1>7 DEF SkipsHold, Active, Exists
  <2>2. QED
    BY <1>7, <2>1 DEF Exists
<1>8. /\ rq.want # NoRow =>
            /\ rq.rid \in ReminderIds
            /\ rq.seen = NoRow => ~Exists(rq.rid)
            /\ rq.seen # NoRow => Exists(rq.rid)
      /\ rq.want = NoRow => rq.rid \notin ReminderIds
  BY <1>1, KeyAssumption DEF WantsFit
<1>9. ASSUME rq.want # NoRow, rq.seen # NoRow
      PROVE  /\ final # NoRow /\ final.appointment = reminders[rq.rid].appointment
             /\ final.type = reminders[rq.rid].type /\ final.start = reminders[rq.rid].start
  <2>1. rq.rid \in ReminderIds /\ Exists(rq.rid)
    BY <1>8, <1>9
  <2>2. final = MergeReminder(rq.want, rq.seen, skipped[rq.rid])
    BY <1>9
  <2>3. QED
    BY <1>5, <1>6, <1>9, <2>1, <2>2, MergeSnapshot
<1>10. ASSUME NEW i \in ReminderIds
       PROVE  /\ i # rq.rid => reminders'[i] = skipped[i]
              /\ i = rq.rid => reminders'[i] = final /\ rq.want # NoRow
  BY <1>4, <1>8
<1>11. rq.want # NoRow /\ rq.seen = NoRow => final = rq.want
  OBVIOUS
<1> HIDE DEF skipped, final
<1>12. ASSUME NEW i \in ReminderIds, i # rq.rid
       PROVE  Kept(i) /\ (i \in rq.skip => ~Waiting(i)')
  <2>1. reminders'[i] = skipped[i]
    BY <1>10, <1>12
  <2>2. Kept(i)
    BY <1>2, <1>6, <1>7, <2>1, KeptIf DEF Exists
  <2>3. i \in rq.skip => ~Waiting(i)'
    BY <1>6, <1>7, <2>1 DEF Waiting
  <2>4. QED
    BY <2>2, <2>3
<1>13. ASSUME NEW i \in ReminderIds, Exists(i)
       PROVE  /\ reminders'[i] # NoRow
              /\ reminders'[i].appointment = reminders[i].appointment
              /\ reminders'[i].type = reminders[i].type
              /\ reminders'[i].start = reminders[i].start
  <2>1. CASE i # rq.rid
    BY <1>6, <1>10, <1>13, <2>1
  <2>2. CASE i = rq.rid
    BY <1>8, <1>9, <1>10, <1>13, <2>2
  <2>3. QED
    BY <2>1, <2>2
<1>14. QED
  BY <1>8, <1>10, <1>11, <1>12, <1>13

\* The request that ends leaves an empty record.
LEMMA EndEmpties ==
    ASSUME TypeOK, NEW q \in Requests, End(q)
    PROVE  request'[q] = NoRequest /\ \A u \in Requests \ {q} : request'[u] = request[u]
BY DEF End, TypeOK

\* A commit covers the start it writes, and takes the start of no other request.
LEMMA CommitCovers ==
    ASSUME OutboxInv, StartsCovered, NEW q \in Requests, CommitRequest(q)
    PROVE  StartsCovered'
<1> DEFINE rq == request[q]
<1>1. TypeOK /\ RequestsApart /\ now' = now /\ End(q) /\ rq.step = "flushed"
  BY DEF OutboxInv, CommitRequest
<1>2. request'[q] = NoRequest /\ \A u \in Requests \ {q} : request'[u] = request[u]
  BY <1>1, EndEmpties
<1>3. ASSUME NEW row, Schedulable(row)'
      PROVE  Schedulable(row)
  BY <1>1, <1>3 DEF Schedulable
<1>4. ASSUME NEW j, NEW start, NEW i \in Snapshot(j, start)
      PROVE  i \in Snapshot(j, start)'
  BY <1>4, CommitRows DEF Snapshot, Exists
<1>5. mixed \subseteq mixed'
  BY CommitRows DEF RowWritten
<1>6. ASSUME NEW i \in ReminderIds, reminders'[i] # NoRow, reminders'[i].type = "upcoming"
      PROVE  \/ i \in Snapshot(reminders'[i].appointment, reminders'[i].start)
             \/ /\ FreshWant(q) /\ reminders'[i].appointment = rq.id
                /\ rq.id \in mixed \/ Holds(q, rq.id)
  <2>1. CASE Exists(i)
    BY <1>6, <2>1, CommitRows DEF Snapshot, Exists
  <2>2. CASE ~Exists(i)
    <3>1. i = rq.rid /\ rq.want # NoRow /\ rq.seen = NoRow /\ reminders'[i] = rq.want
      BY <1>6, <2>2, CommitRows DEF Kept, Exists
    <3>2. FreshWant(q)
      BY <1>6, <3>1 DEF FreshWant
    <3>3. QED
      BY <3>1, <3>2 DEF StartsCovered, FreshWantsAlone
  <2>3. QED
    BY <2>1, <2>2
<1>7. StartsHaveReminders'
  <2>1. SUFFICES ASSUME NEW j \in Appointments \ mixed', Schedulable(appointments[j])'
                 PROVE  \E i \in ReminderIds :
                           /\ reminders'[i] # NoRow /\ reminders'[i].type = "upcoming"
                           /\ reminders'[i].appointment = j
                           /\ reminders'[i].start = appointments'[j].start
    BY DEF StartsHaveReminders, Snapshot, Exists
  <2>2. CASE appointments'[j] = appointments[j]
    <3>1. Schedulable(appointments[j]) /\ j \notin mixed
      BY <1>3, <1>5, <2>1, <2>2 DEF Schedulable
    <3>2. PICK i : i \in Snapshot(j, appointments[j].start)
      BY <3>1 DEF StartsCovered, StartsHaveReminders
    <3>3. QED
      BY <1>4, <2>2, <3>2 DEF Snapshot, Exists
  <2>3. CASE appointments'[j] # appointments[j]
    <3>1. /\ RowWritten(q)
          /\ rq.want # NoRow /\ rq.seen = NoRow =>
                rq.rid \in ReminderIds /\ reminders'[rq.rid] = rq.want
      BY <2>3, CommitRows
    <3>2. Changes(q) /\ j = rq.id /\ appointments'[j] = rq.row
      BY <1>1, <2>1, <2>3, <3>1 DEF RowWritten, TypeOK
    <3>3. Schedulable(rq.row) /\ Holds(q, rq.id) /\ rq.id \notin mixed
      BY <1>1, <1>5, <2>1, <3>2 DEF Schedulable, Holds
    <3>4. CASE Snapshot(rq.id, rq.row.start) # {}
      <4>1. PICK i : i \in Snapshot(rq.id, rq.row.start)
        BY <3>4
      <4>2. QED
        BY <1>4, <3>2, <4>1 DEF Snapshot, Exists
    <3>5. CASE FreshWant(q)
      <4>1. /\ rq.want # NoRow /\ rq.seen = NoRow /\ rq.want.type = "upcoming"
            /\ rq.want.appointment = rq.id /\ rq.want.start = rq.row.start
        BY <3>5 DEF StartsCovered, FreshWantsAlone, FreshWant
      <4>2. QED
        BY <3>1, <3>2, <4>1
    <3>6. QED
      BY <3>3, <3>4, <3>5 DEF StartsCovered, RowsCovered
  <2>4. QED
    BY <2>2, <2>3
<1>8. ReadsCovered'
  <2>1. SUFFICES ASSUME NEW u \in Requests, request'[u].id \notin mixed', request'[u].read # NoRow,
                        Schedulable(request[u].read)'
                 PROVE  (Snapshot(request[u].id, request[u].read.start) # {})'
    BY DEF ReadsCovered
  <2>2. u # q /\ request'[u] = request[u]
    BY <1>2, <2>1 DEF NoRequest
  <2>3. Schedulable(request[u].read)
    BY <1>3, <2>1, <2>2 DEF Schedulable
  <2>4. PICK i : i \in Snapshot(request[u].id, request[u].read.start)
    BY <1>5, <2>1, <2>2, <2>3 DEF StartsCovered, ReadsCovered
  <2>5. QED
    BY <1>4, <2>2, <2>4 DEF Snapshot, Exists
<1>9. RowsCovered'
  <2>1. SUFFICES ASSUME NEW u \in Requests, request'[u].id \notin mixed', Holds(u, request[u].id)',
                        Schedulable(request[u].row)'
                 PROVE  (Snapshot(request[u].id, request[u].row.start) # {} \/ FreshWant(u))'
    BY DEF RowsCovered
  <2>2. u # q /\ request'[u] = request[u]
    BY <1>2, <2>1, NothingOpen DEF Holds
  <2>3. Schedulable(request[u].row) /\ Holds(u, request[u].id)
    BY <1>3, <2>1, <2>2 DEF Schedulable, Holds, Changes
  <2>4. Snapshot(request[u].id, request[u].row.start) # {} \/ FreshWant(u)
    BY <1>5, <2>1, <2>2, <2>3 DEF StartsCovered, RowsCovered
  <2>5. FreshWant(u) => FreshWant(u)'
    BY <2>2 DEF FreshWant
  <2>6. ASSUME NEW i \in Snapshot(request[u].id, request[u].row.start)
        PROVE  (Snapshot(request[u].id, request[u].row.start) # {})'
    BY <1>4, <2>2, <2>6 DEF Snapshot, Exists
  <2>7. QED
    BY <2>4, <2>5, <2>6
<1>10. FreshWantsAlone'
  <2>1. SUFFICES ASSUME NEW u \in Requests, FreshWant(u)'
                 PROVE  /\ request'[u].want.appointment = request'[u].id
                        /\ request'[u].want.start = request'[u].row.start
                        /\ request'[u].id \notin mixed' =>
                              /\ Holds(u, request[u].id)'
                              /\ ~\E i \in ReminderIds :
                                    /\ reminders'[i] # NoRow /\ reminders'[i].type = "upcoming"
                                    /\ reminders'[i].appointment = request'[u].id
                                    /\ reminders'[i].start = request'[u].row.start
    BY DEF FreshWantsAlone, Snapshot, Exists
  <2>2. u # q /\ request'[u] = request[u]
    BY <1>2, <2>1, NothingOpen DEF FreshWant
  <2>3. /\ request[u].want.appointment = request[u].id
        /\ request[u].want.start = request[u].row.start
        /\ request[u].id \notin mixed' =>
              /\ request[u].id \notin mixed /\ Holds(u, request[u].id)
              /\ Snapshot(request[u].id, request[u].row.start) = {}
    BY <1>5, <2>1, <2>2 DEF StartsCovered, FreshWantsAlone, FreshWant
  <2>4. ASSUME request[u].id \notin mixed',
               NEW i \in ReminderIds, reminders'[i] # NoRow, reminders'[i].type = "upcoming",
               reminders'[i].appointment = request[u].id,
               reminders'[i].start = request[u].row.start
        PROVE  FALSE
    <3>1. rq.id \in mixed \/ Holds(q, rq.id) => request[u].id # rq.id
      BY <1>1, <2>2, <2>3, <2>4 DEF RequestsApart
    <3>2. QED
      BY <1>6, <2>3, <2>4, <3>1
  <2>5. Holds(u, request[u].id) => Holds(u, request[u].id)'
    BY <2>2 DEF Holds, Changes
  <2>6. QED
    BY <2>2, <2>3, <2>4, <2>5
<1>11. QED
  BY <1>7, <1>8, <1>9, <1>10 DEF StartsCovered

\* A request that ends without a commit uncovers nothing.
LEMMA AbortCovers ==
    ASSUME OutboxInv, StartsCovered, NEW q \in Requests, AbortRequest(q)
    PROVE  StartsCovered'
<1>1. /\ TypeOK /\ End(q) /\ now' = now /\ appointments' = appointments
      /\ reminders' = reminders /\ mixed' = mixed
  BY DEF OutboxInv, AbortRequest, history
<1>2. request'[q] = NoRequest /\ \A u \in Requests \ {q} : request'[u] = request[u]
  BY <1>1, EndEmpties
<1>3. CoveredFor(q)'
  BY <1>2 DEF CoveredFor, NoRequest, Holds, FreshWant
<1>4. QED
  BY <1>1, <1>2, <1>3, OneCovers

\* What a step of a request leaves alone.
LEMMA RequestLeaves ==
    ASSUME OutboxInv, NEW q \in Requests,
           StartRequest(q) \/ FlushRequest(q) \/ CommitRequest(q) \/ AbortRequest(q)
    PROVE  worker' = worker /\ handed' = handed /\ delivered' = delivered
BY DEF StartRequest, CreateAppointment, UpdateAppointment, ConfirmAppointment, CloseAppointment,
       ManualReminder, Load, FlushRequest, FlushScheduled, FlushClosed, QueryManual, WithReminder,
       Flush, CommitRequest, AbortRequest

\* What a step of an execution leaves alone.
LEMMA WorkerLeaves ==
    ASSUME NEW w \in Workers,
           \/ Claim(w) \/ Send(w) \/ Read(w) \/ Crash(w)
           \/ \E answered \in BOOLEAN : CommitReport(w, answered)
    PROVE  /\ request' = request /\ appointments' = appointments /\ now' = now
           /\ mixed' = mixed /\ overlap' = overlap
           /\ Send(w) \/ Read(w) \/ Crash(w) => reminders' = reminders /\ handed' = handed
BY DEF Claim, Send, Read, ReadSent, ReadFailed, Crash, CommitReport, Work, history

\* Every step keeps starts covered.
LEMMA NextSchedule ==
    ASSUME ScheduleInv, [Next]_vars PROVE ScheduleInv'
<1>1. OutboxInv /\ WorkHanded /\ StartsCovered /\ TypeOK
  BY DEF ScheduleInv, StartsCovered, OutboxInv
<1>2. OutboxInv'
  BY <1>1, NextOutbox
<1>3. now \in Nat /\ now >= now
  BY <1>1, TimeAssumption DEF TypeOK
<1>4. ASSUME NEW q \in Requests,
             StartRequest(q) \/ FlushRequest(q) \/ CommitRequest(q) \/ AbortRequest(q)
      PROVE  WorkHanded' /\ StartsCovered'
  <2>1. WorkHanded'
    BY <1>1, <1>4, RequestLeaves DEF WorkHanded
  <2>2. StartsCovered'
    BY <1>1, <1>4, StartCovers, FlushCovers, CommitCovers, AbortCovers
  <2>3. QED
    BY <2>1, <2>2
<1>5. ASSUME NEW w \in Workers,
             \/ Claim(w) \/ Send(w) \/ Read(w) \/ Crash(w)
             \/ \E answered \in BOOLEAN : CommitReport(w, answered)
      PROVE  WorkHanded' /\ StartsCovered'
  <2>1. \A i \in ReminderIds : Kept(i)
    BY <1>1, <1>5, WorkerLeaves, UnchangedKept, ClaimKept, CommitReportKept
  <2>2. QED
    BY <1>1, <1>3, <1>5, <2>1, WorkerLeaves, WorkHandedKept, KeptCovers
<1>6. CASE Tick \/ UNCHANGED vars
  <2>1. /\ request' = request /\ appointments' = appointments /\ reminders' = reminders
        /\ worker' = worker /\ handed' = handed /\ mixed' = mixed /\ now' \in Nat /\ now' >= now
    BY <1>3, <1>6 DEF Tick, vars, history
  <2>2. WorkHanded'
    BY <1>1, <2>1 DEF WorkHanded
  <2>3. QED
    BY <1>1, <1>2, <2>1, <2>2, UnchangedKept, KeptCovers DEF ScheduleInv, StartsCovered
<1>7. QED
  BY <1>2, <1>4, <1>5, <1>6 DEF Next, ScheduleInv, StartsCovered

\* It holds of the empty tables.
LEMMA InitSchedule ==
    ASSUME Init PROVE ScheduleInv
<1>1. NoWork.todo = {} /\ NoWork.ok = {} /\ NoWork.bad = {} /\ NoRequest.read = NoRow
  BY DEF NoWork, NoRequest
<1>2. WorkHanded /\ StartsHaveReminders /\ ReadsCovered /\ RowsCovered /\ FreshWantsAlone
  BY <1>1, NothingOpen DEF Init, WorkHanded, StartsHaveReminders, ReadsCovered, RowsCovered,
                           FreshWantsAlone, FreshWant, Schedulable, Holds
<1>3. QED
  BY <1>2, InitOutbox DEF ScheduleInv

\* Whoever opens a request loads a start that has its reminder, and brings the one of
\* a start that has none.
THEOREM ScheduleSafe == Spec => []ScheduleInv
BY InitSchedule, NextSchedule, PTL DEF Spec

\* A confirmed, open appointment to come has the reminder of its start, for any number
\* of requests that overlap and executions, unless the columns of two requests were
\* mixed in its row.
THEOREM StartsAreReminded == Spec => []StartsHaveReminders
<1>1. ScheduleInv => StartsHaveReminders
  BY DEF ScheduleInv
<1>2. QED
  BY <1>1, ScheduleSafe, PTL

\* As long as that has not happened to it, no commit of an appointment fails on the
\* unique index of its automatic reminder.
THEOREM SchedulesFit == Spec => []ScheduleNeverClashes
<1>1. ScheduleInv => ScheduleNeverClashes
  <2>1. SUFFICES ASSUME ScheduleInv, NEW q \in Requests, FreshWant(q), request[q].id \notin mixed
                 PROVE  ~Clashes(reminders, request[q].rid, request[q].want)
    BY DEF ScheduleNeverClashes
  <2>2. /\ request[q].want.type = "upcoming"
        /\ Snapshot(request[q].want.appointment, request[q].want.start) = {}
    BY <2>1 DEF ScheduleInv, FreshWantsAlone, FreshWant
  <2>3. QED
    BY <2>2 DEF Clashes, SameSnapshot, Snapshot, Exists
<1>2. QED
  BY <1>1, ScheduleSafe, PTL

-----------------------------------------------------------------------------
(* Reminders that wait, with requests one after the other *)

RequestsFollow == ReadsCurrent /\ WaitingFits /\ ChangesCover /\ WantsCurrent /\ ClosedEmpty

\* Where rows are kept and no request moves, what waits is current.
LEMMA KeptWaits ==
    ASSUME OutboxInv, RequestsFollow, request' = request, appointments' = appointments,
           \A i \in ReminderIds : Kept(i)
    PROVE  RequestsFollow'
<1>1. TypeOK /\ WantsFit
  BY DEF OutboxInv
<1>2. ASSUME NEW i \in ReminderIds, Waiting(i)'
      PROVE  /\ Waiting(i) /\ reminders'[i].appointment = reminders[i].appointment
             /\ reminders'[i].start = reminders[i].start
  BY <1>2 DEF Kept, Waiting
<1>3. WaitingFits'
  BY <1>2 DEF RequestsFollow, WaitingFits, CurrentFor
<1>4. ChangesCover'
  BY <1>2 DEF RequestsFollow, ChangesCover, CurrentFor, Holds, Changes
<1>5. WantsCurrent'
  <2>1. ASSUME NEW q \in Requests, request[q].seen # NoRow
        PROVE  SameSnapshot(reminders'[request[q].rid], request[q].want)
    <3>1. request[q].rid \in ReminderIds /\ Exists(request[q].rid)
      BY <1>1, <2>1 DEF WantsFit
    <3>2. /\ SameSnapshot(reminders[request[q].rid], request[q].want)
          /\ request[q].want.type = "upcoming"
      BY <2>1 DEF RequestsFollow, WantsCurrent
    <3>3. QED
      BY <2>1, <3>1, <3>2 DEF Kept, SameSnapshot
  <2>2. QED
    BY <2>1 DEF RequestsFollow, WantsCurrent, CurrentFor
<1>6. ClosedEmpty' /\ ReadsCurrent'
  BY DEF RequestsFollow, ClosedEmpty, ReadsCurrent
<1>7. QED
  BY <1>3, <1>4, <1>5, <1>6 DEF RequestsFollow

\* What is current for one request.
FollowsFor(q) ==
    /\ request[q].step # "closed" => request[q].read = appointments[request[q].id]
    /\ \A i \in ReminderIds :
          Holds(q, request[q].id) /\ Waiting(i) /\ reminders[i].appointment = request[q].id
            => i \in request[q].skip \/ CurrentFor(request[q].row, reminders[i].start)
    /\ request[q].want # NoRow /\ request[q].want.type = "upcoming" =>
          /\ request[q].want.appointment = request[q].id
          /\ CurrentFor(request[q].row, request[q].want.start)
    /\ request[q].seen # NoRow =>
          /\ request[q].want.type = "upcoming"
          /\ SameSnapshot(reminders[request[q].rid], request[q].want)
    /\ request[q].step = "closed" => request[q] = NoRequest

\* A request on its own changes nothing for the others, as long as no row does.
LEMMA OneFollows ==
    ASSUME RequestsFollow, NEW q \in Requests, \A u \in Requests \ {q} : request'[u] = request[u],
           handed' = handed, appointments' = appointments, reminders' = reminders,
           FollowsFor(q)'
    PROVE  RequestsFollow'
<1>1. WaitingFits'
  BY DEF RequestsFollow, WaitingFits, Waiting, Exists, CurrentFor
<1>2. ASSUME NEW u \in Requests \ {q}
      PROVE  FollowsFor(u)'
  <2>1. FollowsFor(u)
    BY DEF RequestsFollow, FollowsFor, ReadsCurrent, ChangesCover, WantsCurrent, ClosedEmpty
  <2>2. QED
    BY <2>1 DEF FollowsFor, CurrentFor, Waiting, Exists, Holds, Changes, SameSnapshot
<1>3. (\A u \in Requests : FollowsFor(u))'
  BY <1>2
<1>4. (ReadsCurrent /\ ChangesCover /\ WantsCurrent /\ ClosedEmpty)'
  BY <1>3 DEF FollowsFor, ReadsCurrent, ChangesCover, WantsCurrent, ClosedEmpty
<1>5. QED
  BY <1>1, <1>4 DEF RequestsFollow

\* A request opens with the row that is there.
LEMMA StartFollows ==
    ASSUME OutboxInv, RequestsFollow, NEW q \in Requests, StartRequest(q)
    PROVE  RequestsFollow'
<1>1. PICK op \in AllOps, id \in Appointments, row \in Appointment : Load(q, op, id, row)
  BY StartLoads
<1> DEFINE new == Loaded(op, id, row)
<1>2. /\ request' = [request EXCEPT ![q] = new] /\ handed' = handed
      /\ appointments' = appointments /\ reminders' = reminders
  BY <1>1 DEF Load, Loaded
<1>3. TypeOK
  BY DEF OutboxInv
<1>4. /\ new.step = "loaded" /\ new.id = id /\ new.read = appointments[id] /\ new.want = NoRow
      /\ new.seen = NoRow
  BY <1>3, LoadedRecord
<1> HIDE DEF new
<1>5. request'[q] = new /\ \A u \in Requests \ {q} : request'[u] = request[u]
  BY <1>2, <1>3 DEF TypeOK
<1>6. FollowsFor(q)'
  BY <1>2, <1>4, <1>5 DEF FollowsFor, Holds
<1>7. QED
  BY <1>2, <1>5, <1>6, OneFollows

\* A request that decides skips what its change makes wrong.
LEMMA FlushFollows ==
    ASSUME OutboxInv, RequestsFollow, NEW q \in Requests, FlushRequest(q)
    PROVE  RequestsFollow'
<1>1. TypeOK /\ request[q].step = "loaded"
  BY FlushDecides DEF OutboxInv
<1>2. PICK skip, rid, seen, want : Decides(q, skip, rid, seen, want) /\ Flush(q, skip, rid, seen, want)
  BY FlushDecides
<1>3. /\ request'[q].step = "flushed" /\ request'[q].seen = seen /\ request'[q].want = want
      /\ request'[q].id = request[q].id /\ request'[q].skip = skip /\ request'[q].rid = rid
      /\ request'[q].read = request[q].read /\ request'[q].row = request[q].row
      /\ \A u \in Requests \ {q} : request'[u] = request[u]
      /\ handed' = handed /\ appointments' = appointments /\ reminders' = reminders
  BY <1>1, <1>2, FlushStep
<1> DEFINE id == request[q].id
           row == request[q].row
           read == request[q].read
<1>4. /\ read = appointments[id] /\ row # NoRow
  BY <1>1 DEF RequestsFollow, ReadsCurrent, OutboxInv, SessionsFit, SessionFits
<1>5. ASSUME NEW i \in ReminderIds, Waiting(i), reminders[i].appointment = id
      PROVE  i \in skip \/ CurrentFor(row, reminders[i].start)
  <2>1. CurrentFor(read, reminders[i].start)
    BY <1>4, <1>5 DEF RequestsFollow, WaitingFits
  <2>2. /\ row.confirmation_pending => read.confirmation_pending
        /\ row.start # read.start \/ row.status # read.status => skip = PendingOf(id)
    BY <1>2, <2>1 DEF Decides, CurrentFor
  <2>3. i \in PendingOf(id)
    BY <1>5 DEF PendingOf, Waiting, Active, Exists
  <2>4. QED
    BY <1>4, <2>1, <2>2, <2>3 DEF CurrentFor
<1>6. /\ want # NoRow /\ want.type = "upcoming" =>
            want.appointment = id /\ CurrentFor(row, want.start)
      /\ seen # NoRow => want.type = "upcoming" /\ SameSnapshot(reminders[rid], want)
  BY <1>2, <1>4 DEF Decides, Schedulable, CurrentFor
<1>7. \A i : Waiting(i)' = Waiting(i)
  BY <1>3 DEF Waiting, Exists
<1>8. FollowsFor(q)'
  BY <1>3, <1>4, <1>5, <1>6, <1>7 DEF FollowsFor, CurrentFor, SameSnapshot
<1>9. QED
  BY <1>3, <1>8, OneFollows

\* After a request has ended alone no other has anything to rely on.
LEMMA LastEnds ==
    ASSUME TypeOK, Alone, ClosedEmpty, NEW q \in Requests, request[q].step # "closed", End(q)
    PROVE  /\ \A u \in Requests : request'[u] = NoRequest
           /\ ReadsCurrent' /\ ChangesCover' /\ WantsCurrent' /\ ClosedEmpty'
<1>1. \A u \in Requests : request'[u] = NoRequest
  BY EndEmpties DEF Alone, ClosedEmpty
<1>2. QED
  BY <1>1, NothingOpen DEF ReadsCurrent, ChangesCover, WantsCurrent, ClosedEmpty, Holds

\* A commit leaves waiting only what is for the appointment it leaves.
LEMMA CommitFollows ==
    ASSUME OutboxInv, RequestsFollow, Alone, NEW q \in Requests, CommitRequest(q)
    PROVE  RequestsFollow'
<1> DEFINE rq == request[q]
<1>1. /\ TypeOK /\ rq.step = "flushed" /\ End(q) /\ handed' = handed
      /\ ReadsCurrent /\ WaitingFits /\ ChangesCover /\ WantsCurrent /\ ClosedEmpty
  BY DEF OutboxInv, CommitRequest, RequestsFollow
<1>2. ReadsCurrent' /\ ChangesCover' /\ WantsCurrent' /\ ClosedEmpty'
  BY <1>1, LastEnds
<1>3. CASE appointments' = appointments /\ reminders' = reminders
  BY <1>1, <1>2, <1>3 DEF RequestsFollow, WaitingFits, Waiting, Exists, CurrentFor
<1>4. rq.id \in Appointments /\ rq.read = appointments[rq.id] /\ rq.row \in Appointment
  BY <1>1 DEF ReadsCurrent, OutboxInv, SessionsFit, SessionFits, TypeOK, Request
<1>5. MergeAppointment(rq.row, rq.read, appointments[rq.id]) = rq.row
  <2>1. rq.read \in Appointment \cup {NoRow}
    BY <1>1 DEF TypeOK, Request
  <2>2. QED
    BY <1>4, <2>1, MergeAppointmentRow
<1>6. ASSUME RowWritten(q)
      PROVE  \A id \in Appointments :
                appointments'[id] = IF rq.id = id THEN rq.row ELSE appointments[id]
  BY <1>1, <1>4, <1>5, <1>6 DEF RowWritten, TypeOK, Changes
<1>7. ASSUME /\ RowWritten(q)
             /\ \A i \in ReminderIds :
                   /\ i # rq.rid => Kept(i) /\ (i \in rq.skip => ~Waiting(i)')
                   /\ Exists(i) =>
                         /\ reminders'[i] # NoRow
                         /\ reminders'[i].appointment = reminders[i].appointment
                         /\ reminders'[i].type = reminders[i].type
                         /\ reminders'[i].start = reminders[i].start
             /\ rq.want # NoRow =>
                   /\ rq.rid \in ReminderIds
                   /\ rq.seen = NoRow => reminders'[rq.rid] = rq.want /\ ~Exists(rq.rid)
                   /\ rq.seen # NoRow => Exists(rq.rid)
             /\ rq.want = NoRow => rq.rid \notin ReminderIds,
             NEW i \in ReminderIds, Waiting(i)'
      PROVE  CurrentFor(appointments'[reminders'[i].appointment], reminders'[i].start)
  <2>1. reminders'[i].appointment \in Appointments
    BY <1>7, CommitKeeps DEF OutboxInv, TypeOK, Waiting, Exists, Reminder
  <2>2. CASE i # rq.rid
    <3>1. /\ Waiting(i) /\ i \notin rq.skip
          /\ reminders'[i].appointment = reminders[i].appointment
          /\ reminders'[i].start = reminders[i].start
      BY <1>7, <2>2 DEF Kept, Waiting
    <3>2. CurrentFor(appointments[reminders[i].appointment], reminders[i].start)
      BY <1>1, <3>1 DEF WaitingFits
    <3>3. reminders[i].appointment = rq.id => CurrentFor(rq.row, reminders[i].start)
      <4>1. CASE Changes(q)
        BY <1>1, <3>1, <4>1 DEF ChangesCover, Holds
      <4>2. CASE ~Changes(q)
        BY <1>4, <3>2, <4>2 DEF Changes
      <4>3. QED
        BY <4>1, <4>2
    <3>4. QED
      BY <1>6, <1>7, <2>1, <3>1, <3>2, <3>3
  <2>3. CASE i = rq.rid
    <3>1. rq.want # NoRow /\ reminders'[i].type = "upcoming"
      BY <1>7, <2>3 DEF Waiting
    <3>2. SameSnapshot(reminders'[i], rq.want)
      <4>1. CASE rq.seen = NoRow
        BY <1>7, <2>3, <3>1, <4>1 DEF SameSnapshot
      <4>2. CASE rq.seen # NoRow
        <5>1. /\ Exists(i) /\ reminders'[i].type = reminders[i].type
              /\ reminders'[i].appointment = reminders[i].appointment
              /\ reminders'[i].start = reminders[i].start
          BY <1>7, <2>3, <3>1, <4>2
        <5>2. SameSnapshot(reminders[i], rq.want)
          BY <1>1, <2>3, <4>2 DEF WantsCurrent
        <5>3. QED
          BY <5>1, <5>2 DEF SameSnapshot
      <4>3. QED
        BY <4>1, <4>2
    <3>3. rq.want.type = "upcoming" /\ rq.want.appointment = reminders'[i].appointment
          /\ rq.want.start = reminders'[i].start
      BY <3>1, <3>2 DEF SameSnapshot
    <3>4. rq.want.appointment = rq.id /\ CurrentFor(rq.row, rq.want.start)
      BY <1>1, <3>1, <3>3 DEF WantsCurrent
    <3>5. QED
      BY <1>6, <1>7, <2>1, <3>3, <3>4
  <2>4. QED
    BY <2>2, <2>3
<1>8. WaitingFits' \/ RequestsFollow'
  BY <1>3, <1>7, CommitRows DEF WaitingFits, CurrentFor
<1>9. QED
  BY <1>2, <1>8 DEF RequestsFollow

\* Every step, while requests follow one another, keeps what waits current.
LEMMA NextWaits ==
    ASSUME WaitingInv, Alone, [Next]_vars PROVE WaitingInv'
<1>1. ScheduleInv /\ OutboxInv /\ WorkHanded /\ RequestsFollow
  BY DEF WaitingInv, ScheduleInv, RequestsFollow
<1>2. ScheduleInv'
  BY <1>1, NextSchedule
<1>3. ASSUME NEW q \in Requests, StartRequest(q) \/ FlushRequest(q) \/ CommitRequest(q)
      PROVE  RequestsFollow'
  BY <1>1, <1>3, StartFollows, FlushFollows, CommitFollows
<1>4. ASSUME NEW q \in Requests, AbortRequest(q)
      PROVE  RequestsFollow'
  <2>1. /\ TypeOK /\ ClosedEmpty /\ request[q].step # "closed" /\ End(q)
        /\ appointments' = appointments /\ reminders' = reminders /\ handed' = handed
    BY <1>1, <1>4 DEF OutboxInv, RequestsFollow, AbortRequest
  <2>2. WaitingFits'
    BY <1>1, <2>1 DEF RequestsFollow, WaitingFits, Waiting, Exists, CurrentFor
  <2>3. QED
    BY <2>1, <2>2, LastEnds DEF RequestsFollow
<1>5. ASSUME NEW w \in Workers,
             \/ Claim(w) \/ Send(w) \/ Read(w) \/ Crash(w)
             \/ \E answered \in BOOLEAN : CommitReport(w, answered)
      PROVE  RequestsFollow'
  <2>1. \A i \in ReminderIds : Kept(i)
    BY <1>1, <1>5, WorkerLeaves, UnchangedKept, ClaimKept, CommitReportKept
  <2>2. QED
    BY <1>1, <1>5, <2>1, WorkerLeaves, KeptWaits
<1>6. CASE Tick \/ UNCHANGED vars
  <2>1. /\ request' = request /\ appointments' = appointments /\ reminders' = reminders
        /\ handed' = handed
    BY <1>6 DEF Tick, vars
  <2>2. QED
    BY <1>1, <1>2, <2>1, UnchangedKept, KeptWaits DEF WaitingInv, RequestsFollow
<1>7. QED
  BY <1>2, <1>3, <1>4, <1>5, <1>6 DEF Next, WaitingInv, RequestsFollow

\* Nothing waits at first.
LEMMA InitWaits ==
    ASSUME Init PROVE WaitingInv
<1>1. ReadsCurrent /\ WaitingFits /\ ChangesCover /\ WantsCurrent /\ ClosedEmpty
  BY NothingOpen DEF Init, ReadsCurrent, WaitingFits, ChangesCover, WantsCurrent, ClosedEmpty,
                     Waiting, Exists, Holds
<1>2. QED
  BY <1>1, InitSchedule DEF WaitingInv

\* What waits is current in every state of the invariant.
LEMMA WaitingInvCurrent == WaitingInv => WaitingIsCurrent
<1>1. SUFFICES ASSUME WaitingInv, NEW i \in ReminderIds \ handed, Exists(i),
                      reminders[i].type = "upcoming", reminders[i].status = "pending"
               PROVE  LET a == appointments[reminders[i].appointment] IN
                      a.status = "scheduled" /\ ~a.confirmation_pending
                      /\ a.start = reminders[i].start
  BY DEF WaitingIsCurrent
<1>2. CurrentFor(appointments[reminders[i].appointment], reminders[i].start)
  BY <1>1 DEF WaitingInv, WaitingFits, Waiting
<1>3. QED
  BY <1>2 DEF CurrentFor

\* As long as the requests of the API follow one another, an automatic reminder
\* that waits and that no claim handed out is for the present start of a
\* confirmed, open appointment, whatever executions and crashes come between.
THEOREM WaitingStays == Spec /\ []Alone => []WaitingIsCurrent
<1>1. WaitingInv /\ Alone /\ [Next]_vars => WaitingInv'
  BY NextWaits
<1>2. QED
  BY <1>1, WaitingInvCurrent, InitWaits, PTL DEF Spec

-----------------------------------------------------------------------------
(* Messages and attempts *)

\* A request that has not committed has written no reminder.
LEMMA OnlyCommitsWrite ==
    ASSUME NEW q \in Requests, StartRequest(q) \/ FlushRequest(q) \/ AbortRequest(q)
    PROVE  reminders' = reminders
BY DEF StartRequest, CreateAppointment, UpdateAppointment, ConfirmAppointment, CloseAppointment,
       ManualReminder, Load, FlushRequest, FlushScheduled, FlushClosed, QueryManual, WithReminder,
       Flush, AbortRequest

\* The row of a reminder never vanishes.
LEMMA RowsStay ==
    ASSUME ScheduleInv, [Next]_vars, NEW i \in ReminderIds, Exists(i)
    PROVE  reminders'[i] # NoRow
<1>1. OutboxInv /\ WorkHanded
  BY DEF ScheduleInv
<1>2. ASSUME reminders' = reminders
      PROVE  reminders'[i] # NoRow
  BY <1>2 DEF Exists
<1>3. ASSUME NEW q \in Requests, StartRequest(q) \/ FlushRequest(q) \/ CommitRequest(q) \/ AbortRequest(q)
      PROVE  reminders'[i] # NoRow
  <2>1. CASE CommitRequest(q)
    BY <1>1, <1>2, <2>1, CommitRows
  <2>2. QED
    BY <1>2, <1>3, <2>1, OnlyCommitsWrite
<1>4. ASSUME NEW w \in Workers, Send(w) \/ Read(w) \/ Crash(w)
      PROVE  reminders'[i] # NoRow
  BY <1>2, <1>4 DEF Send, Read, ReadSent, ReadFailed, Crash
<1>5. ASSUME NEW w \in Workers, Claim(w) \/ \E answered \in BOOLEAN : CommitReport(w, answered)
      PROVE  reminders'[i] # NoRow
  BY <1>1, <1>5, ClaimKept, CommitReportKept DEF Kept
<1>6. CASE Tick \/ UNCHANGED vars
  BY <1>2, <1>6 DEF Tick, vars
<1>7. QED
  BY <1>3, <1>4, <1>5, <1>6 DEF Next

\* More attempts allow at least as many messages, and one attempt SendTries more.
LEMMA AttemptsAllow ==
    ASSUME NEW a \in Nat, NEW b \in Nat, a >= b
    PROVE  /\ SendTries * a >= SendTries * b /\ SendTries * a \in Nat /\ SendTries * b \in Nat
           /\ SendTries * (a + 1) = SendTries * a + SendTries
<1>1. SendTries \in Nat
  BY EnoughNat
<1>2. \A x, y, z \in Nat : x >= y => /\ z * x >= z * y /\ z * x \in Nat /\ z * y \in Nat
                                     /\ z * (x + 1) = z * x + z
  OBVIOUS
<1>3. QED
  BY <1>1, <1>2

\* What a step does to the count of a reminder that it does not start over.
CountStep(i) ==
    /\ IsFiniteSet(Holders(i)')
    /\ WithinAttempts(i) /\ ~StartsOver(i) => WithinAttempts(i)'

\* Skipping, merging and claiming a row leave or raise its attempts.
LEMMA RowAttempts ==
    ASSUME NEW r \in Reminder
    PROVE  /\ r.attempts \in Nat /\ Skip(r).attempts = r.attempts
           /\ Unsendable(r).attempts = r.attempts + 1 /\ Claimed(r).attempts = r.attempts + 1
           /\ \A want, seen \in Reminder :
                 MergeReminder(want, seen, r).attempts
                   = IF want.attempts # seen.attempts THEN want.attempts ELSE r.attempts
<1>1. r.attempts \in Nat
  BY TimeAssumption DEF Reminder
<1>2. Skip(r).attempts = r.attempts
  BY DEF Skip, Reminder
<1>3. Unsendable(r).attempts = r.attempts + 1 /\ Claimed(r).attempts = r.attempts + 1
  BY DEF Unsendable, Claimed, Reminder
<1>4. ASSUME NEW want \in Reminder, NEW seen \in Reminder
      PROVE  MergeReminder(want, seen, r).attempts
               = IF want.attempts # seen.attempts THEN want.attempts ELSE r.attempts
  BY DEF MergeReminder, Column, Reminder
<1>5. QED
  BY <1>1, <1>2, <1>3, <1>4

\* A commit changes the attempts of a reminder only by starting it over.
LEMMA CommitAttempts ==
    ASSUME OutboxInv, WantsKeepCount, NEW q \in Requests, CommitRequest(q),
           NEW i \in ReminderIds, Exists(i), ~StartsOver(i)
    PROVE  reminders'[i].attempts = reminders[i].attempts
<1> DEFINE rq == request[q]
           skipped == [j \in ReminderIds |-> IF j \in rq.skip THEN Skip(reminders[j])
                                                             ELSE reminders[j]]
           final == IF rq.seen = NoRow THEN rq.want
                    ELSE MergeReminder(rq.want, rq.seen, skipped[rq.rid])
<1>1. TypeOK /\ WantsFit
  BY DEF OutboxInv
<1>2. reminders[i] \in Reminder
  BY <1>1 DEF TypeOK, Exists
<1>3. skipped[i] \in Reminder /\ skipped[i].attempts = reminders[i].attempts
  <2>1. skipped[i] = Skip(reminders[i]) \/ skipped[i] = reminders[i]
    OBVIOUS
  <2>2. QED
    BY <1>2, <2>1, SkipRow, RowAttempts
<1>4. CASE reminders' = reminders
  BY <1>4
<1>5. CASE reminders' = IF rq.want = NoRow THEN skipped ELSE [skipped EXCEPT ![rq.rid] = final]
  <2>1. CASE rq.want = NoRow \/ rq.rid # i
    <3>1. reminders'[i] = skipped[i]
      BY <1>5, <2>1
    <3>2. QED
      BY <1>3, <3>1
  <2>2. CASE rq.want # NoRow /\ rq.rid = i
    <3>1. rq.seen # NoRow /\ rq.seen \in Reminder /\ rq.want \in Reminder
      BY <1>1, <2>2 DEF WantsFit, TypeOK, Request
    <3>2. reminders'[i] = MergeReminder(rq.want, rq.seen, skipped[i])
      BY <1>5, <2>2, <3>1
    <3>3. reminders'[i].attempts = IF rq.want.attempts # rq.seen.attempts
                                   THEN rq.want.attempts ELSE skipped[i].attempts
      BY <1>3, <3>1, <3>2, RowAttempts
    <3>4. CASE rq.want.attempts = rq.seen.attempts
      BY <1>3, <3>3, <3>4
    <3>5. CASE rq.seen.status \in {"failed", "skipped"}
      <4>1. rq.step = "flushed" /\ request'[q].step = "closed"
        BY <1>1, EndEmpties, NothingOpen DEF CommitRequest
      <4>2. reminders'[i] = reminders[i]
        BY <2>2, <3>1, <3>5, <4>1 DEF StartsOver
      <4>3. QED
        BY <4>2
    <3>6. QED
      BY <3>1, <3>4, <3>5 DEF WantsKeepCount
  <2>3. QED
    BY <2>1, <2>2
<1>6. reminders' = reminders
      \/ reminders' = IF rq.want = NoRow THEN skipped ELSE [skipped EXCEPT ![rq.rid] = final]
  BY DEF CommitRequest
<1>7. QED
  BY <1>4, <1>5, <1>6

\* No step takes attempts from a reminder unless it starts it over.
LEMMA AttemptsStay ==
    ASSUME HoldInv, [Next]_vars, NEW i \in ReminderIds, Exists(i), ~StartsOver(i)
    PROVE  reminders'[i].attempts >= reminders[i].attempts
<1>1. OutboxInv /\ TypeOK /\ ReportsFit /\ WantsKeepCount
  BY DEF HoldInv, ScheduleInv, OutboxInv
<1>2. reminders[i] \in Reminder
  BY <1>1 DEF TypeOK, Exists
<1>3. reminders[i].attempts \in Nat
  BY <1>2, RowAttempts
<1>4. ASSUME reminders' = reminders \/ reminders'[i].attempts = reminders[i].attempts
      PROVE  reminders'[i].attempts >= reminders[i].attempts
  BY <1>3, <1>4
<1>5. ASSUME NEW q \in Requests, StartRequest(q) \/ FlushRequest(q) \/ CommitRequest(q) \/ AbortRequest(q)
      PROVE  reminders'[i].attempts >= reminders[i].attempts
  <2>1. CASE CommitRequest(q)
    BY <1>1, <1>4, <2>1, CommitAttempts
  <2>2. QED
    BY <1>4, <1>5, <2>1, OnlyCommitsWrite
<1>6. ASSUME NEW w \in Workers, Send(w) \/ Read(w) \/ Crash(w)
      PROVE  reminders'[i].attempts >= reminders[i].attempts
  BY <1>4, <1>6 DEF Send, Read, ReadSent, ReadFailed, Crash
<1>7. ASSUME NEW w \in Workers, Claim(w)
      PROVE  reminders'[i].attempts >= reminders[i].attempts
  <2>1. reminders'[i] \in {reminders[i], Skip(reminders[i]), Unsendable(reminders[i]),
                           Claimed(reminders[i])}
    BY <1>7 DEF Claim
  <2>2. QED
    BY <1>2, <1>3, <2>1, RowAttempts
<1>8. ASSUME NEW w \in Workers, NEW answered, CommitReport(w, answered)
      PROVE  reminders'[i].attempts >= reminders[i].attempts
  <2> DEFINE seen == worker[w].seen
             final == MergeReminder(Marked(w), seen, reminders[worker[w].item])
  <2>1. reminders' = reminders \/ reminders' = [reminders EXCEPT ![worker[w].item] = final]
    BY <1>8 DEF CommitReport
  <2>2. CASE reminders' = [reminders EXCEPT ![worker[w].item] = final] /\ worker[w].item = i
    <3>1. seen \in Reminder
      BY <1>1, <1>8 DEF CommitReport, ReportsFit, TypeOK, Worker
    <3>2. Marked(w) \in Reminder /\ Marked(w).attempts = seen.attempts
      BY <3>1, Statuses DEF Marked, Reminder
    <3>3. reminders'[i] = MergeReminder(Marked(w), seen, reminders[i])
      BY <1>1, <2>2 DEF TypeOK
    <3>4. reminders'[i].attempts = reminders[i].attempts
      BY <1>2, <3>1, <3>2, <3>3, RowAttempts
    <3>5. QED
      BY <1>4, <3>4
  <2>3. CASE reminders' = [reminders EXCEPT ![worker[w].item] = final] /\ worker[w].item # i
    BY <1>1, <1>4, <2>3 DEF TypeOK
  <2>4. QED
    BY <1>4, <2>1, <2>2, <2>3
<1>9. CASE Tick \/ UNCHANGED vars
  BY <1>4, <1>9 DEF Tick, vars
<1>10. QED
  BY <1>5, <1>6, <1>7, <1>8, <1>9 DEF Next

\* A request reads nothing when it opens, and leaves the attempts of the reminder it reads.
LEMMA RequestKeepsCount ==
    ASSUME OutboxInv, WantsKeepCount, NEW q \in Requests, StartRequest(q) \/ FlushRequest(q)
    PROVE  WantsKeepCount'
<1>1. TypeOK
  BY DEF OutboxInv
<1>2. CASE StartRequest(q)
  <2>1. PICK op \in AllOps, id \in Appointments, row \in Appointment : Load(q, op, id, row)
    BY <1>2, StartLoads
  <2> DEFINE new == Loaded(op, id, row)
  <2>2. request' = [request EXCEPT ![q] = new]
    BY <2>1 DEF Load, Loaded
  <2>3. new.seen = NoRow
    BY <1>1, LoadedRecord
  <2> HIDE DEF new
  <2>4. request'[q] = new /\ \A u \in Requests \ {q} : request'[u] = request[u]
    BY <1>1, <2>2 DEF TypeOK
  <2>5. QED
    BY <2>3, <2>4 DEF WantsKeepCount
<1>3. CASE FlushRequest(q)
  <2>1. PICK skip, rid, seen, want : Decides(q, skip, rid, seen, want) /\ Flush(q, skip, rid, seen, want)
    BY <1>3, FlushDecides
  <2>2. /\ request'[q].seen = seen /\ request'[q].want = want
        /\ \A u \in Requests \ {q} : request'[u] = request[u]
    BY <1>1, <2>1, FlushStep
  <2>3. seen # NoRow => seen.status \in {"failed", "skipped"} \/ want.attempts = seen.attempts
    BY <2>1 DEF Decides
  <2>4. QED
    BY <2>2, <2>3 DEF WantsKeepCount
<1>4. QED
  BY <1>2, <1>3

\* Other steps leave requests as they are or end them.
LEMMA NextKeepsCount ==
    ASSUME OutboxInv, WantsKeepCount, [Next]_vars PROVE WantsKeepCount'
<1>1. ASSUME request' = request PROVE WantsKeepCount'
  BY <1>1 DEF WantsKeepCount
<1>2. ASSUME NEW q \in Requests, End(q) PROVE WantsKeepCount'
  <2>1. TypeOK
    BY DEF OutboxInv
  <2>2. QED
    BY <1>2, <2>1, EndEmpties, NothingOpen DEF WantsKeepCount
<1>3. ASSUME NEW q \in Requests, StartRequest(q) \/ FlushRequest(q) \/ CommitRequest(q) \/ AbortRequest(q)
      PROVE  WantsKeepCount'
  BY <1>2, <1>3, RequestKeepsCount DEF CommitRequest, AbortRequest
<1>4. ASSUME NEW w \in Workers,
             \/ Claim(w) \/ Send(w) \/ Read(w) \/ Crash(w)
             \/ \E answered \in BOOLEAN : CommitReport(w, answered)
      PROVE  request' = request
  BY <1>4 DEF Claim, Send, Read, ReadSent, ReadFailed, Crash, CommitReport, Work
<1>5. CASE Tick \/ UNCHANGED vars
  BY <1>1, <1>5 DEF Tick, vars
<1>6. QED
  BY <1>1, <1>3, <1>4, <1>5 DEF Next

\* Where nobody takes up a reminder and nothing is delivered, the count holds.
LEMMA HeldLess ==
    ASSUME HoldInv, ScheduleInv', [Next]_vars, NEW i \in ReminderIds,
           delivered'[i] = delivered[i], Holders(i)' \subseteq Holders(i)
    PROVE  CountStep(i)
<1> DEFINE H == Holders(i)
           G == Holders(i)'
<1>0. IsFiniteSet(H) /\ IsFiniteSet(G)
  BY FS_Subset DEF HoldInv
<1> SUFFICES ASSUME WithinAttempts(i), ~StartsOver(i)
             PROVE  IF reminders'[i] # NoRow
                    THEN delivered'[i] + SendTries * Cardinality(G)
                           <= SendTries * reminders'[i].attempts
                    ELSE delivered'[i] = 0
  BY <1>0 DEF CountStep, WithinAttempts, Exists
<1>1. /\ TypeOK /\ ReportsFit /\ TypeOK' /\ IsFiniteSet(H)
      /\ IF Exists(i) THEN delivered[i] + SendTries * Cardinality(H) <= SendTries * reminders[i].attempts
                      ELSE delivered[i] = 0
  BY <1>0 DEF HoldInv, ScheduleInv, OutboxInv, WithinAttempts
<1>2. IsFiniteSet(G) /\ Cardinality(G) <= Cardinality(H)
      /\ Cardinality(G) \in Nat /\ Cardinality(H) \in Nat
  BY <1>1, FS_Subset, FS_CardinalityType
<1>3. SendTries * Cardinality(H) >= SendTries * Cardinality(G)
      /\ SendTries * Cardinality(H) \in Nat /\ SendTries * Cardinality(G) \in Nat
  BY <1>2, AttemptsAllow
<1>4. delivered[i] \in Nat
  BY <1>1, EnoughNat DEF TypeOK
<1>5. CASE Exists(i)
  <2>1. reminders'[i] # NoRow /\ reminders'[i].attempts >= reminders[i].attempts
    BY <1>5, RowsStay, AttemptsStay DEF HoldInv
  <2>2. reminders[i].attempts \in Nat /\ reminders'[i].attempts \in Nat
    BY <1>1, <1>5, <2>1, TimeAssumption DEF TypeOK, Exists, Reminder
  <2>3. /\ SendTries * reminders'[i].attempts >= SendTries * reminders[i].attempts
        /\ SendTries * reminders'[i].attempts \in Nat /\ SendTries * reminders[i].attempts \in Nat
    BY <2>1, <2>2, AttemptsAllow
  <2>4. delivered[i] + SendTries * Cardinality(H) <= SendTries * reminders[i].attempts
    BY <1>1, <1>5
  <2>5. delivered'[i] + SendTries * Cardinality(G) <= SendTries * reminders'[i].attempts
    <3> HIDE DEF H, G
    <3> QED BY <1>3, <1>4, <2>3, <2>4
  <2>6. QED
    BY <1>2, <2>1, <2>5
<1>6. CASE ~Exists(i)
  <2>1. delivered'[i] = 0
    BY <1>1, <1>6
  <2>2. H = {}
    BY <1>1, <1>6 DEF ReportsFit, Holders
  <2>3. G = {} /\ Cardinality(G) = 0
    BY <2>2, FS_EmptySet
  <2>4. CASE reminders'[i] # NoRow
    <3>1. reminders'[i].attempts \in Nat
      BY <1>1, <2>4, TimeAssumption DEF TypeOK, Reminder
    <3>2. SendTries * reminders'[i].attempts \in Nat /\ SendTries * 0 = 0
      <4>1. \A n \in Nat : n * 0 = 0
        OBVIOUS
      <4>2. SendTries \in Nat
        BY TimeAssumption
      <4>3. SendTries * reminders'[i].attempts \in Nat
        BY <3>1, AttemptsAllow
      <4>4. QED
        BY <4>1, <4>2, <4>3
    <3>3. delivered'[i] + SendTries * Cardinality(G) <= SendTries * reminders'[i].attempts
      <4> DEFINE d == delivered'[i]
                 c == Cardinality(G)
                 m == SendTries * reminders'[i].attempts
      <4>1. d = 0 /\ c = 0 /\ m \in Nat
        BY <2>1, <2>3, <3>2
      <4> HIDE DEF d, c, m
      <4>2. d + SendTries * c <= m
        BY <3>2, <4>1
      <4>3. QED
        BY <4>2 DEF d, c, m
    <3>4. QED
      BY <2>4, <3>3
  <2>5. QED
    BY <1>2, <2>1, <2>4
<1>7. QED
  BY <1>5, <1>6

\* A claim counts an attempt for every reminder it hands out.
LEMMA ClaimCounts ==
    ASSUME HoldInv, ScheduleInv', [Next]_vars, NEW w \in Workers, Claim(w)
    PROVE  IdleHoldsNothing' /\ \A i \in ReminderIds : CountStep(i)
<1> DEFINE invalid == Oldest(DueInvalid)
           batch == Oldest(Due)
<1>1. TypeOK /\ ReportsFit /\ TypeOK' /\ IdleHoldsNothing
  BY DEF HoldInv, ScheduleInv, OutboxInv
<1>2. PICK blocked \in SUBSET batch :
        /\ reminders' = [i \in ReminderIds |->
              IF i \in invalid THEN Skip(reminders[i])
              ELSE IF i \in blocked THEN Unsendable(reminders[i])
              ELSE IF i \in batch THEN Claimed(reminders[i])
              ELSE reminders[i]]
        /\ worker' = IF batch = blocked THEN worker
                     ELSE [worker EXCEPT ![w].pc = "send", ![w].todo = batch \ blocked]
  BY DEF Claim
<1>3. worker[w].pc = "idle" /\ worker[w].todo = {} /\ delivered' = delivered
  BY <1>1 DEF Claim, IdleHoldsNothing
<1>4. /\ \A v \in Workers \ {w} : worker'[v] = worker[v]
      /\ \/ worker' = worker
         \/ worker'[w].pc = "send" /\ worker'[w].todo = batch \ blocked
  BY <1>1, <1>2 DEF TypeOK, Worker
<1>5. IdleHoldsNothing'
  BY <1>1, <1>4 DEF IdleHoldsNothing
<1>6. ASSUME NEW i \in ReminderIds
      PROVE  CountStep(i)
  <2>1. CASE i \notin batch \ blocked
    <3>1. Holders(i)' \subseteq Holders(i)
      BY <1>4, <2>1 DEF Holders
    <3>2. QED
      BY <1>3, <3>1, HeldLess
  <2>2. CASE i \in batch \ blocked
    <3> DEFINE H == Holders(i)
               G == Holders(i)'
    <3>1. G \subseteq H \cup {w} /\ w \notin H
      BY <1>3, <1>4 DEF Holders
    <3>2. IsFiniteSet(H)
      BY DEF HoldInv
    <3>3. /\ IsFiniteSet(H \cup {w}) /\ Cardinality(H \cup {w}) = Cardinality(H) + 1
          /\ Cardinality(H) \in Nat
      BY <3>1, <3>2, FS_AddElement, FS_CardinalityType
    <3>4. /\ IsFiniteSet(G) /\ Cardinality(G) <= Cardinality(H) + 1 /\ Cardinality(G) \in Nat
      BY <3>1, <3>3, FS_Subset, FS_CardinalityType
    <3>5. SendTries * Cardinality(G) <= SendTries * Cardinality(H) + SendTries
          /\ SendTries * Cardinality(G) \in Nat /\ SendTries * Cardinality(H) \in Nat
      <4>1. /\ SendTries * (Cardinality(H) + 1) >= SendTries * Cardinality(G)
            /\ SendTries * Cardinality(G) \in Nat
        BY <3>3, <3>4, AttemptsAllow
      <4>2. /\ SendTries * (Cardinality(H) + 1) = SendTries * Cardinality(H) + SendTries
            /\ SendTries * Cardinality(H) \in Nat
        BY <3>3, AttemptsAllow
      <4>3. QED
        BY <4>1, <4>2
    <3>6. /\ reminders[i] \in Reminder /\ Exists(i) /\ reminders[i].attempts \in Nat
      BY <1>1, <2>2, TimeAssumption DEF Oldest, Due, Active, Exists, TypeOK, Reminder
    <3>7. i \notin invalid
      BY <2>2 DEF Oldest, Due, DueInvalid
    <3>8. reminders'[i] = Claimed(reminders[i])
      BY <1>2, <2>2, <3>7
    <3>9. reminders'[i] # NoRow /\ reminders'[i].attempts = reminders[i].attempts + 1
      <4>1. Claimed(reminders[i]).attempts = reminders[i].attempts + 1
        BY <3>6 DEF Claimed, Reminder
      <4>2. QED
        BY <3>6, <3>8, <4>1, RowsStay DEF HoldInv
    <3>10. /\ SendTries * reminders'[i].attempts = SendTries * reminders[i].attempts + SendTries
           /\ SendTries * reminders[i].attempts \in Nat
      BY <3>6, <3>9, AttemptsAllow
    <3>11. delivered'[i] = delivered[i] /\ delivered[i] \in Nat /\ SendTries \in Nat
      BY <1>1, <1>3, EnoughNat DEF TypeOK
    <3>12. ASSUME delivered[i] + SendTries * Cardinality(H) <= SendTries * reminders[i].attempts
           PROVE  delivered'[i] + SendTries * Cardinality(G) <= SendTries * reminders'[i].attempts
      <4> HIDE DEF H, G
      <4> QED BY <3>5, <3>10, <3>11, <3>12
    <3>13. QED
      BY <3>4, <3>6, <3>9, <3>12 DEF CountStep, WithinAttempts, Exists
  <2>3. QED
    BY <2>1, <2>2
<1>7. QED
  BY <1>5, <1>6

\* A send uses up what its claim allowed.
LEMMA SendCounts ==
    ASSUME HoldInv, ScheduleInv', [Next]_vars, NEW w \in Workers, Send(w)
    PROVE  IdleHoldsNothing' /\ \A i \in ReminderIds : CountStep(i)
<1>1. TypeOK /\ ReportsFit /\ TypeOK' /\ IdleHoldsNothing
  BY DEF HoldInv, ScheduleInv, OutboxInv
<1>2. PICK i \in worker[w].todo, outcome \in Outcomes, messages \in 0..SendTries :
        /\ worker' = [worker EXCEPT ![w] =
              [Route(w, i, outcome) EXCEPT !.pc = IF worker[w].todo = {i} THEN "report"
                                                                         ELSE "send"]]
        /\ delivered' = [delivered EXCEPT ![i] = IF @ > Enough THEN @ ELSE @ + messages]
        /\ reminders' = reminders
  BY DEF Send
<1> DEFINE x == [Route(w, i, outcome) EXCEPT !.pc = IF worker[w].todo = {i} THEN "report"
                                                                          ELSE "send"]
<1>3. i \in ReminderIds /\ worker[w] \in Worker
  BY <1>1 DEF TypeOK, Worker
<1>4. x.todo = worker[w].todo \ {i} /\ x.pc # "idle"
  BY <1>3 DEF Route, Worker
<1>5. worker'[w] = x /\ \A v \in Workers \ {w} : worker'[v] = worker[v]
  BY <1>1, <1>2 DEF TypeOK
<1> HIDE DEF x
<1>6. IdleHoldsNothing'
  BY <1>1, <1>4, <1>5 DEF IdleHoldsNothing
<1>7. ASSUME NEW j \in ReminderIds
      PROVE  CountStep(j)
  <2>1. CASE j # i
    <3>1. Holders(j)' \subseteq Holders(j) /\ delivered'[j] = delivered[j]
      BY <1>1, <1>2, <1>4, <1>5, <2>1 DEF Holders, TypeOK
    <3>2. QED
      BY <3>1, HeldLess
  <2>2. CASE j = i
    <3> DEFINE H == Holders(i)
               G == Holders(i)'
    <3>1. G = H \ {w} /\ w \in H
      BY <1>4, <1>5 DEF Holders
    <3>2. IsFiniteSet(H) /\ Exists(i)
      BY <1>1, <1>3 DEF HoldInv, ReportsFit
    <3>3. /\ IsFiniteSet(G) /\ Cardinality(G) = Cardinality(H) - 1
          /\ Cardinality(H) \in Nat /\ Cardinality(G) \in Nat
      BY <3>1, <3>2, FS_RemoveElement, FS_CardinalityType
    <3>4. /\ SendTries * Cardinality(H) = SendTries * Cardinality(G) + SendTries
          /\ SendTries * Cardinality(G) \in Nat
      <4>1. Cardinality(H) = Cardinality(G) + 1
        BY <3>3
      <4>2. SendTries * (Cardinality(G) + 1) = SendTries * Cardinality(G) + SendTries
            /\ SendTries * Cardinality(G) \in Nat
        BY <3>3, AttemptsAllow
      <4>3. QED
        BY <4>1, <4>2
    <3>5. delivered'[i] \in Nat /\ delivered[i] \in Nat /\ delivered'[i] <= delivered[i] + SendTries
      <4>1. delivered[i] \in 0..Enough + SendTries
        BY <1>1, <1>3 DEF TypeOK
      <4>2. delivered'[i] = IF delivered[i] > Enough THEN delivered[i] ELSE delivered[i] + messages
        BY <1>1, <1>2, <1>3 DEF TypeOK
      <4>3. messages \in 0..SendTries
        BY <1>2
      <4>4. QED
        BY <4>1, <4>2, <4>3, EnoughNat
    <3>6. reminders[i].attempts \in Nat
      BY <1>1, <1>3, <3>2, TimeAssumption DEF TypeOK, Exists, Reminder
    <3>7. SendTries * reminders[i].attempts \in Nat /\ SendTries \in Nat
      <4>1. SendTries * reminders[i].attempts \in Nat
        BY <3>6, AttemptsAllow
      <4>2. QED
        BY <4>1, EnoughNat
    <3>8. ASSUME delivered[i] + SendTries * Cardinality(H) <= SendTries * reminders[i].attempts
          PROVE  delivered'[i] + SendTries * Cardinality(G) <= SendTries * reminders[i].attempts
      <4> HIDE DEF H, G
      <4> QED BY <3>4, <3>5, <3>7, <3>8
    <3>9. QED
      BY <1>2, <2>2, <3>2, <3>3, <3>8 DEF CountStep, WithinAttempts, Exists
  <2>3. QED
    BY <2>1, <2>2
<1>8. QED
  BY <1>6, <1>7

\* No other step takes up a reminder or delivers one.
LEMMA RestCounts ==
    ASSUME HoldInv, ScheduleInv', [Next]_vars, delivered' = delivered,
           \A w \in Workers : /\ worker'[w].todo \subseteq worker[w].todo
                              /\ worker'[w].pc = "idle" => worker'[w].todo = {}
    PROVE  IdleHoldsNothing' /\ \A i \in ReminderIds : CountStep(i)
<1>1. IdleHoldsNothing'
  BY DEF IdleHoldsNothing
<1>2. ASSUME NEW i \in ReminderIds
      PROVE  CountStep(i)
  <2>1. Holders(i)' \subseteq Holders(i) /\ delivered'[i] = delivered[i]
    BY DEF Holders
  <2>2. QED
    BY <2>1, HeldLess
<1>3. QED
  BY <1>1, <1>2

\* Every step counts for every reminder it does not start over.
LEMMA NextCounts ==
    ASSUME HoldInv, [Next]_vars PROVE HoldInv' /\ \A i \in ReminderIds : CountStep(i)
<1> DEFINE Counts == IdleHoldsNothing' /\ \A i \in ReminderIds : CountStep(i)
<1>1. ScheduleInv /\ OutboxInv /\ TypeOK /\ ReportsFit /\ IdleHoldsNothing
  BY DEF HoldInv, ScheduleInv, OutboxInv
<1>2. ScheduleInv'
  BY <1>1, NextSchedule
<1>3. ASSUME worker' = worker, delivered' = delivered
      PROVE  Counts
  BY <1>1, <1>2, <1>3, RestCounts DEF IdleHoldsNothing
<1>4. ASSUME NEW q \in Requests, StartRequest(q) \/ FlushRequest(q) \/ CommitRequest(q) \/ AbortRequest(q)
      PROVE  worker' = worker /\ delivered' = delivered
  BY <1>1, <1>4, RequestLeaves
<1>5. ASSUME NEW w \in Workers, NEW x, Work(w, x),
             x = NoWork \/ (x.pc = worker[w].pc /\ x.todo = worker[w].todo)
      PROVE  Counts
  <2> DEFINE y == IF x.todo \cup x.ok \cup x.bad = {} THEN NoWork ELSE x
  <2>1. worker' = [worker EXCEPT ![w] = y] /\ delivered' = delivered
    BY <1>5 DEF Work
  <2>2. y = NoWork \/ (y.pc = worker[w].pc /\ y.todo = worker[w].todo)
    BY <1>5
  <2>3. \A v \in Workers : worker'[v] = IF v = w THEN y ELSE worker[v]
    BY <1>1, <2>1 DEF TypeOK
  <2> HIDE DEF y
  <2>4. NoWork.todo = {}
    BY DEF NoWork
  <2>5. QED
    BY <1>1, <1>2, <2>1, <2>2, <2>3, <2>4, RestCounts DEF IdleHoldsNothing
<1>6. ASSUME NEW w \in Workers, NEW i,
             NEW x \in {Dropped(w, i), Unread(w), Reading(w, i), [Dropped(w, i) EXCEPT !.bad = {}]}
      PROVE  x.pc = worker[w].pc /\ x.todo = worker[w].todo
  <2>1. worker[w] \in Worker
    BY <1>1 DEF TypeOK
  <2>2. Dropped(w, i).pc = worker[w].pc /\ Dropped(w, i).todo = worker[w].todo
    BY <2>1 DEF Dropped, Worker
  <2>3. [Dropped(w, i) EXCEPT !.bad = {}].pc = worker[w].pc
        /\ [Dropped(w, i) EXCEPT !.bad = {}].todo = worker[w].todo
    BY <2>1 DEF Dropped, Worker
  <2>4. Unread(w).pc = worker[w].pc /\ Unread(w).todo = worker[w].todo
    BY <2>1 DEF Unread, Worker
  <2>5. Reading(w, i).pc = worker[w].pc /\ Reading(w, i).todo = worker[w].todo
    BY <2>1 DEF Reading, Worker
  <2>6. QED
    BY <2>2, <2>3, <2>4, <2>5
<1>7. ASSUME NEW w \in Workers, NEW i,
             \/ Work(w, Dropped(w, i)) \/ Work(w, Unread(w)) \/ Work(w, Reading(w, i))
             \/ Work(w, [Dropped(w, i) EXCEPT !.bad = {}]) \/ Work(w, NoWork)
      PROVE  Counts
  BY <1>5, <1>6, <1>7
<1>8. ASSUME NEW w \in Workers, Read(w) \/ Crash(w)
      PROVE  Counts
  <2>1. CASE ReadSent(w)
    <3>1. PICK i \in worker[w].ok :
            \/ Work(w, Dropped(w, i)) \/ Work(w, Reading(w, i))
            \/ Work(w, [Dropped(w, i) EXCEPT !.bad = {}])
      BY <2>1 DEF ReadSent
    <3>2. QED
      BY <1>7, <3>1
  <2>2. CASE ReadFailed(w)
    <3>1. PICK i \in worker[w].bad : Work(w, Dropped(w, i)) \/ Work(w, Reading(w, i))
      BY <2>2 DEF ReadFailed
    <3>2. QED
      BY <1>7, <3>1
  <2>3. CASE Crash(w)
    BY <1>7, <2>3 DEF Crash
  <2>4. QED
    BY <1>8, <2>1, <2>2, <2>3 DEF Read
<1>9. ASSUME NEW w \in Workers, NEW answered, CommitReport(w, answered)
      PROVE  Counts
  <2>1. \/ Work(w, NoWork) \/ Work(w, Dropped(w, worker[w].item)) \/ Work(w, Unread(w))
    BY <1>9 DEF CommitReport
  <2>2. QED
    BY <1>7, <2>1
<1>10. ASSUME Tick \/ UNCHANGED vars
       PROVE  Counts
  <2>1. worker' = worker /\ delivered' = delivered
    BY <1>10 DEF Tick, vars
  <2> HIDE DEF Counts
  <2>2. QED
    BY <1>3, <2>1
<1>11. Counts
  <2>1. ASSUME NEW q \in Requests, StartRequest(q) \/ FlushRequest(q) \/ CommitRequest(q) \/ AbortRequest(q)
        PROVE  Counts
    <3> HIDE DEF Counts
    <3> QED BY <1>3, <1>4, <2>1
  <2>2. ASSUME NEW w \in Workers, Claim(w)
        PROVE  Counts
    BY <1>2, <2>2, ClaimCounts
  <2>3. ASSUME NEW w \in Workers, Send(w)
        PROVE  Counts
    BY <1>2, <2>3, SendCounts
  <2> HIDE DEF Counts
  <2>4. QED
    BY <1>8, <1>9, <1>10, <2>1, <2>2, <2>3 DEF Next
<1>12. WantsKeepCount'
  BY <1>1, NextKeepsCount DEF HoldInv
<1>13. QED
  BY <1>2, <1>11, <1>12 DEF HoldInv, CountStep

\* Nothing is delivered at first.
LEMMA InitCounts ==
    ASSUME Init PROVE HoldInv /\ \A i \in ReminderIds : WithinAttempts(i)
<1>1. NoWork.todo = {} /\ NoRequest.seen = NoRow
  BY NothingOpen DEF NoWork
<1>2. \A i \in ReminderIds : Holders(i) = {} /\ ~Exists(i) /\ delivered[i] = 0
  BY <1>1 DEF Init, Holders, Exists
<1>3. IdleHoldsNothing /\ WantsKeepCount
  BY <1>1 DEF Init, IdleHoldsNothing, WantsKeepCount
<1>4. QED
  BY <1>2, <1>3, InitSchedule, FS_EmptySet DEF HoldInv, WithinAttempts

\* The messages a client got of a reminder and those that executions may still
\* send are within SendTries for each of its attempts, for any number of requests
\* and executions that overlap, lose their lease, send again, report twice or
\* vanish, until a request starts the reminder over.
THEOREM DeliveriesAreCounted == Spec => DeliveriesCounted
<1>1. Init => HoldInv /\ \A i \in ReminderIds : WithinAttempts(i)
  BY InitCounts
<1>2. HoldInv /\ [Next]_vars => HoldInv'
  BY NextCounts
<1>3. HoldInv /\ [Next]_vars
        => [\A i \in ReminderIds : WithinAttempts(i) /\ ~StartsOver(i) => WithinAttempts(i)']_vars
  BY NextCounts DEF CountStep
<1>4. QED
  BY <1>1, <1>2, <1>3, PTL DEF Spec, DeliveriesCounted

\* As long as overlap is FALSE a step leaves at most one request open.
LEMMA AloneUnlessOverlap ==
    ASSUME OutboxInv, [Next]_vars, ~overlap'
    PROVE  ~overlap /\ (Alone => Alone')
<1>1. TypeOK
  BY DEF OutboxInv
<1>2. ASSUME NEW q \in Requests, StartRequest(q)
      PROVE  ~overlap /\ (Alone => Alone')
  <2>1. PICK op \in AllOps, id \in Appointments, row \in Appointment : Load(q, op, id, row)
    BY <1>2, StartLoads
  <2>2. ~overlap /\ \A u \in Requests : request[u].step = "closed"
    BY <2>1 DEF Load
  <2>3. \A u \in Requests \ {q} : request'[u] = request[u]
    BY <1>1, <2>1 DEF Load, TypeOK
  <2>4. QED
    BY <2>2, <2>3 DEF Alone
<1>3. ASSUME NEW q \in Requests, FlushRequest(q)
      PROVE  ~overlap /\ (Alone => Alone')
  <2>1. PICK skip, rid, seen, want : Flush(q, skip, rid, seen, want)
    BY <1>3, FlushDecides
  <2>2. request[q].step = "loaded"
    BY <1>3, FlushDecides
  <2>3. overlap' = overlap /\ \A u \in Requests \ {q} : request'[u] = request[u]
    BY <1>1, <2>1, FlushStep
  <2>4. QED
    BY <2>2, <2>3 DEF Alone
<1>4. ASSUME NEW q \in Requests, CommitRequest(q) \/ AbortRequest(q)
      PROVE  ~overlap /\ (Alone => Alone')
  <2>1. End(q) /\ overlap' = overlap
    BY <1>4 DEF CommitRequest, AbortRequest, history
  <2>2. \A u \in Requests : request'[u].step # "closed" => request[u].step # "closed"
    BY <1>1, <2>1, EndEmpties, NothingOpen
  <2>3. QED
    BY <2>1, <2>2 DEF Alone
<1>5. ASSUME request' = request, overlap' = overlap
      PROVE  ~overlap /\ (Alone => Alone')
  BY <1>5 DEF Alone
<1>6. CASE Tick \/ UNCHANGED vars
  BY <1>5, <1>6 DEF Tick, vars, history
<1>7. QED
  BY <1>2, <1>3, <1>4, <1>5, <1>6, WorkerLeaves DEF Next

\* Until two requests are open at once, what waits is current, whatever the
\* executions do meanwhile.
THEOREM WaitingStaysWhileAlone == Spec => []WaitingStaysCurrent
<1> DEFINE Inv == ~overlap => WaitingInv /\ Alone
<1>1. Init => Inv
  <2>1. Init => Alone
    BY NothingOpen DEF Init, Alone
  <2>2. QED
    BY <2>1, InitWaits DEF Init
<1>2. OutboxInv /\ Inv /\ [Next]_vars => Inv'
  <2>1. SUFFICES ASSUME OutboxInv, Inv, [Next]_vars, ~overlap'
                 PROVE  WaitingInv' /\ Alone'
    OBVIOUS
  <2>2. ~overlap /\ WaitingInv /\ Alone /\ Alone'
    BY <2>1, AloneUnlessOverlap
  <2>3. QED
    BY <2>1, <2>2, NextWaits
<1>3. Inv => WaitingStaysCurrent
  BY WaitingInvCurrent DEF WaitingStaysCurrent
<1>4. QED
  BY <1>1, <1>2, <1>3, OutboxSafe, PTL DEF Spec
=============================================================================
