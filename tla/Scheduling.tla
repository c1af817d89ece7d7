----------------------------- MODULE Scheduling -----------------------------
(***************************************************************************)
(* The appointment book of one business: AppointmentService and            *)
(* ScheduleBlockService working, one database transaction per HTTP request, *)
(* on the tables appointments and schedule_blocks.                         *)
(*                                                                         *)
(* A request is a READ COMMITTED transaction cut where another request can *)
(* get between two of its statements: it reads the row it works on, takes  *)
(* the advisory lock of the professional and looks for blocks under it,    *)
(* writes its row, and commits.  What it has written is seen by the others *)
(* only through the row lock and the exclusion constraints.                *)
(*                                                                         *)
(* Checks against data this module keeps constant (links, opening hours,   *)
(* slot alignment) are the constant Bookable; checks that depend on the    *)
(* clock or on the business settings can only refuse a request before it   *)
(* writes, which leaves the state as it was.                               *)
(***************************************************************************)
EXTENDS Integers

CONSTANTS
    Tx,                     \* request transactions that can be open at once
    AppointmentIds,         \* primary keys of appointments
    BlockIds,               \* primary keys of schedule_blocks
    Professionals,
    Services,
    Duration,               \* Services -> minutes (Service.duration_minutes)
    Bookable,               \* <<professional, service, start>> that pass validation
    Blockable,              \* [professional, start, end] a user asks to close
    ConfirmationRequired,   \* Business.appointment_confirmation_required
    NoRow,                  \* no such row in the table
    NoTx,                   \* nobody holds the advisory lock
    NoId                    \* an idle transaction works on no row

ASSUME DurationAssumption == Duration \in [Services -> Nat \ {0}]
ASSUME BookableAssumption == Bookable \subseteq Professionals \X Services \X Int
ASSUME BlockableAssumption ==
    /\ Blockable \subseteq [professional: Professionals, start: Int, end: Int]
    /\ \A p \in Blockable : p.start < p.end
ASSUME ConfirmationAssumption == ConfirmationRequired \in BOOLEAN

AppointmentStatus == {"scheduled", "canceled", "completed"}
BlockStatus == {"active", "canceled"}

Appointment == [professional: Professionals, service: Services,
                start: Int, end: Int,
                status: AppointmentStatus, confirmation_pending: BOOLEAN]

ScheduleBlock == [professional: Professionals, start: Int, end: Int,
                  status: BlockStatus]

ASSUME NullAssumption ==
    /\ NoRow \notin Appointment /\ NoRow \notin ScheduleBlock
    /\ NoTx \notin Tx
    /\ NoId \notin AppointmentIds /\ NoId \notin BlockIds
    /\ AppointmentIds \cap BlockIds = {}

AppointmentOps == {"create", "update", "complete", "confirm", "cancel", "delete"}
BlockOps == {"create_block", "cancel_block"}

VARIABLES
    appointments,       \* committed rows of appointments
    blocks,             \* committed rows of schedule_blocks
    schedule_lock,      \* holder of each professional's advisory lock
    tx                  \* progress of each open transaction

vars == <<appointments, blocks, schedule_lock, tx>>

\* A transaction: where it stands, its operation, the row it works on, that
\* row as it read it, and the row it wants to write ("commit": has written).
Transaction ==
    [pc: {"idle", "lock", "write", "commit", "unhandled"},
     op: AppointmentOps \cup BlockOps \cup {"none"},
     id: AppointmentIds \cup BlockIds \cup {NoId},
     seen: Appointment \cup ScheduleBlock \cup {NoRow},
     row: Appointment \cup ScheduleBlock \cup {NoRow}]

Idle == [pc |-> "idle", op |-> "none", id |-> NoId, seen |-> NoRow, row |-> NoRow]

TypeOK ==
    /\ appointments \in [AppointmentIds -> Appointment \cup {NoRow}]
    /\ blocks \in [BlockIds -> ScheduleBlock \cup {NoRow}]
    /\ schedule_lock \in [Professionals -> Tx \cup {NoTx}]
    /\ tx \in [Tx -> Transaction]

-----------------------------------------------------------------------------
(* Rows *)

\* Mutation of Overlaps: only what starts inside r is seen.
OverlapsOneSided(r, s) ==
    /\ r.professional = s.professional
    /\ r.start <= s.start
    /\ s.start < r.end

\* Half-open ranges of one professional that share a minute.
Overlaps(r, s) ==
    /\ r.professional = s.professional
    /\ r.start < s.end
    /\ s.start < r.end

Scheduled(r) == r # NoRow /\ r.status = "scheduled"
Active(r) == r # NoRow /\ r.status = "active"

\* The appointment that _validate_appointment allows: it ends one service
\* duration after its start.
Booking(p, s, begin, status, pending) ==
    [professional |-> p, service |-> s, start |-> begin,
     end |-> begin + Duration[s], status |-> status,
     confirmation_pending |-> pending]

\* Mutation of MergeAppointment: the UPDATE writes every column.
WholeRow(want, seen, current) == want

\* The ORM's UPDATE names only the columns whose value differs from the one
\* it loaded; every other column keeps what is in the table by then.
Column(want, seen, current) == IF want # seen THEN want ELSE current

MergeAppointment(want, seen, current) ==
    [professional |-> Column(want.professional, seen.professional, current.professional),
     service |-> Column(want.service, seen.service, current.service),
     start |-> Column(want.start, seen.start, current.start),
     end |-> Column(want.end, seen.end, current.end),
     status |-> Column(want.status, seen.status, current.status),
     confirmation_pending |-> Column(want.confirmation_pending,
                                     seen.confirmation_pending,
                                     current.confirmation_pending)]

-----------------------------------------------------------------------------
(* The database: row locks, exclusion constraints, end of a transaction *)

HasWritten(t) == tx[t].pc = "commit"

\* Another transaction holds the row lock of id.
RowLocked(t, id) == \E u \in Tx \ {t} : HasWritten(u) /\ tx[u].id = id

\* Mutation of AppointmentRivals: only the committed row with the very same
\* start is refused, as by a unique index.
SameStartRivals(id, r) ==
    {i \in AppointmentIds \ {id} : /\ Scheduled(r) /\ Scheduled(appointments[i])
                                   /\ r.professional = appointments[i].professional
                                   /\ r.start = appointments[i].start}

\* Committed rows that the exclusion constraint ex_appointments_... refuses
\* next to r, and the same for rows still uncommitted.
AppointmentRivals(id, r) ==
    {i \in AppointmentIds \ {id} : /\ Scheduled(r) /\ Scheduled(appointments[i])
                                   /\ Overlaps(r, appointments[i])}

UncommittedAppointmentRivals(t, r) ==
    {u \in Tx \ {t} : /\ HasWritten(u) /\ tx[u].op \in AppointmentOps
                      /\ Scheduled(r) /\ Scheduled(tx[u].row)
                      /\ Overlaps(r, tx[u].row)}

BlockRivals(id, r) ==
    {b \in BlockIds \ {id} : /\ Active(r) /\ Active(blocks[b])
                             /\ Overlaps(r, blocks[b])}

UncommittedBlockRivals(t, r) ==
    {u \in Tx \ {t} : /\ HasWritten(u) /\ tx[u].op \in BlockOps
                      /\ Active(r) /\ Active(tx[u].row)
                      /\ Overlaps(r, tx[u].row)}

\* Mutation of End: the advisory lock is one of the session, not of the
\* transaction (pg_advisory_lock), and stays.
EndKeepingLock(t) ==
    /\ tx' = [tx EXCEPT ![t] = Idle]
    /\ UNCHANGED schedule_lock

\* The transaction ends, by COMMIT or ROLLBACK, and its locks with it.
End(t) ==
    /\ tx' = [tx EXCEPT ![t] = Idle]
    /\ schedule_lock' = [p \in Professionals |->
                            IF schedule_lock[p] = t THEN NoTx ELSE schedule_lock[p]]

Rollback(t) == End(t) /\ UNCHANGED <<appointments, blocks>>

Goto(t, pc) ==
    /\ tx' = [tx EXCEPT ![t].pc = pc]
    /\ UNCHANGED <<appointments, blocks, schedule_lock>>

Begin(t, pc, op, id, seen, row) ==
    /\ tx[t].pc = "idle"
    /\ tx' = [tx EXCEPT ![t] = [pc |-> pc, op |-> op, id |-> id,
                                seen |-> seen, row |-> row]]
    /\ UNCHANGED <<appointments, blocks, schedule_lock>>

\* The key a new row will get: one that no row and no open insert uses.
FreshId(id) == \A u \in Tx : tx[u].id # id

-----------------------------------------------------------------------------
(* AppointmentService: reading and validating the request *)

\* create: _validate_appointment up to the lock, and the row to insert.
CreateAppointment(t) ==
    \E id \in AppointmentIds, b \in Bookable :
        /\ appointments[id] = NoRow /\ FreshId(id)
        /\ Begin(t, "lock", "create", id, NoRow,
                 Booking(b[1], b[2], b[3], "scheduled", ConfirmationRequired))

\* update: the row is read and its status checked before the lock is taken;
\* fields the request leaves out keep the values just read.
UpdateAppointment(t) ==
    \E id \in AppointmentIds, b \in Bookable :
        LET seen == appointments[id] IN
        /\ Scheduled(seen)
        /\ Begin(t, "lock", "update", id, seen,
                 Booking(b[1], b[2], b[3], seen.status, seen.confirmation_pending))

CompleteAppointment(t) ==
    \E id \in AppointmentIds :
        LET seen == appointments[id] IN
        /\ Scheduled(seen) /\ ~seen.confirmation_pending
        /\ Begin(t, "write", "complete", id, seen,
                 [seen EXCEPT !.status = "completed"])

ConfirmAppointment(t) ==
    \E id \in AppointmentIds :
        LET seen == appointments[id] IN
        /\ Scheduled(seen)
        /\ Begin(t, "write", "confirm", id, seen,
                 [seen EXCEPT !.confirmation_pending = FALSE])

\* cancel and delete differ in the client policy (a refusal) and in the
\* reason left on the reminders.
CancelAppointment(t) ==
    \E id \in AppointmentIds, op \in {"cancel", "delete"} :
        LET seen == appointments[id] IN
        /\ Scheduled(seen)
        /\ Begin(t, "write", op, id, seen, [seen EXCEPT !.status = "canceled"])

\* AppointmentNotFoundError, AppointmentAlreadyCanceledError and
\* AppointmentAlreadyCompletedError leave everything as it was.
RefuseAppointment(t) ==
    /\ tx[t].pc = "idle"
    /\ \E id \in AppointmentIds : ~Scheduled(appointments[id])
    /\ UNCHANGED vars

-----------------------------------------------------------------------------
(* ScheduleBlockService: reading and validating the request *)

CreateBlock(t) ==
    \E id \in BlockIds, p \in Blockable :
        /\ blocks[id] = NoRow /\ FreshId(id)
        /\ Begin(t, "lock", "create_block", id, NoRow,
                 [professional |-> p.professional, start |-> p.start,
                  end |-> p.end, status |-> "active"])

CancelBlock(t) ==
    \E id \in BlockIds :
        LET seen == blocks[id] IN
        /\ Active(seen)
        /\ Begin(t, "write", "cancel_block", id, seen,
                 [seen EXCEPT !.status = "canceled"])

-----------------------------------------------------------------------------
(* Under the advisory lock *)

\* What the transaction looks for once it holds the lock: a booking must not
\* meet an active block; a block must meet neither a booking nor a block.
MeetsBlock(r) == \E b \in BlockIds : Active(blocks[b]) /\ Overlaps(r, blocks[b])

MeetsAppointment(r) ==
    \E a \in AppointmentIds : Scheduled(appointments[a]) /\ Overlaps(r, appointments[a])

Blocked(t) ==
    \/ MeetsBlock(tx[t].row)
    \/ tx[t].op = "create_block" /\ MeetsAppointment(tx[t].row)

\* Mutation of LockSchedule: the queries run without waiting for the lock.
CheckWithoutLock(t) ==
    /\ tx[t].pc = "lock"
    /\ IF Blocked(t) THEN Rollback(t) ELSE Goto(t, "write")

\* acquire_schedule_lock, then the queries made under it: a waiting request
\* passes when the holder's transaction ends.
LockSchedule(t) ==
    LET p == tx[t].row.professional IN
    /\ tx[t].pc = "lock"
    /\ schedule_lock[p] = NoTx
    /\ \/ Blocked(t) /\ Rollback(t)
       \/ /\ ~Blocked(t)
          /\ schedule_lock' = [schedule_lock EXCEPT ![p] = t]
          /\ tx' = [tx EXCEPT ![t].pc = "write"]
          /\ UNCHANGED <<appointments, blocks>>

-----------------------------------------------------------------------------
(* Writing the row: INSERT or UPDATE, checked by the exclusion constraint *)

Write(t, row) ==
    /\ tx' = [tx EXCEPT ![t].pc = "commit", ![t].row = row]
    /\ UNCHANGED <<appointments, blocks, schedule_lock>>

\* _flush_or_raise_conflict turns the violation into AppointmentTimeConflictError.
InsertAppointment(t) ==
    LET row == tx[t].row IN
    /\ tx[t].pc = "write" /\ tx[t].op = "create"
    /\ \/ /\ AppointmentRivals(tx[t].id, row) = {}
          /\ UncommittedAppointmentRivals(t, row) = {}
          /\ Write(t, row)
       \/ /\ \E i \in AppointmentRivals(tx[t].id, row) : ~RowLocked(t, i)
          /\ Rollback(t)

\* In update the UPDATE is sent by the autoflush of the first query on the
\* reminders; only when no such query runs does it wait for the commit that
\* _commit_or_raise_conflict guards.
FlushedByQuery(t) ==
    \/ tx[t].row.start # tx[t].seen.start
    \/ ~tx[t].row.confirmation_pending

WriteAppointment(t) ==
    LET want == tx[t].row
        row  == MergeAppointment(want, tx[t].seen, appointments[tx[t].id]) IN
    /\ tx[t].pc = "write" /\ tx[t].op \in AppointmentOps \ {"create"}
    /\ want # tx[t].seen
    /\ ~RowLocked(t, tx[t].id)
    /\ \/ /\ AppointmentRivals(tx[t].id, row) = {}
          /\ UncommittedAppointmentRivals(t, row) = {}
          /\ Write(t, row)
       \/ /\ \E i \in AppointmentRivals(tx[t].id, row) : ~RowLocked(t, i)
          /\ IF FlushedByQuery(t) THEN Goto(t, "unhandled") ELSE Rollback(t)

\* Nothing changed in the session: no UPDATE is sent.
WriteNothing(t) ==
    /\ tx[t].pc = "write" /\ tx[t].row = tx[t].seen
    /\ Rollback(t)

InsertBlock(t) ==
    LET row == tx[t].row IN
    /\ tx[t].pc = "write" /\ tx[t].op = "create_block"
    /\ \/ /\ BlockRivals(tx[t].id, row) = {}
          /\ UncommittedBlockRivals(t, row) = {}
          /\ Write(t, row)
       \/ /\ \E b \in BlockRivals(tx[t].id, row) : ~RowLocked(t, b)
          /\ Rollback(t)

WriteBlock(t) ==
    /\ tx[t].pc = "write" /\ tx[t].op = "cancel_block"
    /\ ~RowLocked(t, tx[t].id)
    /\ Write(t, [blocks[tx[t].id] EXCEPT !.status = tx[t].row.status])

-----------------------------------------------------------------------------
(* The end of a request *)

Commit(t) ==
    /\ tx[t].pc = "commit"
    /\ IF tx[t].op \in AppointmentOps
       THEN /\ appointments' = [appointments EXCEPT ![tx[t].id] = tx[t].row]
            /\ UNCHANGED blocks
       ELSE /\ blocks' = [blocks EXCEPT ![tx[t].id] = tx[t].row]
            /\ UNCHANGED appointments
    /\ End(t)

\* An IntegrityError no handler expects: the session closes, the client gets
\* the generic 500 answer.
FailUnhandled(t) == tx[t].pc = "unhandled" /\ Rollback(t)

\* The worker dies or loses its connection before COMMIT.
Crash(t) == tx[t].pc # "idle" /\ Rollback(t)

Request(t) ==
    \/ CreateAppointment(t) \/ UpdateAppointment(t) \/ CompleteAppointment(t)
    \/ ConfirmAppointment(t) \/ CancelAppointment(t) \/ RefuseAppointment(t)
    \/ CreateBlock(t) \/ CancelBlock(t)

Progress(t) ==
    \/ LockSchedule(t)
    \/ InsertAppointment(t) \/ WriteAppointment(t) \/ WriteNothing(t)
    \/ InsertBlock(t) \/ WriteBlock(t)
    \/ Commit(t) \/ FailUnhandled(t)

Init ==
    /\ appointments = [id \in AppointmentIds |-> NoRow]
    /\ blocks = [id \in BlockIds |-> NoRow]
    /\ schedule_lock = [p \in Professionals |-> NoTx]
    /\ tx = [t \in Tx |-> Idle]

Next == \E t \in Tx : Request(t) \/ Progress(t) \/ Crash(t)

Spec == Init /\ [][Next]_vars

\* PostgreSQL grants locks in the order they were asked for, so a request that
\* can go on again and again does go on; nothing is assumed of clients.
FairSpec == Spec /\ \A t \in Tx : SF_vars(Progress(t))

\* The same program with clients that never edit one appointment from two
\* requests at once (the admin form and the WhatsApp flow take turns).
OneEditorPerAppointment ==
    \A t, u \in Tx : t # u /\ tx[t].op = "update" /\ tx[u].op = "update"
                        => tx[t].id # tx[u].id

SerialSpec == Init /\ [][Next /\ OneEditorPerAppointment']_vars

-----------------------------------------------------------------------------
(* Properties *)

\* No professional has two scheduled appointments that share a minute, however
\* creations, moves and cancellations interleave: the exclusion constraint of
\* the appointments table judges the row as merged, not as asked for.
NoDoubleBooking ==
    \A i, j \in AppointmentIds :
        i # j /\ Scheduled(appointments[i]) /\ Scheduled(appointments[j])
          => \/ appointments[i].professional # appointments[j].professional
             \/ appointments[i].end <= appointments[j].start
             \/ appointments[j].end <= appointments[i].start

\* No professional has two active blocks that share a minute.
BlocksDisjoint ==
    \A b, c \in BlockIds :
        b # c /\ Active(blocks[b]) /\ Active(blocks[c])
          => \/ blocks[b].professional # blocks[c].professional
             \/ blocks[b].end <= blocks[c].start
             \/ blocks[c].end <= blocks[b].start

\* Nobody is booked into closed time: a scheduled appointment and an active
\* block of one professional never share a minute.  No constraint spans the two
\* tables; only the advisory lock and the queries under it keep them apart.
BlockedTimeFree ==
    \A a \in AppointmentIds, b \in BlockIds :
        Scheduled(appointments[a]) /\ Active(blocks[b])
          => \/ appointments[a].professional # blocks[b].professional
             \/ appointments[a].end <= blocks[b].start
             \/ blocks[b].end <= appointments[a].start

\* A canceled or completed appointment is never scheduled again, although
\* update, confirm, complete and cancel all check the status long before they
\* write: the UPDATE must not carry a status column the request did not change.
ClosedStaysClosed ==
    [][\A id \in AppointmentIds :
         appointments[id] # NoRow /\ appointments[id].status # "scheduled"
           => appointments'[id].status # "scheduled"]_vars

\* A confirmation is not lost: no request that read the appointment before the
\* confirmation makes it pending again.
ConfirmationKept ==
    [][\A id \in AppointmentIds :
         appointments[id] # NoRow /\ ~appointments[id].confirmation_pending
           => ~appointments'[id].confirmation_pending]_vars

\* Every request ends: waiting for advisory locks, row locks and uncommitted
\* rivals never becomes a circle, and no lock survives its transaction.
RequestsEnd == \A t \in Tx : tx[t].pc # "idle" ~> tx[t].pc = "idle"

\* What a completed appointment is for the API: "Agendamento ja concluido e nao
\* pode ser alterado!" (it can no longer be changed).
CompletedIsFinal ==
    [][\A id \in AppointmentIds :
         appointments[id] # NoRow /\ appointments[id].status = "completed"
           => appointments'[id] = appointments[id]]_vars

\* The PUT route handles AppointmentTimeConflictError (409): the overlap found
\* by the database is never left to the generic 500 handler.
ConflictReported == \A t \in Tx : tx[t].pc # "unhandled"
=============================================================================
