-------------------------- MODULE SchedulingProofs --------------------------
(***************************************************************************)
(* What holds of Scheduling for any number of requests, professionals,      *)
(* appointments and blocks. First, type correctness and the safety of the   *)
(* appointment table: no double booking, no lost status and no lost         *)
(* confirmation. Then what the advisory lock is for: blocks never meet each *)
(* other, bookings never meet blocks, and the committed tables change as    *)
(* the agenda of Calendar does.                                             *)
(***************************************************************************)
EXTENDS SchedulingRefinement, TLAPS

-----------------------------------------------------------------------------
(* The operators on rows *)

\* A validated booking is a row of the appointments table.
LEMMA BookingType ==
    ASSUME NEW b \in Bookable, NEW status \in AppointmentStatus, NEW pending \in BOOLEAN
    PROVE  Booking(b[1], b[2], b[3], status, pending) \in Appointment
<1>1. b \in Professionals \X Services \X Int
    BY BookableAssumption
<1>2. b[1] \in Professionals /\ b[2] \in Services /\ b[3] \in Int
    BY <1>1
<1>3. b[3] + Duration[b[2]] \in Int
    BY <1>2, DurationAssumption
<1> QED
    BY <1>2, <1>3 DEF Booking, Appointment

\* Merging rows column by column gives a row.
LEMMA MergeType ==
    ASSUME NEW want \in Appointment, NEW seen \in Appointment, NEW current \in Appointment
    PROVE  MergeAppointment(want, seen, current) \in Appointment
BY DEF MergeAppointment, Column, Appointment

\* Sharing a minute is symmetric.
LEMMA OverlapsSymmetric ==
    ASSUME NEW r, NEW s
    PROVE  Overlaps(r, s) <=> Overlaps(s, r)
BY DEF Overlaps

\* Two appointments that do not overlap are apart, as NoDoubleBooking says it.
LEMMA ApartWhenNotOverlapping ==
    ASSUME NEW r \in Appointment, NEW s \in Appointment, ~Overlaps(r, s)
    PROVE  \/ r.professional # s.professional
           \/ r.end <= s.start
           \/ s.end <= r.start
BY DEF Overlaps, Appointment

\* The merged status and confirmation move forward from the committed ones.
LEMMA MergeMovesForward ==
    ASSUME NEW want \in Appointment, NEW seen \in Appointment, NEW current \in Appointment,
           want.status = seen.status \/ want.status # "scheduled",
           want.confirmation_pending = seen.confirmation_pending
             \/ want.confirmation_pending = FALSE
    PROVE  LET row == MergeAppointment(want, seen, current) IN
           /\ row.status = current.status \/ row.status # "scheduled"
           /\ row.confirmation_pending = current.confirmation_pending
                \/ row.confirmation_pending = FALSE
BY DEF MergeAppointment, Column, Appointment

-----------------------------------------------------------------------------
(* Shapes of a step *)

\* The end of a transaction that changes no table.
LEMMA RollbackKeepsIInv ==
    ASSUME IInv, NEW t \in Tx, Rollback(t)
    PROVE  IInv'
<1> USE DEF IInv
<1>1. /\ tx' = [tx EXCEPT ![t] = Idle]
      /\ UNCHANGED <<appointments, blocks>>
    BY DEF Rollback, End
<1>2. /\ tx'[t] = Idle
      /\ \A u \in Tx \ {t} : tx'[u] = tx[u]
    BY <1>1 DEF TypeOK
<1>3. TypeOK'
  <2>1. Idle \in Transaction
      BY DEF Idle, Transaction
  <2>2. schedule_lock' \in [Professionals -> Tx \cup {NoTx}]
      BY DEF Rollback, End, TypeOK
  <2> QED
      BY <1>1, <2>1, <2>2 DEF TypeOK
<1>4. Carries'
    BY <1>1, <1>2, NullAssumption DEF Carries, Idle, AppointmentOps, BlockOps
<1>5. InsertsAlone'
    BY <1>1, <1>2, NullAssumption DEF InsertsAlone, Carries, Idle, AppointmentOps
<1>6. RowLocksExclude'
    BY <1>1, <1>2 DEF RowLocksExclude, HasWritten, Idle
<1>7. WrittenFits'
    BY <1>1, <1>2 DEF WrittenFits, Pending, HasWritten, Idle
<1>8. MovesForward'
    BY <1>1, <1>2 DEF MovesForward, HasWritten, Idle, AppointmentOps
<1>9. NoDoubleBooking'
    BY <1>1 DEF NoDoubleBooking
<1> QED
    BY <1>3, <1>4, <1>5, <1>6, <1>7, <1>8, <1>9

\* The first step of a request: what it carries fits its table, and the row
\* it works on is either still free or the committed one.
LEMMA BeginKeepsIInv ==
    ASSUME IInv, NEW t \in Tx, NEW pc \in {"lock", "write"},
           NEW op \in AppointmentOps \cup BlockOps, NEW id, NEW seen, NEW row,
           Begin(t, pc, op, id, seen, row),
           op \in AppointmentOps => id \in AppointmentIds /\ row \in Appointment,
           op \in BlockOps => id \in BlockIds /\ row \in ScheduleBlock,
           op \in {"create", "create_block"} => seen = NoRow,
           op = "create" => appointments[id] = NoRow /\ FreshId(id),
           op \in AppointmentOps \ {"create"} =>
              /\ seen \in Appointment /\ appointments[id] = seen
              /\ row.status = seen.status \/ row.status # "scheduled"
              /\ row.confirmation_pending = seen.confirmation_pending
                   \/ row.confirmation_pending = FALSE,
           op = "cancel_block" => seen \in ScheduleBlock /\ blocks[id] = seen
    PROVE  IInv'
<1> USE DEF IInv
<1> DEFINE r == [pc |-> pc, op |-> op, id |-> id, seen |-> seen, row |-> row]
<1>1. /\ tx' = [tx EXCEPT ![t] = r]
      /\ UNCHANGED <<appointments, blocks, schedule_lock>>
    BY DEF Begin
<1>2. /\ tx'[t] = r
      /\ \A u \in Tx \ {t} : tx'[u] = tx[u]
    BY <1>1 DEF TypeOK
<1>3. TypeOK'
  <2>1. id \in AppointmentIds \cup BlockIds
      BY DEF AppointmentOps, BlockOps
  <2>2. row \in Appointment \cup ScheduleBlock
      BY DEF AppointmentOps, BlockOps
  <2>3. seen \in Appointment \cup ScheduleBlock \cup {NoRow}
      BY DEF AppointmentOps, BlockOps
  <2>4. r \in Transaction
      BY <2>1, <2>2, <2>3 DEF Transaction
  <2> QED
      BY <1>1, <2>4 DEF TypeOK
<1>4. Carries'
    BY <1>1, <1>2, NullAssumption DEF Carries, AppointmentOps, BlockOps
<1>5. InsertsAlone'
    BY <1>1, <1>2, NullAssumption DEF InsertsAlone, Carries, FreshId, AppointmentOps, BlockOps
<1>6. RowLocksExclude'
    BY <1>1, <1>2 DEF RowLocksExclude, HasWritten
<1>7. WrittenFits'
    BY <1>1, <1>2 DEF WrittenFits, Pending, HasWritten
<1>8. MovesForward'
    BY <1>1, <1>2 DEF MovesForward, HasWritten, AppointmentOps
<1>9. NoDoubleBooking'
    BY <1>1 DEF NoDoubleBooking
<1> QED
    BY <1>3, <1>4, <1>5, <1>6, <1>7, <1>8, <1>9

\* A step of the program counter alone, before the row is written.
LEMMA GotoKeepsIInv ==
    ASSUME IInv, NEW t \in Tx, tx[t].pc \in {"lock", "write"},
           NEW pc \in {"write", "unhandled"},
           tx' = [tx EXCEPT ![t].pc = pc],
           schedule_lock' \in [Professionals -> Tx \cup {NoTx}],
           UNCHANGED <<appointments, blocks>>
    PROVE  IInv'
<1> USE DEF IInv
<1>1. /\ tx[t] \in Transaction
      /\ tx'[t] = [tx[t] EXCEPT !.pc = pc]
      /\ \A u \in Tx \ {t} : tx'[u] = tx[u]
    BY DEF TypeOK
<1>2. /\ tx'[t].pc = pc /\ tx'[t].op = tx[t].op /\ tx'[t].id = tx[t].id
      /\ tx'[t].seen = tx[t].seen /\ tx'[t].row = tx[t].row
    BY <1>1 DEF Transaction
<1>3. TypeOK'
  <2>1. [tx[t] EXCEPT !.pc = pc] \in Transaction
      BY <1>1 DEF Transaction
  <2> QED
      BY <2>1 DEF TypeOK
<1>4. Carries'
    BY <1>1, <1>2 DEF Carries
<1>5. InsertsAlone'
    BY <1>1, <1>2 DEF InsertsAlone
<1>6. RowLocksExclude'
    BY <1>1, <1>2 DEF RowLocksExclude, HasWritten
<1>7. WrittenFits'
    BY <1>1, <1>2 DEF WrittenFits, Pending, HasWritten
<1>8. MovesForward'
    BY <1>1, <1>2 DEF MovesForward, HasWritten
<1>9. NoDoubleBooking'
    BY DEF NoDoubleBooking
<1> QED
    BY <1>3, <1>4, <1>5, <1>6, <1>7, <1>8, <1>9

\* Writing an appointment row that the exclusion constraint lets pass.
LEMMA WriteAppointmentRowKeepsIInv ==
    ASSUME IInv, NEW t \in Tx, tx[t].pc = "write", tx[t].op \in AppointmentOps,
           NEW row \in Appointment, Write(t, row),
           ~RowLocked(t, tx[t].id),
           AppointmentRivals(tx[t].id, row) = {},
           UncommittedAppointmentRivals(t, row) = {},
           tx[t].op # "create" =>
              LET current == appointments[tx[t].id] IN
              /\ row.status = current.status \/ row.status # "scheduled"
              /\ row.confirmation_pending = current.confirmation_pending
                   \/ row.confirmation_pending = FALSE
    PROVE  IInv'
<1> USE DEF IInv
<1>1. /\ tx[t] \in Transaction
      /\ tx'[t] = [tx[t] EXCEPT !.pc = "commit", !.row = row]
      /\ \A u \in Tx \ {t} : tx'[u] = tx[u]
      /\ UNCHANGED <<appointments, blocks, schedule_lock>>
    BY DEF TypeOK, Write
<1>2. /\ tx'[t].pc = "commit" /\ tx'[t].op = tx[t].op /\ tx'[t].id = tx[t].id
      /\ tx'[t].seen = tx[t].seen /\ tx'[t].row = row
    BY <1>1 DEF Transaction
<1>3. \A u \in Tx : /\ tx'[u].op = tx[u].op /\ tx'[u].id = tx[u].id
                    /\ tx'[u].seen = tx[u].seen
                    /\ u # t => tx'[u].pc = tx[u].pc /\ tx'[u].row = tx[u].row
    BY <1>1, <1>2
<1>4. appointments' = appointments /\ blocks' = blocks
    BY <1>1
<1>5. TypeOK'
  <2>1. [tx[t] EXCEPT !.pc = "commit", !.row = row] \in Transaction
      BY <1>1 DEF Transaction
  <2> QED
      BY <1>1, <2>1 DEF TypeOK, Write
<1>6. Carries'
    BY <1>2, <1>3, <1>4 DEF Carries, AppointmentOps, BlockOps
<1>7. InsertsAlone'
    BY <1>2, <1>3, <1>4 DEF InsertsAlone
<1>8. RowLocksExclude'
    BY <1>2, <1>3, <1>4 DEF RowLocksExclude, RowLocked, HasWritten
<1>9. WrittenFits'
  <2>1. ASSUME Scheduled(row), NEW i \in AppointmentIds \ {tx[t].id},
               Scheduled(appointments[i])
        PROVE  ~Overlaps(row, appointments[i])
      BY <2>1 DEF AppointmentRivals
  <2>2. ASSUME Scheduled(row), NEW u \in Tx \ {t}, Pending(u)
        PROVE  ~Overlaps(row, tx[u].row) /\ ~Overlaps(tx[u].row, row)
      BY <2>2, OverlapsSymmetric DEF UncommittedAppointmentRivals, Pending
  <2>3. \A u \in Tx \ {t} : Pending(u)' = Pending(u)
      BY <1>1 DEF Pending, HasWritten
  <2>4. Pending(t)' => Scheduled(row)
      BY <1>2 DEF Pending
  <2> QED
      BY <1>2, <1>3, <1>4, <2>1, <2>2, <2>3, <2>4 DEF WrittenFits, Pending
<1>10. MovesForward'
    BY <1>2, <1>3, <1>4 DEF MovesForward, HasWritten
<1>11. NoDoubleBooking'
    BY <1>4 DEF NoDoubleBooking
<1> QED
    BY <1>5, <1>6, <1>7, <1>8, <1>9, <1>10, <1>11

\* Writing a block row.
LEMMA WriteBlockRowKeepsIInv ==
    ASSUME IInv, NEW t \in Tx, tx[t].pc = "write", tx[t].op \in BlockOps,
           NEW row \in ScheduleBlock, Write(t, row)
    PROVE  IInv'
<1> USE DEF IInv
<1>1. /\ tx[t] \in Transaction
      /\ tx'[t] = [tx[t] EXCEPT !.pc = "commit", !.row = row]
      /\ \A u \in Tx \ {t} : tx'[u] = tx[u]
      /\ UNCHANGED <<appointments, blocks, schedule_lock>>
    BY DEF TypeOK, Write
<1>2. /\ tx'[t].pc = "commit" /\ tx'[t].op = tx[t].op /\ tx'[t].id = tx[t].id
      /\ tx'[t].seen = tx[t].seen /\ tx'[t].row = row
    BY <1>1 DEF Transaction
<1>3. \A u \in Tx : /\ tx'[u].op = tx[u].op /\ tx'[u].id = tx[u].id
                    /\ tx'[u].seen = tx[u].seen
                    /\ u # t => tx'[u].pc = tx[u].pc /\ tx'[u].row = tx[u].row
    BY <1>1, <1>2
<1>4. appointments' = appointments /\ blocks' = blocks
    BY <1>1
<1>5. tx[t].op \notin AppointmentOps
    BY DEF AppointmentOps, BlockOps
<1>6. TypeOK'
  <2>1. [tx[t] EXCEPT !.pc = "commit", !.row = row] \in Transaction
      BY <1>1 DEF Transaction
  <2> QED
      BY <1>1, <2>1 DEF TypeOK, Write
<1>7. Carries'
    BY <1>2, <1>3, <1>4, <1>5 DEF Carries
<1>8. InsertsAlone'
    BY <1>2, <1>3, <1>4 DEF InsertsAlone
<1>9. RowLocksExclude'
    BY <1>2, <1>3, <1>4, <1>5 DEF RowLocksExclude, HasWritten
<1>10. WrittenFits'
    BY <1>2, <1>3, <1>4, <1>5 DEF WrittenFits, Pending, HasWritten
<1>11. MovesForward'
    BY <1>2, <1>3, <1>4, <1>5 DEF MovesForward, HasWritten
<1>12. NoDoubleBooking'
    BY <1>4 DEF NoDoubleBooking
<1> QED
    BY <1>6, <1>7, <1>8, <1>9, <1>10, <1>11, <1>12

\* COMMIT publishes the written appointment row.
LEMMA CommitAppointmentKeepsIInv ==
    ASSUME IInv, NEW t \in Tx, tx[t].pc = "commit", tx[t].op \in AppointmentOps, Commit(t)
    PROVE  IInv'
<1> USE DEF IInv
<1> DEFINE id == tx[t].id  row == tx[t].row
<1>1. /\ tx' = [tx EXCEPT ![t] = Idle]
      /\ appointments' = [appointments EXCEPT ![id] = row]
      /\ blocks' = blocks
    BY DEF Commit, End
<1>2. id \in AppointmentIds /\ row \in Appointment /\ row # NoRow
    BY NullAssumption DEF Carries
<1>3. /\ tx'[t] = Idle
      /\ \A u \in Tx \ {t} : tx'[u] = tx[u]
    BY <1>1 DEF TypeOK
<1>4. /\ appointments'[id] = row
      /\ \A i \in AppointmentIds \ {id} : appointments'[i] = appointments[i]
    BY <1>1, <1>2 DEF TypeOK
<1>5. TypeOK'
  <2>1. Idle \in Transaction
      BY DEF Idle, Transaction
  <2>2. schedule_lock' \in [Professionals -> Tx \cup {NoTx}]
      BY DEF Commit, End, TypeOK
  <2> QED
      BY <1>1, <1>2, <2>1, <2>2 DEF TypeOK
<1>6. Carries'
    BY <1>1, <1>2, <1>3, <1>4, NullAssumption DEF Carries, Idle, AppointmentOps, BlockOps
<1>7. InsertsAlone'
    BY <1>3, <1>4, NullAssumption DEF InsertsAlone, Carries, Idle, AppointmentOps
<1>8. RowLocksExclude'
    BY <1>3 DEF RowLocksExclude, HasWritten, Idle
<1>9. WrittenFits'
  <2>1. ASSUME NEW u \in Tx, Pending(u)'
        PROVE  u # t /\ Pending(u) /\ tx'[u] = tx[u]
      BY <2>1, <1>3 DEF Pending, HasWritten, Idle
  <2>2. ASSUME NEW u \in Tx, Pending(u)', NEW i \in AppointmentIds \ {tx'[u].id},
               Scheduled(appointments'[i])
        PROVE  ~Overlaps(tx'[u].row, appointments'[i])
    <3>1. CASE i = id
        BY <3>1, <2>1, <2>2, <1>2, <1>4 DEF WrittenFits, Pending, HasWritten
    <3>2. CASE i # id
        BY <3>2, <2>1, <2>2, <1>4 DEF WrittenFits
    <3> QED
        BY <3>1, <3>2
  <2> QED
      BY <2>1, <2>2 DEF WrittenFits
<1>10. MovesForward'
  <2> SUFFICES ASSUME NEW u \in Tx, tx'[u].op \in AppointmentOps \ {"create"}
               PROVE  LET r == tx'[u].row
                          from == IF HasWritten(u)' THEN appointments'[tx'[u].id]
                                                    ELSE tx'[u].seen
                      IN  /\ r.status = from.status \/ r.status # "scheduled"
                          /\ r.confirmation_pending = from.confirmation_pending
                               \/ r.confirmation_pending = FALSE
      BY DEF MovesForward
  <2>1. u # t /\ tx'[u] = tx[u]
      BY <1>3 DEF Idle, AppointmentOps
  <2>2. HasWritten(u) => tx[u].id # id
      BY <2>1 DEF RowLocksExclude, HasWritten
  <2>3. tx[u].id \in AppointmentIds
      BY <2>1 DEF Carries
  <2>4. HasWritten(u) => appointments'[tx[u].id] = appointments[tx[u].id]
      BY <2>2, <2>3, <1>4
  <2>5. HasWritten(u)' = HasWritten(u)
      BY <2>1 DEF HasWritten
  <2> QED
      BY <2>1, <2>4, <2>5 DEF MovesForward
<1>11. NoDoubleBooking'
  <2> SUFFICES ASSUME NEW i \in AppointmentIds, NEW j \in AppointmentIds, i # j,
                      Scheduled(appointments'[i]), Scheduled(appointments'[j])
               PROVE  \/ appointments'[i].professional # appointments'[j].professional
                      \/ appointments'[i].end <= appointments'[j].start
                      \/ appointments'[j].end <= appointments'[i].start
      BY DEF NoDoubleBooking
  <2>1. ASSUME Scheduled(row), NEW k \in AppointmentIds \ {id}, Scheduled(appointments[k])
        PROVE  /\ ~Overlaps(row, appointments[k])
               /\ ~Overlaps(appointments[k], row)
               /\ appointments[k] \in Appointment
      BY <2>1, OverlapsSymmetric DEF WrittenFits, Pending, HasWritten, TypeOK, Scheduled
  <2>2. CASE i = id
      BY <2>2, <2>1, <1>2, <1>4, ApartWhenNotOverlapping
  <2>3. CASE j = id
      BY <2>3, <2>1, <1>2, <1>4, ApartWhenNotOverlapping
  <2>4. CASE i # id /\ j # id
      BY <2>4, <1>4 DEF NoDoubleBooking
  <2> QED
      BY <2>2, <2>3, <2>4
<1> QED
    BY <1>5, <1>6, <1>7, <1>8, <1>9, <1>10, <1>11

\* COMMIT publishes the written block row.
LEMMA CommitBlockKeepsIInv ==
    ASSUME IInv, NEW t \in Tx, tx[t].pc = "commit", tx[t].op \notin AppointmentOps, Commit(t)
    PROVE  IInv'
<1> USE DEF IInv
<1> DEFINE id == tx[t].id  row == tx[t].row
<1>1. /\ tx' = [tx EXCEPT ![t] = Idle]
      /\ blocks' = [blocks EXCEPT ![id] = row]
      /\ appointments' = appointments
    BY DEF Commit, End
<1>2. id \in BlockIds /\ row \in ScheduleBlock /\ row # NoRow
    BY NullAssumption DEF Carries, TypeOK, Transaction
<1>3. /\ tx'[t] = Idle
      /\ \A u \in Tx \ {t} : tx'[u] = tx[u]
    BY <1>1 DEF TypeOK
<1>4. /\ blocks'[id] = row
      /\ \A b \in BlockIds \ {id} : blocks'[b] = blocks[b]
    BY <1>1, <1>2 DEF TypeOK
<1>5. TypeOK'
  <2>1. Idle \in Transaction
      BY DEF Idle, Transaction
  <2>2. schedule_lock' \in [Professionals -> Tx \cup {NoTx}]
      BY DEF Commit, End, TypeOK
  <2> QED
      BY <1>1, <1>2, <2>1, <2>2 DEF TypeOK
<1>6. Carries'
    BY <1>1, <1>2, <1>3, <1>4, NullAssumption DEF Carries, Idle, AppointmentOps, BlockOps
<1>7. InsertsAlone'
    BY <1>1, <1>3, NullAssumption DEF InsertsAlone, Carries, Idle, AppointmentOps
<1>8. RowLocksExclude'
    BY <1>3 DEF RowLocksExclude, HasWritten, Idle
<1>9. WrittenFits'
    BY <1>1, <1>3 DEF WrittenFits, Pending, HasWritten, Idle
<1>10. MovesForward'
    BY <1>1, <1>3 DEF MovesForward, HasWritten, Idle, AppointmentOps
<1>11. NoDoubleBooking'
    BY <1>1 DEF NoDoubleBooking
<1> QED
    BY <1>5, <1>6, <1>7, <1>8, <1>9, <1>10, <1>11

-----------------------------------------------------------------------------
(* Every action is one of these shapes *)

\* A request that edits an appointment starts from its committed row.
LEMMA BeginEditKeepsIInv ==
    ASSUME IInv, NEW t \in Tx, NEW pc \in {"lock", "write"},
           NEW op \in AppointmentOps \ {"create"},
           NEW id \in AppointmentIds, NEW row \in Appointment,
           Scheduled(appointments[id]),
           Begin(t, pc, op, id, appointments[id], row),
           row.status = appointments[id].status \/ row.status # "scheduled",
           row.confirmation_pending = appointments[id].confirmation_pending
             \/ row.confirmation_pending = FALSE
    PROVE  IInv'
<1>1. op \in AppointmentOps \cup BlockOps /\ op \notin BlockOps
      /\ op \notin {"create", "create_block", "cancel_block"}
    BY DEF AppointmentOps, BlockOps
<1>2. appointments[id] \in Appointment
    BY DEF IInv, TypeOK, Scheduled
<1> DEFINE seen == appointments[id]
<1>3. seen \in Appointment /\ Begin(t, pc, op, id, seen, row)
      /\ (row.status = seen.status \/ row.status # "scheduled")
      /\ (row.confirmation_pending = seen.confirmation_pending
            \/ row.confirmation_pending = FALSE)
    BY <1>2
<1> QED
    BY <1>1, <1>3, BeginKeepsIInv

\* The requests: what each reads is what the shape of a first step asks for.
LEMMA RequestKeepsIInv ==
    ASSUME IInv, NEW t \in Tx, Request(t)
    PROVE  IInv'
<1>1. ASSUME NEW id \in AppointmentIds, Scheduled(appointments[id])
      PROVE  /\ appointments[id] \in Appointment
             /\ appointments[id].status = "scheduled"
    BY <1>1 DEF IInv, TypeOK, Scheduled
<1>2. CASE CreateAppointment(t)
  <2>1. PICK id \in AppointmentIds, b \in Bookable :
            /\ appointments[id] = NoRow /\ FreshId(id)
            /\ Begin(t, "lock", "create", id, NoRow,
                     Booking(b[1], b[2], b[3], "scheduled", ConfirmationRequired))
      BY <1>2 DEF CreateAppointment
  <2>2. Booking(b[1], b[2], b[3], "scheduled", ConfirmationRequired) \in Appointment
      BY BookingType, ConfirmationAssumption DEF AppointmentStatus
  <2> QED
    <3> DEFINE row == Booking(b[1], b[2], b[3], "scheduled", ConfirmationRequired)
    <3>1. /\ "create" \in AppointmentOps \cup BlockOps
          /\ "create" \in AppointmentOps /\ "create" \notin BlockOps
          /\ "create" \notin AppointmentOps \ {"create"}
          /\ "create" # "cancel_block" /\ "lock" \in {"lock", "write"}
        BY DEF AppointmentOps, BlockOps
    <3>2. row \in Appointment /\ Begin(t, "lock", "create", id, NoRow, row)
        BY <2>1, <2>2
    <3> QED
        BY <2>1, <3>1, <3>2, BeginKeepsIInv
<1>3. CASE UpdateAppointment(t)
  <2>1. PICK id \in AppointmentIds, b \in Bookable :
            /\ Scheduled(appointments[id])
            /\ Begin(t, "lock", "update", id, appointments[id],
                     Booking(b[1], b[2], b[3], appointments[id].status,
                             appointments[id].confirmation_pending))
      BY <1>3 DEF UpdateAppointment
  <2> DEFINE row == Booking(b[1], b[2], b[3], appointments[id].status,
                            appointments[id].confirmation_pending)
  <2>2. /\ appointments[id].status \in AppointmentStatus
        /\ appointments[id].confirmation_pending \in BOOLEAN
      BY <2>1, <1>1 DEF Appointment
  <2>3. row \in Appointment
      BY <2>2, BookingType
  <2>4. /\ row.status = appointments[id].status
        /\ row.confirmation_pending = appointments[id].confirmation_pending
      BY DEF Booking
  <2> QED
      BY <2>1, <2>3, <2>4, <1>1, BeginEditKeepsIInv DEF AppointmentOps
<1>4. CASE CompleteAppointment(t)
  <2>1. PICK id \in AppointmentIds :
            /\ Scheduled(appointments[id])
            /\ Begin(t, "write", "complete", id, appointments[id],
                     [appointments[id] EXCEPT !.status = "completed"])
      BY <1>4 DEF CompleteAppointment
  <2> DEFINE row == [appointments[id] EXCEPT !.status = "completed"]
  <2>2. /\ row \in Appointment /\ row.status = "completed"
        /\ row.confirmation_pending = appointments[id].confirmation_pending
      BY <2>1, <1>1 DEF Appointment, AppointmentStatus
  <2> QED
      BY <2>1, <2>2, <1>1, BeginEditKeepsIInv DEF AppointmentOps
<1>5. CASE ConfirmAppointment(t)
  <2>1. PICK id \in AppointmentIds :
            /\ Scheduled(appointments[id])
            /\ Begin(t, "write", "confirm", id, appointments[id],
                     [appointments[id] EXCEPT !.confirmation_pending = FALSE])
      BY <1>5 DEF ConfirmAppointment
  <2> DEFINE row == [appointments[id] EXCEPT !.confirmation_pending = FALSE]
  <2>2. /\ row \in Appointment /\ row.status = appointments[id].status
        /\ row.confirmation_pending = FALSE
      BY <2>1, <1>1 DEF Appointment, AppointmentStatus
  <2> QED
      BY <2>1, <2>2, <1>1, BeginEditKeepsIInv DEF AppointmentOps
<1>6. CASE CancelAppointment(t)
  <2>1. PICK id \in AppointmentIds, op \in {"cancel", "delete"} :
            /\ Scheduled(appointments[id])
            /\ Begin(t, "write", op, id, appointments[id],
                     [appointments[id] EXCEPT !.status = "canceled"])
      BY <1>6 DEF CancelAppointment
  <2> DEFINE row == [appointments[id] EXCEPT !.status = "canceled"]
  <2>2. /\ row \in Appointment /\ row.status = "canceled"
        /\ row.confirmation_pending = appointments[id].confirmation_pending
      BY <2>1, <1>1 DEF Appointment, AppointmentStatus
  <2> QED
      BY <2>1, <2>2, <1>1, BeginEditKeepsIInv DEF AppointmentOps
<1>7. CASE CreateBlock(t)
  <2>1. PICK id \in BlockIds, p \in Blockable :
            Begin(t, "lock", "create_block", id, NoRow,
                  [professional |-> p.professional, start |-> p.start,
                   end |-> p.end, status |-> "active"])
      BY <1>7 DEF CreateBlock
  <2>2. [professional |-> p.professional, start |-> p.start,
         end |-> p.end, status |-> "active"] \in ScheduleBlock
      BY BlockableAssumption DEF ScheduleBlock, BlockStatus
  <2> DEFINE row == [professional |-> p.professional, start |-> p.start,
                     end |-> p.end, status |-> "active"]
  <2>3. row \in ScheduleBlock /\ Begin(t, "lock", "create_block", id, NoRow, row)
      BY <2>1, <2>2
  <2>4. /\ "create_block" \in AppointmentOps \cup BlockOps
        /\ "create_block" \in BlockOps /\ "create_block" \notin AppointmentOps
        /\ "create_block" \notin {"create", "cancel_block"}
        /\ "lock" \in {"lock", "write"}
      BY DEF AppointmentOps, BlockOps
  <2> QED
      BY <2>3, <2>4, BeginKeepsIInv
<1>8. CASE CancelBlock(t)
  <2>1. PICK id \in BlockIds :
            /\ Active(blocks[id])
            /\ Begin(t, "write", "cancel_block", id, blocks[id],
                     [blocks[id] EXCEPT !.status = "canceled"])
      BY <1>8 DEF CancelBlock
  <2>2. /\ blocks[id] \in ScheduleBlock
        /\ [blocks[id] EXCEPT !.status = "canceled"] \in ScheduleBlock
      BY <2>1 DEF IInv, TypeOK, Active, ScheduleBlock, BlockStatus
  <2> DEFINE seen == blocks[id]
             row == [seen EXCEPT !.status = "canceled"]
  <2>3. /\ seen \in ScheduleBlock /\ row \in ScheduleBlock
        /\ Begin(t, "write", "cancel_block", id, seen, row)
      BY <2>1, <2>2
  <2>4. /\ "cancel_block" \in AppointmentOps \cup BlockOps
        /\ "cancel_block" \in BlockOps /\ "cancel_block" \notin AppointmentOps
        /\ "cancel_block" \notin {"create", "create_block"}
        /\ "write" \in {"lock", "write"}
      BY DEF AppointmentOps, BlockOps
  <2> QED
      BY <2>3, <2>4, BeginKeepsIInv
<1>9. CASE RefuseAppointment(t)
    BY <1>9 DEF RefuseAppointment, vars, IInv, TypeOK, Carries, InsertsAlone, RowLocksExclude,
                WrittenFits, MovesForward, NoDoubleBooking, Pending, HasWritten
<1> QED
    BY <1>2, <1>3, <1>4, <1>5, <1>6, <1>7, <1>8, <1>9 DEF Request

\* The steps a request makes once it has read its row.
LEMMA ProgressKeepsIInv ==
    ASSUME IInv, NEW t \in Tx, Progress(t)
    PROVE  IInv'
<1>1. CASE LockSchedule(t)
  <2>1. CASE Rollback(t)
      BY <2>1, RollbackKeepsIInv
  <2>2. CASE /\ schedule_lock' = [schedule_lock EXCEPT ![tx[t].row.professional] = t]
             /\ tx' = [tx EXCEPT ![t].pc = "write"]
             /\ UNCHANGED <<appointments, blocks>>
    <3>1. schedule_lock' \in [Professionals -> Tx \cup {NoTx}]
        BY <2>2 DEF IInv, TypeOK
    <3> QED
        BY <1>1, <2>2, <3>1, GotoKeepsIInv DEF LockSchedule
  <2> QED
      BY <1>1, <2>1, <2>2 DEF LockSchedule
<1>2. CASE InsertAppointment(t)
  <2>1. CASE Rollback(t)
      BY <2>1, RollbackKeepsIInv
  <2>2. CASE /\ AppointmentRivals(tx[t].id, tx[t].row) = {}
             /\ UncommittedAppointmentRivals(t, tx[t].row) = {}
             /\ Write(t, tx[t].row)
    <3>1. tx[t].pc = "write" /\ tx[t].op = "create"
        BY <1>2 DEF InsertAppointment
    <3>2. tx[t].row \in Appointment
        BY <3>1 DEF IInv, Carries, AppointmentOps
    <3>3. ~RowLocked(t, tx[t].id)
        BY <3>1 DEF IInv, InsertsAlone, RowLocked
    <3> QED
        BY <2>2, <3>1, <3>2, <3>3, WriteAppointmentRowKeepsIInv DEF AppointmentOps
  <2> QED
      BY <1>2, <2>1, <2>2 DEF InsertAppointment
<1>3. CASE WriteAppointment(t)
  <2> DEFINE current == appointments[tx[t].id]
             row == MergeAppointment(tx[t].row, tx[t].seen, current)
  <2>1. CASE Rollback(t)
      BY <2>1, RollbackKeepsIInv
  <2>2. CASE Goto(t, "unhandled")
      BY <1>3, <2>2, GotoKeepsIInv DEF WriteAppointment, Goto, IInv, TypeOK
  <2>3. CASE /\ AppointmentRivals(tx[t].id, row) = {}
             /\ UncommittedAppointmentRivals(t, row) = {}
             /\ Write(t, row)
    <3>1. /\ tx[t].pc = "write" /\ tx[t].op \in AppointmentOps \ {"create"}
          /\ ~RowLocked(t, tx[t].id)
        BY <1>3 DEF WriteAppointment
    <3>2. tx[t].row \in Appointment /\ tx[t].seen \in Appointment /\ current \in Appointment
        BY <3>1 DEF IInv, Carries, TypeOK
    <3>3. row \in Appointment
        BY <3>2, MergeType
    <3>4. /\ tx[t].row.status = tx[t].seen.status \/ tx[t].row.status # "scheduled"
          /\ tx[t].row.confirmation_pending = tx[t].seen.confirmation_pending
               \/ tx[t].row.confirmation_pending = FALSE
        BY <3>1 DEF IInv, MovesForward, HasWritten
    <3>5. /\ row.status = current.status \/ row.status # "scheduled"
          /\ row.confirmation_pending = current.confirmation_pending
               \/ row.confirmation_pending = FALSE
        BY <3>2, <3>4, MergeMovesForward
    <3> QED
        BY <2>3, <3>1, <3>3, <3>5, WriteAppointmentRowKeepsIInv
  <2> QED
      BY <1>3, <2>1, <2>2, <2>3 DEF WriteAppointment
<1>4. CASE WriteNothing(t)
    BY <1>4, RollbackKeepsIInv DEF WriteNothing
<1>5. CASE InsertBlock(t)
  <2>1. CASE Rollback(t)
      BY <2>1, RollbackKeepsIInv
  <2>2. CASE Write(t, tx[t].row)
    <3>1. tx[t].pc = "write" /\ tx[t].op \in BlockOps
        BY <1>5 DEF InsertBlock, BlockOps
    <3>2. tx[t].row \in ScheduleBlock
        BY <3>1 DEF IInv, Carries
    <3> QED
        BY <2>2, <3>1, <3>2, WriteBlockRowKeepsIInv
  <2> QED
      BY <1>5, <2>1, <2>2 DEF InsertBlock
<1>6. CASE WriteBlock(t)
  <2> DEFINE row == [blocks[tx[t].id] EXCEPT !.status = tx[t].row.status]
  <2>1. /\ tx[t].pc = "write" /\ tx[t].op = "cancel_block" /\ tx[t].op \in BlockOps
        /\ Write(t, row)
      BY <1>6 DEF WriteBlock, BlockOps
  <2>2. /\ tx[t].row \in ScheduleBlock /\ tx[t].id \in BlockIds
        /\ blocks[tx[t].id] # NoRow
      BY <2>1 DEF IInv, Carries
  <2>3. blocks[tx[t].id] \in ScheduleBlock
      BY <2>2 DEF IInv, TypeOK
  <2>4. row \in ScheduleBlock
      BY <2>2, <2>3 DEF ScheduleBlock
  <2> QED
      BY <2>1, <2>4, WriteBlockRowKeepsIInv
<1>7. CASE Commit(t)
    BY <1>7, CommitAppointmentKeepsIInv, CommitBlockKeepsIInv DEF Commit
<1>8. CASE FailUnhandled(t)
    BY <1>8, RollbackKeepsIInv DEF FailUnhandled
<1> QED
    BY <1>1, <1>2, <1>3, <1>4, <1>5, <1>6, <1>7, <1>8 DEF Progress

\* IInv holds at first.
LEMMA InitEstablishesIInv == Init => IInv
<1> SUFFICES ASSUME Init PROVE IInv
    OBVIOUS
<1>1. \A t \in Tx : tx[t] = Idle
    BY DEF Init
<1>2. TypeOK
  <2>1. Idle \in Transaction
      BY DEF Idle, Transaction
  <2> QED
      BY <2>1 DEF Init, TypeOK
<1>3. Carries /\ InsertsAlone /\ MovesForward
    BY <1>1, NullAssumption DEF Carries, InsertsAlone, MovesForward, Idle, AppointmentOps, BlockOps
<1>4. RowLocksExclude /\ WrittenFits
    BY <1>1 DEF RowLocksExclude, WrittenFits, Pending, HasWritten, Idle
<1>5. NoDoubleBooking
    BY DEF Init, NoDoubleBooking, Scheduled
<1> QED
    BY <1>2, <1>3, <1>4, <1>5 DEF IInv

\* IInv is inductive.
LEMMA NextKeepsIInv == IInv /\ [Next]_vars => IInv'
<1> SUFFICES ASSUME IInv, [Next]_vars PROVE IInv'
    OBVIOUS
<1>1. CASE Next
  <2>1. PICK t \in Tx : Request(t) \/ Progress(t) \/ Crash(t)
      BY <1>1 DEF Next
  <2>2. CASE Crash(t)
      BY <2>2, RollbackKeepsIInv DEF Crash
  <2> QED
      BY <2>1, <2>2, RequestKeepsIInv, ProgressKeepsIInv
<1>2. CASE UNCHANGED vars
    BY <1>2 DEF vars, IInv, TypeOK, Carries, InsertsAlone, RowLocksExclude,
                WrittenFits, MovesForward, NoDoubleBooking, Pending, HasWritten
<1> QED
    BY <1>1, <1>2

\* The appointments table changes only when an appointment request commits.
LEMMA OnlyCommitChangesAppointments ==
    ASSUME [Next]_vars, appointments' # appointments
    PROVE  \E t \in Tx : tx[t].op \in AppointmentOps /\ tx[t].pc = "commit"
                        /\ appointments' = [appointments EXCEPT ![tx[t].id] = tx[t].row]
<1>1. PICK t \in Tx : Request(t) \/ Progress(t) \/ Crash(t)
    BY DEF Next, vars
<1>2. Commit(t)
  <2>1. Request(t) => appointments' = appointments
      BY DEF Request, CreateAppointment, UpdateAppointment, CompleteAppointment,
             ConfirmAppointment, CancelAppointment, RefuseAppointment, CreateBlock,
             CancelBlock, Begin, vars
  <2>2. Crash(t) => appointments' = appointments
      BY DEF Crash, Rollback
  <2>3. Progress(t) => appointments' = appointments \/ Commit(t)
      BY DEF Progress, LockSchedule, InsertAppointment, WriteAppointment, WriteNothing,
             InsertBlock, WriteBlock, FailUnhandled, Rollback, Goto, Write
  <2> QED
      BY <1>1, <2>1, <2>2, <2>3
<1> QED
    BY <1>2 DEF Commit

\* What a commit makes of a committed appointment: the status leaves scheduled
\* at most, and the confirmation ends at most.
LEMMA CommitMovesForward ==
    ASSUME IInv, [Next]_vars, NEW id \in AppointmentIds, appointments[id] # NoRow
    PROVE  /\ appointments'[id].status = appointments[id].status
                \/ appointments'[id].status # "scheduled"
           /\ appointments'[id].confirmation_pending = appointments[id].confirmation_pending
                \/ appointments'[id].confirmation_pending = FALSE
<1>1. CASE appointments' = appointments
    BY <1>1
<1>2. CASE appointments' # appointments
  <2>1. PICK t \in Tx : /\ tx[t].op \in AppointmentOps /\ tx[t].pc = "commit"
                        /\ appointments' = [appointments EXCEPT ![tx[t].id] = tx[t].row]
      BY <1>2, OnlyCommitChangesAppointments
  <2>2. CASE tx[t].id # id
      BY <2>1, <2>2 DEF IInv, TypeOK
  <2>3. CASE tx[t].id = id
    <3>1. tx[t].op # "create"
        BY <2>3 DEF IInv, InsertsAlone
    <3>2. appointments'[id] = tx[t].row
        BY <2>1, <2>3 DEF IInv, TypeOK
    <3> QED
        BY <2>1, <2>3, <3>1, <3>2 DEF IInv, MovesForward, HasWritten
  <2> QED
      BY <2>2, <2>3
<1> QED
    BY <1>1, <1>2

-----------------------------------------------------------------------------
(* Theorems *)

\* The inductive invariant holds of every behaviour of the service.
THEOREM InductiveInvariant == Spec => []IInv
<1> QED
    BY InitEstablishesIInv, NextKeepsIInv, PTL DEF Spec

\* Rows, locks and transactions keep their types.
THEOREM TypeCorrect == Spec => []TypeOK
<1>1. IInv => TypeOK
    BY DEF IInv
<1> QED
    BY <1>1, InductiveInvariant, PTL

\* No professional is booked twice, whatever requests interleave: the
\* exclusion constraint needs no help from the advisory lock.
THEOREM NobodyBookedTwice == Spec => []NoDoubleBooking
<1>1. IInv => NoDoubleBooking
    BY DEF IInv
<1> QED
    BY <1>1, InductiveInvariant, PTL

\* A canceled or completed appointment is never scheduled again, although no
\* request looks at the status again between reading the row and writing it.
THEOREM ClosedForGood == Spec => ClosedStaysClosed
<1>1. IInv /\ [Next]_vars =>
        [\A id \in AppointmentIds :
           appointments[id] # NoRow /\ appointments[id].status # "scheduled"
             => appointments'[id].status # "scheduled"]_vars
    BY CommitMovesForward
<1> QED
    BY <1>1, InductiveInvariant, PTL DEF Spec, ClosedStaysClosed

\* A confirmation is never undone by a request that read the row before it.
THEOREM ConfirmedForGood == Spec => ConfirmationKept
<1>1. IInv /\ [Next]_vars =>
        [\A id \in AppointmentIds :
           appointments[id] # NoRow /\ ~appointments[id].confirmation_pending
             => ~appointments'[id].confirmation_pending]_vars
  <2> SUFFICES ASSUME IInv, [Next]_vars, NEW id \in AppointmentIds,
                      appointments[id] # NoRow, ~appointments[id].confirmation_pending
               PROVE  ~appointments'[id].confirmation_pending
      OBVIOUS
  <2>1. \/ appointments'[id].confirmation_pending = appointments[id].confirmation_pending
        \/ appointments'[id].confirmation_pending = FALSE
      BY CommitMovesForward
  <2> QED
      BY <2>1
<1> QED
    BY <1>1, InductiveInvariant, PTL DEF Spec, ConfirmationKept

-----------------------------------------------------------------------------
(* The lock: what a step leaves alone *)

\* A step of one request changes no other one and frees or takes no lock that
\* another one holds.
LEMMA OthersKept ==
    ASSUME IInv, NEW t \in Tx, Request(t) \/ Progress(t) \/ Crash(t),
           NEW u \in Tx \ {t}
    PROVE  /\ tx'[u] = tx[u]
           /\ \A p \in Professionals : schedule_lock[p] = u => schedule_lock'[p] = u
<1> USE NullAssumption DEF IInv, TypeOK
<1>1. CASE Request(t)
    BY <1>1 DEF Request, CreateAppointment, UpdateAppointment, CompleteAppointment,
           ConfirmAppointment, CancelAppointment, RefuseAppointment, CreateBlock,
           CancelBlock, Begin, vars
<1>2. CASE Rollback(t)
    BY <1>2 DEF Rollback, End
<1>3. CASE Commit(t)
    BY <1>3 DEF Commit, End
<1>4. ASSUME NEW pc, Goto(t, pc) PROVE tx'[u] = tx[u] /\ schedule_lock' = schedule_lock
    BY <1>4 DEF Goto
<1>5. ASSUME NEW row, Write(t, row) PROVE tx'[u] = tx[u] /\ schedule_lock' = schedule_lock
    BY <1>5 DEF Write
<1>6. CASE LockSchedule(t)
  <2>1. CASE Rollback(t)
      BY <2>1, <1>2
  <2>2. CASE /\ schedule_lock' = [schedule_lock EXCEPT ![tx[t].row.professional] = t]
             /\ tx' = [tx EXCEPT ![t].pc = "write"]
      BY <1>6, <2>2 DEF LockSchedule
  <2> QED
      BY <1>6, <2>1, <2>2 DEF LockSchedule
<1>7. CASE InsertAppointment(t) \/ InsertBlock(t) \/ WriteNothing(t) \/ FailUnhandled(t) \/ Crash(t)
    BY <1>2, <1>5, <1>7 DEF InsertAppointment, InsertBlock, WriteNothing, FailUnhandled, Crash
<1>8. CASE WriteAppointment(t) \/ WriteBlock(t)
    BY <1>2, <1>4, <1>5, <1>8 DEF WriteAppointment, WriteBlock
<1> QED
    BY <1>1, <1>3, <1>6, <1>7, <1>8 DEF Progress

\* Short of a commit, the tables stay as they are.
LEMMA OnlyCommitChangesTables ==
    ASSUME NEW t \in Tx, Request(t) \/ Progress(t) \/ Crash(t), ~Commit(t)
    PROVE  UNCHANGED <<appointments, blocks>>
<1>1. CASE Request(t)
    BY <1>1 DEF Request, CreateAppointment, UpdateAppointment, CompleteAppointment,
           ConfirmAppointment, CancelAppointment, RefuseAppointment, CreateBlock,
           CancelBlock, Begin, vars
<1>2. CASE Crash(t)
    BY <1>2 DEF Crash, Rollback
<1>3. CASE Progress(t)
    BY <1>3 DEF Progress, LockSchedule, InsertAppointment, WriteAppointment, WriteNothing,
           InsertBlock, WriteBlock, FailUnhandled, Rollback, Goto, Write
<1> QED
    BY <1>1, <1>2, <1>3

\* The first step of a request: which queries are still ahead of it, and what
\* it carries.
LEMMA RequestShape ==
    ASSUME IInv, NEW t \in Tx, Request(t)
    PROVE  \/ UNCHANGED vars
           \/ /\ UNCHANGED <<appointments, blocks, schedule_lock>>
              /\ tx'[t].op = "create" => tx'[t].pc = "lock" /\ Scheduled(tx'[t].row)
              /\ tx'[t].op = "update"
                   => tx'[t].pc = "lock" /\ tx'[t].seen = appointments[tx'[t].id]
              /\ tx'[t].op \in AppointmentOps \ {"create", "update"}
                   => tx'[t].pc = "write" /\ SameSlot(tx'[t].row, tx'[t].seen)
              /\ tx'[t].op \in AppointmentOps => tx'[t].id \in AppointmentIds
              /\ tx'[t].op = "create_block"
                   => /\ tx'[t].pc = "lock" /\ Active(tx'[t].row)
                      /\ blocks[tx'[t].id] = NoRow /\ FreshId(tx'[t].id)
              /\ tx'[t].op = "cancel_block"
                   => tx'[t].row.status = "canceled" /\ blocks[tx'[t].id] # NoRow
<1> USE NullAssumption DEF IInv, TypeOK
<1>1. ASSUME NEW pc, NEW op, NEW id, NEW seen, NEW row, Begin(t, pc, op, id, seen, row)
      PROVE  /\ tx'[t].pc = pc /\ tx'[t].op = op /\ tx'[t].id = id
             /\ tx'[t].seen = seen /\ tx'[t].row = row
             /\ UNCHANGED <<appointments, blocks, schedule_lock>>
  <2>1. tx'[t] = [pc |-> pc, op |-> op, id |-> id, seen |-> seen, row |-> row]
      BY <1>1 DEF Begin
  <2> QED
      BY <2>1, <1>1 DEF Begin
<1>2. ASSUME NEW id \in AppointmentIds, Scheduled(appointments[id])
      PROVE  appointments[id] \in Appointment
    BY <1>2 DEF Scheduled
<1>3. CASE CreateAppointment(t)
  <2>1. PICK id \in AppointmentIds, b \in Bookable :
            Begin(t, "lock", "create", id, NoRow,
                  Booking(b[1], b[2], b[3], "scheduled", ConfirmationRequired))
      BY <1>3 DEF CreateAppointment
  <2> DEFINE row == Booking(b[1], b[2], b[3], "scheduled", ConfirmationRequired)
  <2>2. row \in Appointment /\ row.status = "scheduled"
      BY BookingType, ConfirmationAssumption DEF AppointmentStatus, Booking
  <2>3. Scheduled(row)
      BY <2>2 DEF Scheduled
  <2> HIDE DEF row
  <2> QED
      BY <2>1, <2>3, <1>1 DEF AppointmentOps, row
<1>4. CASE UpdateAppointment(t)
  <2>1. PICK id \in AppointmentIds, b \in Bookable :
            Begin(t, "lock", "update", id, appointments[id],
                  Booking(b[1], b[2], b[3], appointments[id].status,
                          appointments[id].confirmation_pending))
      BY <1>4 DEF UpdateAppointment
  <2> QED
      BY <2>1, <1>1 DEF AppointmentOps
<1>5. CASE CompleteAppointment(t) \/ ConfirmAppointment(t) \/ CancelAppointment(t)
  <2>1. PICK id \in AppointmentIds, op \in AppointmentOps \ {"create", "update"}, row \in Appointment :
            /\ Begin(t, "write", op, id, appointments[id], row)
            /\ SameSlot(row, appointments[id])
    <3>0. ASSUME NEW id \in AppointmentIds, Scheduled(appointments[id]),
                 NEW status \in AppointmentStatus
          PROVE  /\ [appointments[id] EXCEPT !.status = status] \in Appointment
                 /\ SameSlot([appointments[id] EXCEPT !.status = status], appointments[id])
                 /\ [appointments[id] EXCEPT !.confirmation_pending = FALSE] \in Appointment
                 /\ SameSlot([appointments[id] EXCEPT !.confirmation_pending = FALSE],
                             appointments[id])
        BY <3>0, <1>2 DEF Appointment, SameSlot
    <3>1. CASE CompleteAppointment(t)
      <4>1. PICK id \in AppointmentIds :
                /\ Scheduled(appointments[id])
                /\ Begin(t, "write", "complete", id, appointments[id],
                         [appointments[id] EXCEPT !.status = "completed"])
          BY <3>1 DEF CompleteAppointment
      <4> QED
          BY <4>1, <3>0 DEF AppointmentOps, AppointmentStatus
    <3>2. CASE ConfirmAppointment(t)
      <4>1. PICK id \in AppointmentIds :
                /\ Scheduled(appointments[id])
                /\ Begin(t, "write", "confirm", id, appointments[id],
                         [appointments[id] EXCEPT !.confirmation_pending = FALSE])
          BY <3>2 DEF ConfirmAppointment
      <4> QED
          BY <4>1, <3>0 DEF AppointmentOps, AppointmentStatus
    <3>3. CASE CancelAppointment(t)
      <4>1. PICK id \in AppointmentIds, op \in {"cancel", "delete"} :
                /\ Scheduled(appointments[id])
                /\ Begin(t, "write", op, id, appointments[id],
                         [appointments[id] EXCEPT !.status = "canceled"])
          BY <3>3 DEF CancelAppointment
      <4> QED
          BY <4>1, <3>0 DEF AppointmentOps, AppointmentStatus
    <3> QED
        BY <1>5, <3>1, <3>2, <3>3
  <2> QED
      BY <2>1, <1>1 DEF AppointmentOps
<1>6. CASE CreateBlock(t)
  <2>1. PICK id \in BlockIds, p \in Blockable :
            /\ blocks[id] = NoRow /\ FreshId(id)
            /\ Begin(t, "lock", "create_block", id, NoRow,
                     [professional |-> p.professional, start |-> p.start,
                      end |-> p.end, status |-> "active"])
      BY <1>6 DEF CreateBlock
  <2> DEFINE row == [professional |-> p.professional, start |-> p.start,
                     end |-> p.end, status |-> "active"]
  <2>2. row \in ScheduleBlock /\ row.status = "active"
      BY BlockableAssumption DEF ScheduleBlock, BlockStatus
  <2>3. Active(row)
      BY <2>2 DEF Active
  <2> HIDE DEF row
  <2> QED
      BY <2>1, <2>3, <1>1 DEF AppointmentOps, row
<1>7. CASE CancelBlock(t)
  <2>1. PICK id \in BlockIds :
            /\ Active(blocks[id])
            /\ Begin(t, "write", "cancel_block", id, blocks[id],
                     [blocks[id] EXCEPT !.status = "canceled"])
      BY <1>7 DEF CancelBlock
  <2>2. [blocks[id] EXCEPT !.status = "canceled"].status = "canceled"
      BY <2>1 DEF Active, ScheduleBlock
  <2> DEFINE row == [blocks[id] EXCEPT !.status = "canceled"]
  <2> HIDE DEF row
  <2>3. Begin(t, "write", "cancel_block", id, blocks[id], row) /\ row.status = "canceled"
      BY <2>1, <2>2 DEF row
  <2>4. blocks[id] # NoRow
      BY <2>1 DEF Active
  <2> QED
      BY <2>3, <2>4, <1>1 DEF AppointmentOps
<1> QED
    BY <1>3, <1>4, <1>5, <1>6, <1>7 DEF Request, RefuseAppointment

\* The later steps: the request ends, passes the lock, writes its row or fails.
LEMMA ProgressShape ==
    ASSUME IInv, NEW t \in Tx, Progress(t) \/ Crash(t)
    PROVE  \/ tx'[t] = Idle
           \/ /\ UNCHANGED <<appointments, blocks>>
              /\ tx[t].pc \in {"lock", "write"}
              /\ tx'[t].op = tx[t].op /\ tx'[t].id = tx[t].id /\ tx'[t].seen = tx[t].seen
              /\ \/ /\ tx'[t].pc = "write" /\ tx[t].pc = "lock" /\ ~Blocked(t)
                    /\ tx'[t].row = tx[t].row
                    /\ schedule_lock' = [schedule_lock EXCEPT ![tx[t].row.professional] = t]
                 \/ tx'[t].pc = "unhandled" /\ tx'[t].row = tx[t].row /\ tx[t].pc = "write"
                 \/ /\ tx'[t].pc = "commit" /\ tx[t].pc = "write"
                    /\ schedule_lock' = schedule_lock
                    /\ tx[t].op \in {"create", "create_block"} => tx'[t].row = tx[t].row
                    /\ tx[t].op \in AppointmentOps \ {"create"}
                         => tx'[t].row = MergeAppointment(tx[t].row, tx[t].seen,
                                                          appointments[tx[t].id])
                    /\ tx[t].op = "cancel_block"
                         => tx'[t].row = [blocks[tx[t].id] EXCEPT !.status = tx[t].row.status]
<1> USE DEF IInv, TypeOK
<1>0. tx[t] \in Transaction
    OBVIOUS
<1>1. CASE Rollback(t)
    BY <1>1 DEF Rollback, End
<1>2. CASE Commit(t)
    BY <1>2 DEF Commit, End
<1>3. ASSUME NEW pc, tx' = [tx EXCEPT ![t].pc = pc]
      PROVE  /\ tx'[t].pc = pc /\ tx'[t].row = tx[t].row
             /\ tx'[t].op = tx[t].op /\ tx'[t].id = tx[t].id /\ tx'[t].seen = tx[t].seen
  <2>1. tx'[t] = [tx[t] EXCEPT !.pc = pc]
      BY <1>3
  <2> QED
      BY <2>1, <1>0 DEF Transaction
<1>4. ASSUME NEW row, Write(t, row)
      PROVE  /\ tx'[t].pc = "commit" /\ tx'[t].row = row
             /\ tx'[t].op = tx[t].op /\ tx'[t].id = tx[t].id /\ tx'[t].seen = tx[t].seen
             /\ UNCHANGED <<appointments, blocks, schedule_lock>>
  <2>1. tx'[t] = [tx[t] EXCEPT !.pc = "commit", !.row = row]
      BY <1>4 DEF Write
  <2> QED
      BY <2>1, <1>0, <1>4 DEF Transaction, Write
<1>5. CASE LockSchedule(t)
    BY <1>1, <1>3, <1>5 DEF LockSchedule
<1>6. CASE InsertAppointment(t) \/ InsertBlock(t)
    BY <1>1, <1>4, <1>6 DEF InsertAppointment, InsertBlock, AppointmentOps
<1>7. CASE WriteAppointment(t)
    BY <1>1, <1>3, <1>4, <1>7 DEF WriteAppointment, Goto, AppointmentOps
<1>8. CASE WriteBlock(t)
    BY <1>4, <1>8 DEF WriteBlock, AppointmentOps
<1>9. CASE WriteNothing(t) \/ FailUnhandled(t) \/ Crash(t)
    BY <1>1, <1>9 DEF WriteNothing, FailUnhandled, Crash
<1> QED
    BY <1>2, <1>5, <1>6, <1>7, <1>8, <1>9 DEF Progress

-----------------------------------------------------------------------------
(* Blocks *)

\* Every step of a request keeps the invariant of blocks.
LEMMA StepKeepsBlocksInv ==
    ASSUME IInv, BlocksInv, NEW t \in Tx, Request(t) \/ Progress(t) \/ Crash(t)
    PROVE  BlocksInv'
<1> USE DEF IInv, TypeOK
<1> DEFINE Own == WantsStatus(t)' /\ InsertsBlockAlone(t)' /\ BlockChecked(t)'
<1>1. \A u \in Tx \ {t} :
         /\ tx'[u] = tx[u]
         /\ \A p \in Professionals : schedule_lock[p] = u => schedule_lock'[p] = u
    BY OthersKept
<1>2. \A u \in Tx : WantsStatus(u) /\ InsertsBlockAlone(u) /\ BlockChecked(u)
    BY DEF BlocksInv
<1>3. \A u \in Tx : tx[u].op = "create_block" => /\ tx[u].row \in ScheduleBlock
                                                /\ tx[u].row.professional \in Professionals
                                                /\ tx[u].id \in BlockIds
    BY DEF Carries, BlockOps, ScheduleBlock
\* The blocks stay: only the request that takes the step has to be looked at.
<1>4. ASSUME UNCHANGED blocks, Own,
             \A u \in Tx \ {t} : tx[u].op = "create_block" => tx'[t].id # tx[u].id
      PROVE  BlocksInv'
  <2>1. ASSUME NEW u \in Tx \ {t}
        PROVE  WantsStatus(u)' /\ InsertsBlockAlone(u)' /\ BlockChecked(u)'
    <3>1. WantsStatus(u)'
        BY <2>1, <1>1, <1>2 DEF WantsStatus, Scheduled, Active
    <3>2. InsertsBlockAlone(u)'
        BY <2>1, <1>1, <1>2, <1>4 DEF InsertsBlockAlone
    <3>3. BlockChecked(u)'
        BY <2>1, <1>1, <1>2, <1>3, <1>4 DEF BlockChecked, Checked, HoldsLock, ClearOfBlocks
    <3> QED
        BY <3>1, <3>2, <3>3
  <2>2. BlocksDisjoint'
      BY <1>4 DEF BlocksInv, BlocksDisjoint
  <2> QED
      BY <2>1, <2>2, <1>4 DEF BlocksInv
<1>5. ASSUME tx'[t] = Idle PROVE Own /\ tx'[t].id = NoId
    BY <1>5 DEF WantsStatus, InsertsBlockAlone, BlockChecked, Idle
<1>6. CASE Request(t)
  <2>1. CASE UNCHANGED vars
      BY <2>1 DEF vars, BlocksInv, WantsStatus, InsertsBlockAlone, BlockChecked, BlocksDisjoint,
                  Checked, HoldsLock, ClearOfBlocks
  <2>2. CASE ~UNCHANGED vars
    <3>1. UNCHANGED <<appointments, blocks>>
        BY <1>6, <2>2, RequestShape
    <3>2. Own
        BY <1>6, <2>2, <1>1, RequestShape
           DEF WantsStatus, InsertsBlockAlone, BlockChecked, Checked, FreshId, AppointmentOps
    <3>3. ASSUME NEW u \in Tx \ {t}, tx[u].op = "create_block"
          PROVE  tx'[t].id # tx[u].id
      <4>1. tx[u].id \in BlockIds /\ blocks[tx[u].id] = NoRow
          BY <3>3, <1>2, <1>3 DEF InsertsBlockAlone
      <4>2. Carries' /\ TypeOK'
          BY RequestKeepsIInv, <1>6
      <4>3. tx'[t].op \in AppointmentOps \cup BlockOps \cup {"none"}
          BY <4>2 DEF Transaction
      <4> QED
          BY <1>6, <2>2, <4>1, <4>2, <4>3, RequestShape, NullAssumption
             DEF FreshId, Carries, BlockOps, AppointmentOps
    <3> QED
        BY <3>1, <3>2, <3>3, <1>4
  <2> QED
      BY <2>1, <2>2
<1>7. CASE (Progress(t) \/ Crash(t)) /\ ~Commit(t)
  <2>1. UNCHANGED <<appointments, blocks>>
      BY <1>7, OnlyCommitChangesTables
  <2>2. CASE tx'[t] = Idle
      BY <2>1, <2>2, <1>3, <1>4, <1>5, NullAssumption
  <2>3. CASE tx'[t] # Idle
    <3>1. /\ tx'[t].op = tx[t].op /\ tx'[t].id = tx[t].id
          /\ tx[t].op \in {"create", "create_block"} => tx'[t].row = tx[t].row
        BY <1>7, <2>3, ProgressShape
    <3>2. WantsStatus(t)'
      <4>1. CASE tx[t].op = "cancel_block" /\ tx'[t].row # tx[t].row
        <5>1. blocks[tx[t].id] \in ScheduleBlock
            BY <4>1 DEF Carries, BlockOps
        <5>2. tx'[t].row = [blocks[tx[t].id] EXCEPT !.status = tx[t].row.status]
            BY <1>7, <2>3, <4>1, ProgressShape
        <5>3. tx'[t].row.status = tx[t].row.status
            BY <5>1, <5>2 DEF ScheduleBlock
        <5> QED
            BY <3>1, <4>1, <5>3, <1>2 DEF WantsStatus
      <4>2. CASE tx'[t].row = tx[t].row
          BY <3>1, <4>2, <1>2 DEF WantsStatus, Scheduled, Active
      <4> QED
          BY <3>1, <4>1, <4>2 DEF WantsStatus
    <3>3. InsertsBlockAlone(t)'
        BY <3>1, <2>1, <1>1, <1>2 DEF InsertsBlockAlone
    <3>4. BlockChecked(t)'
      <4> SUFFICES ASSUME tx[t].op = "create_block", Checked(t)'
                   PROVE  HoldsLock(t)' /\ ClearOfBlocks(t)'
          BY <3>1 DEF BlockChecked
      <4>1. tx'[t].row = tx[t].row /\ tx[t].row.professional \in Professionals
          BY <3>1, <1>3
      <4>2. CASE tx[t].pc = "lock"
        <5>1. /\ ~Blocked(t)
              /\ schedule_lock' = [schedule_lock EXCEPT ![tx[t].row.professional] = t]
            BY <1>7, <2>3, <4>2, ProgressShape DEF Checked
        <5>2. HoldsLock(t)'
            BY <4>1, <5>1 DEF HoldsLock
        <5>3. ClearOfBlocks(t)'
            BY <4>1, <5>1, <2>1 DEF ClearOfBlocks, Blocked, MeetsBlock
        <5> QED
            BY <5>2, <5>3
      <4>3. CASE tx[t].pc = "write"
        <5>1. schedule_lock' = schedule_lock
            BY <1>7, <2>3, <4>3, ProgressShape DEF Checked
        <5>2. HoldsLock(t) /\ ClearOfBlocks(t)
            BY <4>3, <1>2 DEF BlockChecked, Checked
        <5> QED
            BY <4>1, <5>1, <5>2, <2>1 DEF HoldsLock, ClearOfBlocks
      <4> QED
          BY <1>7, <2>3, <4>2, <4>3, ProgressShape
    <3>5. \A u \in Tx \ {t} : tx[u].op = "create_block" => tx'[t].id # tx[u].id
        BY <3>1, <1>2 DEF InsertsBlockAlone
    <3> QED
        BY <2>1, <3>2, <3>3, <3>4, <3>5, <1>4
  <2> QED
      BY <2>2, <2>3
<1>8. CASE Commit(t)
  <2>1. tx'[t] = Idle
      BY <1>8 DEF Commit, End
  <2>2. CASE tx[t].op \in AppointmentOps
      BY <1>8, <2>1, <2>2, <1>3, <1>4, <1>5, NullAssumption DEF Commit
  <2>3. CASE tx[t].op \notin AppointmentOps
    <3> DEFINE id == tx[t].id  row == tx[t].row
    <3>1. /\ tx[t].op \in BlockOps /\ id \in BlockIds /\ row \in ScheduleBlock
          /\ Checked(t)
        BY <1>8, <2>3 DEF Commit, Carries, Transaction, Checked
    <3>2. /\ appointments' = appointments /\ blocks'[id] = row
          /\ \A b \in BlockIds \ {id} : blocks'[b] = blocks[b]
        BY <1>8, <2>3, <3>1 DEF Commit
    <3>3. Active(row) => HoldsLock(t) /\ ClearOfBlocks(t)
        BY <3>1, <1>2 DEF Active, WantsStatus, BlockChecked, BlockOps
    <3>4. ASSUME NEW u \in Tx \ {t}
          PROVE  WantsStatus(u)' /\ InsertsBlockAlone(u)' /\ BlockChecked(u)'
      <4>1. WantsStatus(u)'
          BY <3>4, <1>1, <1>2 DEF WantsStatus, Scheduled, Active
      <4>2. InsertsBlockAlone(u)'
        <5> SUFFICES ASSUME tx[u].op = "create_block"
                     PROVE  /\ blocks'[tx[u].id] = NoRow
                            /\ \A v \in Tx \ {u} : tx'[v].id # tx[u].id
            BY <3>4, <1>1 DEF InsertsBlockAlone
        <5>1. /\ tx[u].id \in BlockIds /\ tx[u].id # id
              /\ blocks[tx[u].id] = NoRow /\ \A v \in Tx \ {u} : tx[v].id # tx[u].id
            BY <1>2, <1>3 DEF InsertsBlockAlone
        <5>2. tx[u].id # NoId
            BY <5>1, NullAssumption
        <5> QED
            BY <5>1, <5>2, <2>1, <3>2, <1>1 DEF Idle
      <4>3. BlockChecked(u)'
        <5> SUFFICES ASSUME tx[u].op = "create_block", Checked(u)
                     PROVE  HoldsLock(u)' /\ ClearOfBlocks(u)'
            BY <3>4, <1>1 DEF BlockChecked, Checked
        <5>1. HoldsLock(u) /\ ClearOfBlocks(u)
            BY <1>2 DEF BlockChecked
        <5>2. HoldsLock(u)'
            BY <5>1, <1>1, <1>3 DEF HoldsLock
        <5>3. Active(row) => ~Overlaps(tx[u].row, row)
            BY <3>3, <5>1, <3>4 DEF HoldsLock, Overlaps
        <5>4. ClearOfBlocks(u)'
            BY <5>1, <5>3, <3>2, <1>1 DEF ClearOfBlocks
        <5> QED
            BY <5>2, <5>4
      <4> QED
          BY <4>1, <4>2, <4>3
    <3>5. BlocksDisjoint'
      <4> SUFFICES ASSUME NEW b \in BlockIds, NEW c \in BlockIds, b # c,
                          Active(blocks'[b]), Active(blocks'[c])
                   PROVE  \/ blocks'[b].professional # blocks'[c].professional
                          \/ blocks'[b].end <= blocks'[c].start
                          \/ blocks'[c].end <= blocks'[b].start
          BY DEF BlocksDisjoint
      <4>1. ASSUME NEW d \in BlockIds \ {id}, Active(row), Active(blocks[d])
            PROVE  \/ row.professional # blocks[d].professional
                   \/ row.end <= blocks[d].start
                   \/ blocks[d].end <= row.start
        <5>1. blocks[d] \in ScheduleBlock
            BY <4>1 DEF Active
        <5>2. ~Overlaps(row, blocks[d])
            BY <4>1, <3>3 DEF ClearOfBlocks
        <5> QED
            BY <5>1, <5>2, <3>1 DEF Overlaps, ScheduleBlock
      <4>2. CASE b = id
          BY <4>1, <4>2, <3>2
      <4>3. CASE c = id
          BY <4>1, <4>3, <3>2
      <4>4. CASE b # id /\ c # id
          BY <4>4, <3>2 DEF BlocksInv, BlocksDisjoint
      <4> QED
          BY <4>2, <4>3, <4>4
    <3>6. Own
        BY <2>1, <1>5
    <3> HIDE DEF Own
    <3>7. ASSUME NEW u \in Tx
          PROVE  WantsStatus(u)' /\ InsertsBlockAlone(u)' /\ BlockChecked(u)'
        BY <3>4, <3>6 DEF Own
    <3> QED
        BY <3>5, <3>7 DEF BlocksInv
  <2> QED
      BY <2>2, <2>3
<1> QED
    BY <1>6, <1>7, <1>8

\* BlocksInv holds at first.
LEMMA InitEstablishesBlocksInv == Init => BlocksInv
<1> SUFFICES ASSUME Init PROVE BlocksInv
    OBVIOUS
<1>1. \A t \in Tx : tx[t] = Idle
    BY DEF Init
<1>2. BlocksDisjoint
    BY DEF Init, BlocksDisjoint, Active
<1> QED
    BY <1>1, <1>2 DEF BlocksInv, WantsStatus, InsertsBlockAlone, BlockChecked, Idle

\* BlocksInv is inductive relative to IInv: a block is saved only where the lock was held.
LEMMA NextKeepsBlocksInv == IInv /\ BlocksInv /\ [Next]_vars => BlocksInv'
<1> SUFFICES ASSUME IInv, BlocksInv, [Next]_vars PROVE BlocksInv'
    OBVIOUS
<1>1. CASE Next
    BY <1>1, StepKeepsBlocksInv DEF Next
<1>2. CASE UNCHANGED vars
    BY <1>2 DEF vars, BlocksInv, WantsStatus, InsertsBlockAlone, BlockChecked, BlocksDisjoint,
                Scheduled, Active, Checked, HoldsLock, ClearOfBlocks
<1> QED
    BY <1>1, <1>2

\* The inductive invariant of schedule blocks, whatever clients do.
THEOREM BlocksInvariant == Spec => []BlocksInv
<1> QED
    BY InitEstablishesBlocksInv, NextKeepsBlocksInv, InductiveInvariant, PTL DEF Spec

\* No professional has two active blocks that share a minute: the check under
\* the advisory lock is enough, whatever other requests are open.
THEOREM BlocksApart == Spec => []BlocksDisjoint
<1>1. BlocksInv => BlocksDisjoint
    BY DEF BlocksInv
<1> QED
    BY <1>1, BlocksInvariant, PTL

-----------------------------------------------------------------------------
(* Bookings and blocks, with one editor per appointment *)

\* A merged row takes the slot that was asked for, when the one that was read
\* is still current ...
LEMMA MergeTakesSlot ==
    ASSUME NEW want \in Appointment, NEW seen \in Appointment, NEW current \in Appointment,
           SameSlot(seen, current)
    PROVE  SameSlot(MergeAppointment(want, seen, current), want)
BY DEF SameSlot, MergeAppointment, Column

\* ... and keeps the current one, when no other was asked for.
LEMMA MergeKeepsSlot ==
    ASSUME NEW want \in Appointment, NEW seen \in Appointment, NEW current \in Appointment,
           SameSlot(want, seen)
    PROVE  SameSlot(MergeAppointment(want, seen, current), current)
BY DEF SameSlot, MergeAppointment, Column

\* Overlaps looks at the slot of a row only.
LEMMA OverlapsBySlot ==
    ASSUME NEW q, NEW r, NEW s, SameSlot(r, s)
    PROVE  /\ Overlaps(q, r) <=> Overlaps(q, s)
           /\ Overlaps(r, q) <=> Overlaps(s, q)
BY DEF SameSlot, Overlaps

\* A row about to be committed as scheduled is clear of the active blocks.
LEMMA CommittedIsOpen ==
    ASSUME IInv, SerialInv, NEW t \in Tx, tx[t].pc = "commit",
           tx[t].op \in AppointmentOps, Scheduled(tx[t].row)
    PROVE  ClearOfBlocks(t)
<1> USE DEF IInv, TypeOK
<1>1. CASE tx[t].op \in {"create", "update"}
    BY <1>1 DEF SerialInv, BookingChecked, Checked
<1>2. CASE tx[t].op \in AppointmentOps \ {"create", "update"}
  <2> DEFINE current == appointments[tx[t].id]
  <2>1. SameSlot(tx[t].row, current)
      BY <1>2 DEF SerialInv, KeepsSlot, HasWritten
  <2>2. tx[t].id \in AppointmentIds /\ current # NoRow /\ current \in Appointment
      BY <1>2 DEF Carries
  <2>3. Scheduled(current)
      BY <1>2, <2>2 DEF MovesForward, HasWritten, Scheduled
  <2>4. ASSUME NEW b \in BlockIds, Active(blocks[b])
        PROVE  ~Overlaps(current, blocks[b])
    <3>1. blocks[b] \in ScheduleBlock
        BY <2>4 DEF Active
    <3>2. \/ current.professional # blocks[b].professional
          \/ current.end <= blocks[b].start
          \/ blocks[b].end <= current.start
        BY <2>2, <2>3, <2>4 DEF SerialInv, BlockedTimeFree
    <3> QED
        BY <3>1, <3>2, <2>2 DEF Overlaps, Appointment, ScheduleBlock
  <2>5. ASSUME NEW b \in BlockIds, Active(blocks[b])
        PROVE  ~Overlaps(tx[t].row, blocks[b])
      BY <2>1, <2>4, <2>5 DEF SameSlot, Overlaps
  <2> QED
      BY <2>5 DEF ClearOfBlocks
<1> QED
    BY <1>1, <1>2

\* Every step keeps the invariant of bookings next to blocks, as long as nobody
\* edits an appointment twice at once.
LEMMA StepKeepsSerialInv ==
    ASSUME IInv, BlocksInv, SerialInv, NEW t \in Tx, Request(t) \/ Progress(t) \/ Crash(t),
           OneEditorPerAppointment'
    PROVE  SerialInv'
<1> USE DEF IInv, TypeOK
<1> DEFINE Fits(u) == EditsCurrentSlot(u) /\ KeepsSlot(u) /\ BookingChecked(u)
                        /\ BlockSparesBookings(u)
<1>1. \A u \in Tx \ {t} :
         /\ tx'[u] = tx[u]
         /\ \A p \in Professionals : schedule_lock[p] = u => schedule_lock'[p] = u
    BY OthersKept
<1>2. \A u \in Tx : Fits(u)
    BY DEF SerialInv
<1>3. \A u \in Tx : /\ tx[u].op \in AppointmentOps => tx[u].row \in Appointment
                    /\ tx[u].op \in {"create", "update"}
                         => tx[u].row.professional \in Professionals
                    /\ tx[u].op \in AppointmentOps \ {"create"}
                         => /\ tx[u].id \in AppointmentIds /\ tx[u].seen \in Appointment
                            /\ appointments[tx[u].id] \in Appointment
    BY DEF Carries, AppointmentOps, Appointment
<1>4. ASSUME UNCHANGED <<appointments, blocks>>, Fits(t)'
      PROVE  SerialInv'
  <2>1. ASSUME NEW u \in Tx \ {t} PROVE Fits(u)'
    <3>1. EditsCurrentSlot(u)' /\ KeepsSlot(u)'
        BY <2>1, <1>1, <1>2, <1>4 DEF EditsCurrentSlot, KeepsSlot, HasWritten
    <3>2. BookingChecked(u)'
        BY <2>1, <1>1, <1>2, <1>3, <1>4 DEF BookingChecked, Checked, HoldsLock, ClearOfBlocks
    <3>3. BlockSparesBookings(u)'
        BY <2>1, <1>1, <1>2, <1>4 DEF BlockSparesBookings, Checked, ClearOfAppointments
    <3> QED
        BY <3>1, <3>2, <3>3
  <2>2. BlockedTimeFree'
      BY <1>4 DEF SerialInv, BlockedTimeFree
  <2> QED
      BY <2>1, <2>2, <1>4 DEF SerialInv
<1>5. ASSUME tx'[t] = Idle PROVE Fits(t)'
    BY <1>5 DEF EditsCurrentSlot, KeepsSlot, BookingChecked, BlockSparesBookings, Idle,
                AppointmentOps
<1>6. CASE Request(t)
  <2>1. CASE UNCHANGED vars
      BY <2>1, <1>2, <1>4 DEF vars, EditsCurrentSlot, KeepsSlot, BookingChecked, BlockSparesBookings,
                  Checked, HoldsLock, ClearOfBlocks, ClearOfAppointments, HasWritten
  <2>2. CASE ~UNCHANGED vars
    <3>1. UNCHANGED <<appointments, blocks>>
        BY <1>6, <2>2, RequestShape
    <3>2. EditsCurrentSlot(t)'
        BY <1>6, <2>2, RequestShape DEF EditsCurrentSlot, SameSlot
    <3>3. KeepsSlot(t)'
        BY <1>6, <2>2, RequestShape DEF KeepsSlot, HasWritten
    <3>4. BookingChecked(t)' /\ BlockSparesBookings(t)'
        BY <1>6, <2>2, RequestShape DEF BookingChecked, BlockSparesBookings, Checked
    <3> QED
        BY <3>1, <3>2, <3>3, <3>4, <1>4
  <2> QED
      BY <2>1, <2>2
<1>7. CASE (Progress(t) \/ Crash(t)) /\ ~Commit(t)
  <2>1. UNCHANGED <<appointments, blocks>>
      BY <1>7, OnlyCommitChangesTables
  <2>2. CASE tx'[t] = Idle
      BY <2>1, <2>2, <1>4, <1>5
  <2>3. CASE tx'[t] # Idle
    <3> DEFINE op == tx[t].op  current == appointments[tx[t].id]
    <3>1. /\ tx'[t].op = op /\ tx'[t].id = tx[t].id /\ tx'[t].seen = tx[t].seen
          /\ op \in {"create", "create_block"} => tx'[t].row = tx[t].row
        BY <1>7, <2>3, ProgressShape
    <3>2. /\ HasWritten(t)' => /\ tx[t].pc = "write" /\ schedule_lock' = schedule_lock
                               /\ op \in AppointmentOps \ {"create"}
                                    => tx'[t].row = MergeAppointment(tx[t].row, tx[t].seen, current)
          /\ ~HasWritten(t)' => tx'[t].row = tx[t].row
          /\ ~HasWritten(t)
        BY <1>7, <2>3, ProgressShape DEF HasWritten
    <3>3. tx'[t].pc = "write" =>
            /\ ~Blocked(t)
            /\ schedule_lock' = [schedule_lock EXCEPT ![tx[t].row.professional] = t]
        BY <1>7, <2>3, ProgressShape
    <3>4. EditsCurrentSlot(t)'
        BY <3>1, <2>1, <1>2 DEF EditsCurrentSlot
    <3>5. KeepsSlot(t)'
        BY <3>1, <3>2, <2>1, <1>2, <1>3, MergeKeepsSlot DEF KeepsSlot
    <3>6. BookingChecked(t)'
      <4> SUFFICES ASSUME op \in {"create", "update"}, Checked(t)'
                   PROVE  HoldsLock(t)' /\ ClearOfBlocks(t)'
          BY <3>1 DEF BookingChecked
      <4>1. CASE tx'[t].pc = "write"
        <5>1. tx'[t].row = tx[t].row
            BY <4>1, <3>2 DEF HasWritten
        <5> QED
            BY <5>1, <4>1, <3>3, <2>1, <1>3
               DEF HoldsLock, ClearOfBlocks, Blocked, MeetsBlock
      <4>2. CASE HasWritten(t)'
        <5>1. HoldsLock(t) /\ ClearOfBlocks(t)
            BY <4>2, <3>2, <1>2 DEF BookingChecked, Checked
        <5>2. SameSlot(tx'[t].row, tx[t].row)
          <6>1. CASE op = "create"
              BY <6>1, <3>1 DEF SameSlot
          <6>2. CASE op = "update"
              BY <6>2, <4>2, <3>2, <1>2, <1>3, MergeTakesSlot
                 DEF EditsCurrentSlot, AppointmentOps
          <6> QED
              BY <6>1, <6>2
        <5>3. HoldsLock(t)'
            BY <5>1, <5>2, <4>2, <3>2 DEF HoldsLock, SameSlot
        <5>4. ClearOfBlocks(t)'
            BY <5>1, <5>2, <2>1, OverlapsBySlot DEF ClearOfBlocks
        <5> QED
            BY <5>3, <5>4
      <4> QED
          BY <4>1, <4>2 DEF Checked, HasWritten
    <3>7. BlockSparesBookings(t)'
      <4> SUFFICES ASSUME op = "create_block", Checked(t)'
                   PROVE  ClearOfAppointments(t)'
          BY <3>1 DEF BlockSparesBookings
      <4>1. CASE tx'[t].pc = "write"
          BY <4>1, <3>1, <3>3, <2>1 DEF ClearOfAppointments, Blocked, MeetsAppointment, Overlaps
      <4>2. CASE HasWritten(t)'
          BY <4>2, <3>1, <3>2, <2>1, <1>2 DEF BlockSparesBookings, Checked, ClearOfAppointments
      <4> QED
          BY <4>1, <4>2 DEF Checked, HasWritten
    <3> QED
        BY <2>1, <3>4, <3>5, <3>6, <3>7, <1>4
  <2> QED
      BY <2>2, <2>3
<1>8. CASE Commit(t) /\ tx[t].op \in AppointmentOps
  <2> DEFINE id == tx[t].id  row == tx[t].row
  <2>1. /\ tx'[t] = Idle /\ HasWritten(t) /\ blocks' = blocks
        /\ id \in AppointmentIds /\ row \in Appointment
        /\ appointments'[id] = row
        /\ \A a \in AppointmentIds \ {id} : appointments'[a] = appointments[a]
      BY <1>8 DEF Commit, End, Carries, HasWritten
  <2>2. Scheduled(row) => ClearOfBlocks(t)
      BY <1>8, CommittedIsOpen DEF Commit
  <2>3. ASSUME NEW u \in Tx \ {t} PROVE Fits(u)'
    <3>1. EditsCurrentSlot(u)'
      <4> SUFFICES ASSUME tx[u].op = "update"
                   PROVE  SameSlot(tx[u].seen, appointments'[tx[u].id])
          BY <2>3, <1>1 DEF EditsCurrentSlot
      <4>1. SameSlot(tx[u].seen, appointments[tx[u].id]) /\ tx[u].id \in AppointmentIds
          BY <1>2, <1>3 DEF EditsCurrentSlot, AppointmentOps
      <4>2. CASE tx[u].id = id
        <5>1. tx[t].op \notin {"create", "update"}
            BY <4>2, <2>3 DEF InsertsAlone, SerialInv, OneEditorPerAppointment
        <5>2. SameSlot(row, appointments[id])
            BY <5>1, <1>8, <2>1, <1>2 DEF KeepsSlot
        <5> QED
            BY <5>2, <4>1, <4>2, <2>1 DEF SameSlot
      <4>3. CASE tx[u].id # id
          BY <4>1, <4>3, <2>1
      <4> QED
          BY <4>2, <4>3
    <3>2. KeepsSlot(u)'
      <4> SUFFICES ASSUME tx[u].op \in AppointmentOps \ {"create", "update"}
                   PROVE  SameSlot(tx[u].row, IF HasWritten(u) THEN appointments'[tx[u].id]
                                                               ELSE tx[u].seen)
          BY <2>3, <1>1 DEF KeepsSlot, HasWritten
      <4>1. HasWritten(u) => tx[u].id # id
          BY <1>8, <2>1, <2>3 DEF RowLocksExclude
      <4> QED
          BY <4>1, <2>1, <1>2, <1>3 DEF KeepsSlot
    <3>3. BookingChecked(u)'
        BY <2>1, <2>3, <1>1, <1>2, <1>3 DEF BookingChecked, Checked, HoldsLock, ClearOfBlocks
    <3>4. BlockSparesBookings(u)'
      <4> SUFFICES ASSUME tx[u].op = "create_block", Checked(u), Scheduled(row)
                   PROVE  ~Overlaps(tx[u].row, row)
          BY <2>1, <2>3, <1>1, <1>2 DEF BlockSparesBookings, Checked, ClearOfAppointments
      <4>1. CASE tx[t].op \in {"create", "update"}
        <5>1. HoldsLock(t)
            BY <4>1, <2>1, <1>2 DEF BookingChecked, Checked, HasWritten
        <5>2. HoldsLock(u)
            BY DEF BlocksInv, BlockChecked
        <5> QED
            BY <5>1, <5>2, <2>3 DEF HoldsLock, Overlaps
      <4>2. CASE tx[t].op \notin {"create", "update"}
        <5>1. SameSlot(row, appointments[id])
            BY <4>2, <1>8, <2>1, <1>2 DEF KeepsSlot
        <5>2. Scheduled(appointments[id])
            BY <4>2, <1>8, <2>1 DEF Carries, MovesForward, Scheduled, HasWritten
        <5>3. ~Overlaps(tx[u].row, appointments[id])
            BY <5>2, <2>1, <1>2 DEF BlockSparesBookings, ClearOfAppointments
        <5> QED
            BY <5>1, <5>3, OverlapsBySlot
      <4> QED
          BY <4>1, <4>2
    <3> QED
        BY <3>1, <3>2, <3>3, <3>4
  <2>4. BlockedTimeFree'
    <3> SUFFICES ASSUME NEW a \in AppointmentIds, NEW b \in BlockIds,
                        Scheduled(appointments'[a]), Active(blocks[b])
                 PROVE  \/ appointments'[a].professional # blocks[b].professional
                        \/ appointments'[a].end <= blocks[b].start
                        \/ blocks[b].end <= appointments'[a].start
        BY <2>1 DEF BlockedTimeFree
    <3>1. CASE a = id
      <4>1. blocks[b] \in ScheduleBlock
          BY DEF Active
      <4> QED
          BY <3>1, <4>1, <2>1, <2>2 DEF ClearOfBlocks, Overlaps, Appointment, ScheduleBlock
    <3>2. CASE a # id
        BY <3>2, <2>1 DEF SerialInv, BlockedTimeFree
    <3> QED
        BY <3>1, <3>2
  <2>5. \A u \in Tx : Fits(u)'
      BY <2>1, <2>3, <1>5
  <2> QED
      BY <2>4, <2>5 DEF SerialInv
<1>9. CASE Commit(t) /\ tx[t].op \notin AppointmentOps
  <2> DEFINE id == tx[t].id  row == tx[t].row
  <2>1. /\ tx'[t] = Idle /\ HasWritten(t) /\ appointments' = appointments
        /\ tx[t].op \in BlockOps /\ id \in BlockIds /\ row \in ScheduleBlock
        /\ blocks'[id] = row
        /\ \A b \in BlockIds \ {id} : blocks'[b] = blocks[b]
      BY <1>9 DEF Commit, End, Carries, HasWritten, Transaction
  <2>2. Active(row) => HoldsLock(t) /\ ClearOfAppointments(t)
      BY <2>1, <1>2 DEF Active, BlocksInv, WantsStatus, BlockChecked, BlockSparesBookings,
                        Checked, HasWritten, BlockOps
  <2>3. ASSUME NEW u \in Tx \ {t} PROVE Fits(u)'
    <3>1. EditsCurrentSlot(u)' /\ KeepsSlot(u)'
        BY <2>1, <2>3, <1>1, <1>2 DEF EditsCurrentSlot, KeepsSlot, HasWritten
    <3>2. BookingChecked(u)'
      <4> SUFFICES ASSUME tx[u].op \in {"create", "update"}, Checked(u)
                   PROVE  HoldsLock(u)' /\ ClearOfBlocks(u)'
          BY <2>3, <1>1 DEF BookingChecked, Checked
      <4>1. HoldsLock(u) /\ ClearOfBlocks(u)
          BY <1>2 DEF BookingChecked
      <4>2. HoldsLock(u)'
          BY <4>1, <1>1, <1>3 DEF HoldsLock
      <4>3. Active(row) => ~Overlaps(tx[u].row, row)
          BY <2>2, <2>3, <4>1 DEF HoldsLock, Overlaps
      <4>4. ClearOfBlocks(u)'
          BY <4>1, <4>3, <2>1, <2>3, <1>1 DEF ClearOfBlocks
      <4> QED
          BY <4>2, <4>4
    <3>3. BlockSparesBookings(u)'
        BY <2>1, <2>3, <1>1, <1>2 DEF BlockSparesBookings, Checked, ClearOfAppointments
    <3> QED
        BY <3>1, <3>2, <3>3
  <2>4. BlockedTimeFree'
    <3> SUFFICES ASSUME NEW a \in AppointmentIds, NEW b \in BlockIds,
                        Scheduled(appointments[a]), Active(blocks'[b])
                 PROVE  \/ appointments[a].professional # blocks'[b].professional
                        \/ appointments[a].end <= blocks'[b].start
                        \/ blocks'[b].end <= appointments[a].start
        BY <2>1 DEF BlockedTimeFree
    <3>1. CASE b = id
      <4>1. appointments[a] \in Appointment
          BY DEF Scheduled
      <4>2. ~Overlaps(row, appointments[a])
          BY <3>1, <2>1, <2>2 DEF ClearOfAppointments
      <4> QED
          BY <3>1, <4>1, <4>2, <2>1 DEF Overlaps, Appointment, ScheduleBlock
    <3>2. CASE b # id
        BY <3>2, <2>1 DEF SerialInv, BlockedTimeFree
    <3> QED
        BY <3>1, <3>2
  <2>5. \A u \in Tx : Fits(u)'
      BY <2>1, <2>3, <1>5
  <2> QED
      BY <2>4, <2>5 DEF SerialInv
<1> QED
    BY <1>6, <1>7, <1>8, <1>9

\* SerialInv holds at first.
LEMMA InitEstablishesSerialInv == Init => SerialInv
<1> SUFFICES ASSUME Init PROVE SerialInv
    OBVIOUS
<1>1. \A t \in Tx : tx[t] = Idle
    BY DEF Init
<1>2. OneEditorPerAppointment
    BY <1>1 DEF OneEditorPerAppointment, Idle
<1>3. BlockedTimeFree
    BY DEF Init, BlockedTimeFree, Active
<1> QED
    BY <1>1, <1>2, <1>3 DEF SerialInv, EditsCurrentSlot, KeepsSlot, BookingChecked,
                            BlockSparesBookings, Idle, AppointmentOps

\* SerialInv is inductive where requests wait for one another.
LEMMA NextKeepsSerialInv ==
    IInv /\ BlocksInv /\ SerialInv /\ [Next /\ OneEditorPerAppointment']_vars => SerialInv'
<1> SUFFICES ASSUME IInv, BlocksInv, SerialInv, [Next /\ OneEditorPerAppointment']_vars
             PROVE  SerialInv'
    OBVIOUS
<1>1. CASE Next /\ OneEditorPerAppointment'
    BY <1>1, StepKeepsSerialInv DEF Next
<1>2. CASE UNCHANGED vars
    BY <1>2 DEF vars, SerialInv, OneEditorPerAppointment, EditsCurrentSlot, KeepsSlot,
                BookingChecked, BlockSparesBookings, BlockedTimeFree, Checked, HoldsLock,
                HasWritten, ClearOfBlocks, ClearOfAppointments
<1> QED
    BY <1>1, <1>2

\* Clients that take turns are a special case of clients.
LEMMA SerialSpecIsSpec == SerialSpec => Spec
<1>1. [Next /\ OneEditorPerAppointment']_vars => [Next]_vars
    OBVIOUS
<1> QED
    BY <1>1, PTL DEF SerialSpec, Spec

\* The inductive invariant of bookings next to blocks.
THEOREM SerialInvariant == SerialSpec => []SerialInv
<1> QED
    BY InitEstablishesSerialInv, NextKeepsSerialInv, InductiveInvariant, BlocksInvariant,
       SerialSpecIsSpec, PTL DEF SerialSpec

\* Nobody is booked into closed time, as long as no appointment is edited twice
\* at once; the run merged_update shows that the condition is needed.
THEOREM ClosedTimeStaysFree == SerialSpec => []BlockedTimeFree
<1>1. SerialInv => BlockedTimeFree
    BY DEF SerialInv
<1> QED
    BY <1>1, SerialInvariant, PTL

-----------------------------------------------------------------------------
(* The committed tables as an agenda *)

\* Rows that do not overlap are slots apart.
LEMMA SlotsApart ==
    ASSUME NEW r \in Appointment \cup ScheduleBlock, NEW s \in Appointment \cup ScheduleBlock,
           NEW i, NEW j, ~Overlaps(r, s)
    PROVE  Agenda!Apart(SlotOf(i, r), SlotOf(j, s)) /\ Agenda!Apart(SlotOf(j, s), SlotOf(i, r))
<1>1. r.start \in Int /\ r.end \in Int /\ s.start \in Int /\ s.end \in Int
    BY DEF Appointment, ScheduleBlock
<1> QED
    BY <1>1 DEF Agenda!Apart, SlotOf, Overlaps

\* What the committing request has to have checked of the other table.
Committed(t) ==
    tx[t].pc = "commit" =>
        /\ tx[t].op \in AppointmentOps /\ Scheduled(tx[t].row) => ClearOfBlocks(t)
        /\ tx[t].op = "create_block" => ClearOfAppointments(t)

\* The commit of an appointment books, moves or settles a slot.
LEMMA CommitAppointmentKeepsAgenda ==
    ASSUME IInv, BlocksInv, NEW t \in Tx, Commit(t), Committed(t), tx[t].op \in AppointmentOps
    PROVE  [Agenda!CalendarNext]_(Agenda!calendarVars)
<1> USE DEF IInv, TypeOK
<1> DEFINE id == tx[t].id  row == tx[t].row  current == appointments[id]
           Booked == {SlotOf(a, appointments[a]) : a \in ScheduledIds}
           Others == {SlotOf(a, appointments[a]) : a \in ScheduledIds \ {id}}
           Shut == {SlotOf(b, blocks[b]) : b \in ActiveIds}
           Settled == {a \in AppointmentIds : appointments[a] # NoRow
                                              /\ appointments[a].status # "scheduled"}
           Reopened == {b \in BlockIds : blocks[b] # NoRow /\ blocks[b].status # "active"}
           Old == SlotOf(id, current)
           New == SlotOf(id, row)
<1>1. /\ HasWritten(t) /\ id \in AppointmentIds /\ row \in Appointment /\ row # NoRow
      /\ blocks' = blocks /\ appointments'[id] = row
      /\ \A a \in AppointmentIds \ {id} : appointments'[a] = appointments[a]
    BY NullAssumption DEF Commit, Carries, HasWritten
<1>2. UNCHANGED <<Shut, Reopened>>
    BY <1>1 DEF ActiveIds
<1>3. /\ Scheduled(current) => Booked = Others \cup {Old}
      /\ ~Scheduled(current) => Booked = Others
    BY <1>1 DEF ScheduledIds
<1>4. /\ Scheduled(row) => Booked' = Others \cup {New}
      /\ ~Scheduled(row) => Booked' = Others
  <2>1. Scheduled(row) => ScheduledIds' = ScheduledIds \cup {id}
      BY <1>1 DEF ScheduledIds
  <2>2. ~Scheduled(row) => ScheduledIds' = ScheduledIds \ {id}
      BY <1>1 DEF ScheduledIds
  <2> QED
      BY <1>1, <2>1, <2>2 DEF ScheduledIds
<1>5. /\ \A x \in Others : x.id # id
      /\ Old.id = id /\ New.id = id
    BY DEF SlotOf
<1>6. Scheduled(row) => \A y \in Others \cup Shut : Agenda!Apart(New, y)
  <2> SUFFICES ASSUME Scheduled(row)
               PROVE  \A y \in Others \cup Shut : Agenda!Apart(New, y)
      OBVIOUS
  <2>1. ASSUME NEW a \in ScheduledIds \ {id}
        PROVE  Agenda!Apart(New, SlotOf(a, appointments[a]))
    <3>1. a \in AppointmentIds \ {id} /\ Scheduled(appointments[a]) /\ appointments[a] \in Appointment
        BY DEF ScheduledIds, Scheduled
    <3>2. ~Overlaps(row, appointments[a])
        BY <1>1, <3>1 DEF Commit, WrittenFits, Pending
    <3> QED
        BY <1>1, <3>1, <3>2, SlotsApart
  <2>2. ASSUME NEW b \in ActiveIds
        PROVE  Agenda!Apart(New, SlotOf(b, blocks[b]))
    <3>1. b \in BlockIds /\ Active(blocks[b]) /\ blocks[b] \in ScheduleBlock
        BY DEF ActiveIds, Active
    <3>2. ~Overlaps(row, blocks[b])
        BY <3>1 DEF Commit, Committed, ClearOfBlocks
    <3> QED
        BY <1>1, <3>1, <3>2, SlotsApart
  <2> QED
      BY <2>1, <2>2
<1>7. CASE tx[t].op = "create"
  <2>1. /\ current = NoRow /\ Scheduled(row)
      BY <1>7 DEF InsertsAlone, BlocksInv, WantsStatus
  <2>2. Settled' = Settled /\ id \notin Settled
      BY <1>1, <2>1 DEF Scheduled
  <2>3. Booked = Others /\ Booked' = Others \cup {New}
      BY <2>1, <1>3, <1>4 DEF Scheduled
  <2>4. Agenda!Book(New)
      BY <2>1, <2>2, <2>3, <1>2, <1>5, <1>6 DEF Agenda!Book, Agenda!Clear
  <2>5. New \in Agenda!Taken(Booked', id)
      BY <2>3, <1>5 DEF Agenda!Taken
  <2> QED
      BY <2>4, <2>5, <1>1 DEF Agenda!CalendarNext
<1>8. CASE tx[t].op # "create" /\ Scheduled(current) /\ Scheduled(row)
  <2>1. Settled' = Settled
      BY <1>1, <1>8 DEF Scheduled
  <2>2. Booked = Others \cup {Old} /\ Booked' = Others \cup {New} /\ Old \notin Others
      BY <1>8, <1>3, <1>4, <1>5
  <2>3. Booked \ {Old} = Others
      BY <2>2
  <2>4. Agenda!Move(Old, New)
      BY <2>1, <2>2, <2>3, <1>8, <1>2, <1>5, <1>6 DEF Agenda!Move, Agenda!Clear
  <2>5. New \in Agenda!Taken(Booked', id) /\ Old \in Agenda!Taken(Booked, id)
      BY <2>2, <1>5 DEF Agenda!Taken
  <2> QED
      BY <2>4, <2>5, <1>1 DEF Agenda!CalendarNext
<1>9. CASE tx[t].op # "create" /\ Scheduled(current) /\ ~Scheduled(row)
  <2>1. Settled' = Settled \cup {id}
      BY <1>1, <1>9 DEF Scheduled
  <2>2. Booked = Others \cup {Old} /\ Booked' = Others /\ Old \notin Others
      BY <1>9, <1>3, <1>4, <1>5
  <2>3. Booked' = Booked \ {Old} /\ Old \in Booked
      BY <2>2
  <2>4. /\ Settled' = Settled \cup {Old.id}
        /\ UNCHANGED <<Shut, Reopened>>
      BY <2>1, <1>2, <1>5
  <2> HIDE DEF Booked, Settled, Shut, Reopened, Old
  <2>5. \E x \in Booked : /\ Booked' = Booked \ {x}
                          /\ Settled' = Settled \cup {x.id}
                          /\ UNCHANGED <<Shut, Reopened>>
      BY <2>3, <2>4
  <2> USE DEF Booked, Settled, Shut, Reopened
  <2>6. \E x \in Booked : Agenda!Settle(x)
      BY <2>5 DEF Agenda!Settle
  <2> QED
      BY <2>6 DEF Agenda!CalendarNext
<1>10. CASE tx[t].op # "create" /\ ~Scheduled(current)
  <2>1. current # NoRow /\ current.status # "scheduled"
      BY <1>10 DEF Carries, Scheduled
  <2>2. row.status # "scheduled" /\ ~Scheduled(row)
      BY <2>1, <1>1, <1>10 DEF MovesForward, Scheduled
  <2>3. Settled' = Settled
      BY <1>1, <2>1, <2>2
  <2>4. Booked' = Booked
      BY <2>2, <1>3, <1>4, <1>10
  <2> QED
      BY <2>3, <2>4, <1>2 DEF Agenda!calendarVars
<1> QED
    BY <1>7, <1>8, <1>9, <1>10

\* The commit of a block shuts or reopens a slot.
LEMMA CommitBlockKeepsAgenda ==
    ASSUME IInv, BlocksInv, NEW t \in Tx, Commit(t), Committed(t), tx[t].op \notin AppointmentOps
    PROVE  [Agenda!CalendarNext]_(Agenda!calendarVars)
<1> USE DEF IInv, TypeOK
<1> DEFINE id == tx[t].id  row == tx[t].row  current == blocks[id]
           Booked == {SlotOf(a, appointments[a]) : a \in ScheduledIds}
           Settled == {a \in AppointmentIds : appointments[a] # NoRow
                                              /\ appointments[a].status # "scheduled"}
           Shut == {SlotOf(b, blocks[b]) : b \in ActiveIds}
           Others == {SlotOf(b, blocks[b]) : b \in ActiveIds \ {id}}
           Reopened == {b \in BlockIds : blocks[b] # NoRow /\ blocks[b].status # "active"}
           Old == SlotOf(id, current)
           New == SlotOf(id, row)
<1>1. /\ HasWritten(t) /\ tx[t].op \in BlockOps /\ id \in BlockIds
      /\ row \in ScheduleBlock /\ row # NoRow
      /\ appointments' = appointments /\ blocks'[id] = row
      /\ \A b \in BlockIds \ {id} : blocks'[b] = blocks[b]
    BY NullAssumption DEF Commit, Carries, HasWritten, Transaction
<1>2. UNCHANGED <<Booked, Settled>>
    BY <1>1 DEF ScheduledIds
<1>3. /\ Active(current) => Shut = Others \cup {Old}
      /\ ~Active(current) => Shut = Others
    BY <1>1 DEF ActiveIds
<1>4. /\ Active(row) => Shut' = Others \cup {New}
      /\ ~Active(row) => Shut' = Others
  <2>1. Active(row) => ActiveIds' = ActiveIds \cup {id}
      BY <1>1 DEF ActiveIds
  <2>2. ~Active(row) => ActiveIds' = ActiveIds \ {id}
      BY <1>1 DEF ActiveIds
  <2> QED
      BY <1>1, <2>1, <2>2 DEF ActiveIds
<1>5. /\ \A x \in Others : x.id # id
      /\ Old.id = id /\ New.id = id
    BY DEF SlotOf
<1>6. CASE tx[t].op = "create_block"
  <2>1. current = NoRow /\ Active(row) /\ ClearOfBlocks(t) /\ ClearOfAppointments(t)
      BY <1>1, <1>6 DEF BlocksInv, WantsStatus, InsertsBlockAlone, BlockChecked, Checked,
                        HasWritten, Committed
  <2>2. Reopened' = Reopened /\ id \notin Reopened
      BY <1>1, <2>1 DEF Active
  <2>3. Shut = Others /\ Shut' = Others \cup {New}
      BY <2>1, <1>3, <1>4 DEF Active
  <2>4. ASSUME NEW a \in ScheduledIds
        PROVE  Agenda!Apart(New, SlotOf(a, appointments[a]))
    <3>1. a \in AppointmentIds /\ Scheduled(appointments[a]) /\ appointments[a] \in Appointment
        BY DEF ScheduledIds, Scheduled
    <3>2. ~Overlaps(row, appointments[a])
        BY <2>1, <3>1 DEF ClearOfAppointments
    <3> QED
        BY <1>1, <3>1, <3>2, SlotsApart
  <2>5. ASSUME NEW b \in ActiveIds
        PROVE  Agenda!Apart(New, SlotOf(b, blocks[b]))
    <3>1. b \in BlockIds /\ Active(blocks[b]) /\ blocks[b] \in ScheduleBlock
        BY DEF ActiveIds, Active
    <3>2. ~Overlaps(row, blocks[b])
        BY <2>1, <3>1 DEF ClearOfBlocks
    <3> QED
        BY <1>1, <3>1, <3>2, SlotsApart
  <2>6. \A y \in Booked \cup Shut : Agenda!Apart(New, y)
      BY <2>4, <2>5
  <2>7. Agenda!Shut(New)
      BY <2>1, <2>2, <2>3, <2>6, <1>2, <1>5 DEF Agenda!Shut, Agenda!Clear
  <2>8. New \in Agenda!Taken(Shut', id)
      BY <2>3, <1>5 DEF Agenda!Taken
  <2> QED
      BY <2>7, <2>8, <1>1 DEF Agenda!CalendarNext
<1>7. CASE tx[t].op = "cancel_block"
  <2>1. current # NoRow /\ row.status = "canceled" /\ ~Active(row)
      BY <1>7 DEF Carries, BlocksInv, WantsStatus, Active
  <2>2. CASE Active(current)
    <3>1. Reopened' = Reopened \cup {id}
        BY <1>1, <2>1, <2>2 DEF Active
    <3>2. Shut = Others \cup {Old} /\ Shut' = Others /\ Old \notin Others
        BY <2>1, <2>2, <1>3, <1>4, <1>5
    <3>3. Shut' = Shut \ {Old} /\ Old \in Shut
        BY <3>2
    <3>4. Reopened' = Reopened \cup {Old.id} /\ UNCHANGED <<Booked, Settled>>
        BY <3>1, <1>2, <1>5
    <3> HIDE DEF Booked, Settled, Shut, Reopened, Old
    <3>5. \E x \in Shut : /\ Shut' = Shut \ {x}
                          /\ Reopened' = Reopened \cup {x.id}
                          /\ UNCHANGED <<Booked, Settled>>
        BY <3>3, <3>4
    <3> USE DEF Booked, Settled, Shut, Reopened
    <3>6. \E x \in Shut : Agenda!Reopen(x)
        BY <3>5 DEF Agenda!Reopen
    <3> QED
        BY <3>6 DEF Agenda!CalendarNext
  <2>3. CASE ~Active(current)
    <3>1. Reopened' = Reopened
        BY <1>1, <2>1, <2>3 DEF Active
    <3>2. Shut' = Shut
        BY <2>1, <2>3, <1>3, <1>4
    <3> QED
        BY <3>1, <3>2, <1>2 DEF Agenda!calendarVars
  <2> QED
      BY <2>2, <2>3
<1> QED
    BY <1>1, <1>6, <1>7 DEF BlockOps

\* Every step is one of the agenda or leaves it alone.
LEMMA StepKeepsAgenda ==
    ASSUME IInv, BlocksInv, [Next]_vars, \A t \in Tx : Committed(t)
    PROVE  [Agenda!CalendarNext]_(Agenda!calendarVars)
<1>1. CASE UNCHANGED <<appointments, blocks>>
    BY <1>1 DEF Agenda!calendarVars, ScheduledIds, ActiveIds
<1>2. CASE ~UNCHANGED <<appointments, blocks>>
  <2>1. PICK t \in Tx : Commit(t)
      BY <1>2, OnlyCommitChangesTables DEF Next, vars
  <2> QED
      BY <2>1, CommitAppointmentKeepsAgenda, CommitBlockKeepsAgenda
<1> QED
    BY <1>1, <1>2

\* The first state is the empty calendar.
LEMMA InitIsEmptyAgenda == Init => Agenda!CalendarInit
BY NullAssumption DEF Init, Agenda!CalendarInit, ScheduledIds, ActiveIds, Scheduled, Active

\* With one editor per appointment, committed transactions change bookings and
\* blocks as if they were made one at a time, each in a slot that is free.
THEOREM ImplementsCalendar == SerialSpec => KeepsCalendar
<1>1. IInv /\ BlocksInv /\ SerialInv /\ [Next /\ OneEditorPerAppointment']_vars
        => [Agenda!CalendarNext]_(Agenda!calendarVars)
  <2> SUFFICES ASSUME IInv, BlocksInv, SerialInv, [Next]_vars
               PROVE  [Agenda!CalendarNext]_(Agenda!calendarVars)
      OBVIOUS
  <2>1. \A t \in Tx : Committed(t)
      BY CommittedIsOpen DEF Committed, SerialInv, BlockSparesBookings, Checked
  <2> QED
      BY <2>1, StepKeepsAgenda
<1> QED
    BY <1>1, InitIsEmptyAgenda, InductiveInvariant, BlocksInvariant, SerialInvariant,
       SerialSpecIsSpec, PTL DEF SerialSpec, KeepsCalendar, Agenda!CalendarSpec

\* Without blocks the same holds of every behaviour: it is only between two
\* tables that concurrent edits of one appointment need the condition.
THEOREM AppointmentsImplementCalendar ==
    ASSUME BlockIds = {}
    PROVE  Spec => KeepsCalendar
<1>1. IInv /\ BlocksInv /\ [Next]_vars => [Agenda!CalendarNext]_(Agenda!calendarVars)
  <2> SUFFICES ASSUME IInv, BlocksInv, [Next]_vars
               PROVE  [Agenda!CalendarNext]_(Agenda!calendarVars)
      OBVIOUS
  <2>1. \A t \in Tx : Committed(t)
      BY DEF Committed, ClearOfBlocks, IInv, Carries, BlockOps
  <2> QED
      BY <2>1, StepKeepsAgenda
<1> QED
    BY <1>1, InitIsEmptyAgenda, InductiveInvariant, BlocksInvariant, PTL
       DEF Spec, KeepsCalendar, Agenda!CalendarSpec

\* Being apart is mutual.
LEMMA ApartIsMutual == \A x, y : Agenda!Apart(x, y) <=> Agenda!Apart(y, x)
BY DEF Agenda!Apart

\* A calendar keeps slots apart: what is booked, moved or shut is clear of the rest.
LEMMA CalendarStepKeepsApart ==
    ASSUME Agenda!NobodyTwice, [Agenda!CalendarNext]_(Agenda!calendarVars)
    PROVE  Agenda!NobodyTwice'
<1> DEFINE booked == {SlotOf(id, appointments[id]) : id \in ScheduledIds}
           shut == {SlotOf(id, blocks[id]) : id \in ActiveIds}
           AllApart(b, s) == /\ \A x, y \in b : x # y => Agenda!Apart(x, y)
                             /\ \A x, y \in s : x # y => Agenda!Apart(x, y)
                             /\ \A x \in b, y \in s : Agenda!Apart(x, y)
           b1 == booked'
           s1 == shut'
<1>1. AllApart(booked, shut)
    BY DEF Agenda!NobodyTwice
<1>2. ASSUME NEW x, NEW b, b \subseteq booked, Agenda!Clear(x, b \cup shut), s1 = shut,
             b1 = b \cup {x}
      PROVE  AllApart(b1, s1)
  <2> HIDE DEF booked, shut, b1, s1
  <2> QED
      BY <1>1, <1>2, ApartIsMutual DEF Agenda!Clear
<1>3. ASSUME NEW x, Agenda!Clear(x, booked \cup shut), b1 = booked, s1 = shut \cup {x}
      PROVE  AllApart(b1, s1)
  <2> HIDE DEF booked, shut, b1, s1
  <2> QED
      BY <1>1, <1>3, ApartIsMutual DEF Agenda!Clear
<1>4. ASSUME b1 \subseteq booked, s1 \subseteq shut
      PROVE  AllApart(b1, s1)
  <2> HIDE DEF booked, shut, b1, s1
  <2> QED
      BY <1>1, <1>4
<1>5. \/ \E x, y : Agenda!Book(y) \/ Agenda!Move(x, y)
      \/ \E x : Agenda!Settle(x) \/ Agenda!Shut(x) \/ Agenda!Reopen(x)
      \/ b1 = booked /\ s1 = shut
    BY DEF Agenda!CalendarNext, Agenda!calendarVars
<1>6. ASSUME NEW y, Agenda!Book(y)
      PROVE  AllApart(b1, s1)
    BY <1>2, <1>6 DEF Agenda!Book
<1>7. ASSUME NEW x, NEW y, Agenda!Move(x, y)
      PROVE  AllApart(b1, s1)
    BY <1>2, <1>7 DEF Agenda!Move
<1>8. ASSUME NEW x, Agenda!Shut(x)
      PROVE  AllApart(b1, s1)
    BY <1>3, <1>8 DEF Agenda!Shut
<1>9. ASSUME NEW x, Agenda!Settle(x) \/ Agenda!Reopen(x)
      PROVE  AllApart(b1, s1)
    BY <1>4, <1>9 DEF Agenda!Settle, Agenda!Reopen
<1>10. AllApart(b1, s1)
  <2> HIDE DEF booked, shut, b1, s1, AllApart
  <2> QED
      BY <1>4, <1>5, <1>6, <1>7, <1>8, <1>9
<1> QED
    BY <1>10 DEF Agenda!NobodyTwice

\* The abstract specification keeps its own promise, so whoever implements it does:
\* of the committed tables nobody is in two places, and no booking is in closed time.
THEOREM CalendarKeepsApart == KeepsCalendar => []NobodyInTwoPlaces
<1>1. Agenda!CalendarInit => Agenda!NobodyTwice
    BY DEF Agenda!CalendarInit, Agenda!NobodyTwice
<1> QED
    BY <1>1, CalendarStepKeepsApart, PTL
       DEF KeepsCalendar, Agenda!CalendarSpec, NobodyInTwoPlaces

\* Hence the service keeps it, with one editor per appointment.
THEOREM ServiceKeepsApart == SerialSpec => []NobodyInTwoPlaces
BY ImplementsCalendar, CalendarKeepsApart, PTL

-----------------------------------------------------------------------------
(* Waiting *)

\* A step of a request ends it, and its locks with it, or leads on: from the lock
\* to the write, from the write to the end.
LEMMA EndsOrLeadsOn ==
    ASSUME IInv, NEW t \in Tx, Progress(t) \/ Crash(t)
    PROVE  \/ End(t)
           \/ /\ \/ tx[t].pc = "lock" /\ tx'[t].pc = "write"
                 \/ tx[t].pc = "write" /\ tx'[t].pc \in {"commit", "unhandled"}
              /\ \/ schedule_lock' = schedule_lock
                 \/ /\ tx[t].pc = "lock"
                    /\ schedule_lock' = [schedule_lock EXCEPT ![tx[t].row.professional] = t]
<1>1. CASE Rollback(t) \/ Commit(t)
    BY <1>1 DEF Rollback, Commit
<1>2. ASSUME NEW pc, tx' = [tx EXCEPT ![t].pc = pc] PROVE tx'[t].pc = pc
    BY <1>2 DEF IInv, TypeOK, Transaction
<1>3. ASSUME NEW row, Write(t, row)
      PROVE  tx'[t].pc = "commit" /\ schedule_lock' = schedule_lock
    BY <1>3 DEF Write, IInv, TypeOK, Transaction
<1>4. CASE LockSchedule(t)
    BY <1>1, <1>2, <1>4 DEF LockSchedule
<1>5. CASE InsertAppointment(t) \/ InsertBlock(t) \/ WriteBlock(t)
    BY <1>1, <1>3, <1>5 DEF InsertAppointment, InsertBlock, WriteBlock
<1>6. CASE WriteAppointment(t)
    BY <1>1, <1>2, <1>3, <1>6 DEF WriteAppointment, Goto
<1>7. CASE WriteNothing(t) \/ FailUnhandled(t) \/ Crash(t)
    BY <1>1, <1>7 DEF WriteNothing, FailUnhandled, Crash
<1> QED
    BY <1>1, <1>4, <1>5, <1>6, <1>7 DEF Progress

\* The first step of a request starts from an idle transaction and takes no lock.
LEMMA StartsIdle ==
    ASSUME NEW t \in Tx, Request(t)
    PROVE  schedule_lock' = schedule_lock /\ (tx' = tx \/ tx[t].pc = "idle")
BY DEF Request, CreateAppointment, UpdateAppointment, CompleteAppointment, ConfirmAppointment,
       CancelAppointment, RefuseAppointment, CreateBlock, CancelBlock, Begin, vars

\* Whoever holds a lock stays past its queries until it ends.
LEMMA NextKeepsHoldersOpen == IInv /\ HoldersOpen /\ [Next]_vars => HoldersOpen'
<1> SUFFICES ASSUME IInv, HoldersOpen, [Next]_vars,
                    NEW p \in Professionals, schedule_lock'[p] # NoTx
             PROVE  tx'[schedule_lock'[p]].pc \in {"write", "commit", "unhandled"}
    BY DEF HoldersOpen
<1> DEFINE Past == {"write", "commit", "unhandled"}
<1>0. schedule_lock[p] \in Tx \cup {NoTx} /\ NoTx \notin Tx
    BY NullAssumption DEF IInv, TypeOK
<1>1. CASE UNCHANGED vars
    BY <1>1 DEF vars, HoldersOpen
<1>2. ASSUME NEW t \in Tx, Request(t) \/ Progress(t) \/ Crash(t)
      PROVE  tx'[schedule_lock'[p]].pc \in Past
  <2>1. CASE schedule_lock'[p] = schedule_lock[p]
    <3> DEFINE u == schedule_lock[p]
    <3>1. u \in Tx /\ tx[u].pc \in Past
        BY <2>1, <1>0 DEF HoldersOpen
    <3>2. CASE u # t
        BY <2>1, <3>1, <3>2, <1>2, OthersKept
    <3>3. CASE u = t
      <4>1. CASE Request(t)
          BY <4>1, <2>1, <3>1, <3>3, StartsIdle
      <4>2. CASE End(t)
          BY <4>2, <2>1, <3>3, <1>0 DEF End
      <4>3. CASE tx'[t].pc \in Past
          BY <4>3, <2>1, <3>3
      <4> QED
          BY <4>1, <4>2, <4>3, <1>2, EndsOrLeadsOn
    <3> QED
        BY <3>2, <3>3
  <2>2. CASE schedule_lock'[p] # schedule_lock[p]
    <3>1. ~Request(t)
        BY <2>2, StartsIdle
    <3>2. ~End(t)
        BY <2>2, <1>0 DEF End
    <3>3. /\ schedule_lock' = [schedule_lock EXCEPT ![tx[t].row.professional] = t]
          /\ tx[t].pc = "lock" /\ tx'[t].pc \in Past
        BY <3>1, <3>2, <2>2, <1>2, EndsOrLeadsOn
    <3>4. schedule_lock'[p] = t
        BY <3>3, <2>2 DEF IInv, TypeOK
    <3> QED
        BY <3>3, <3>4
  <2> QED
      BY <2>1, <2>2
<1> QED
    BY <1>1, <1>2 DEF Next

\* A request that cannot go on waits for another one.
LEMMA WaitsForSomebody ==
    ASSUME IInv, NEW t \in Tx, tx[t].pc # "idle", ~GoesOn(t)
    PROVE  \E u \in Tx : WaitsFor(t, u)
<1>1. tx[t] \in Transaction
    BY DEF IInv, TypeOK
<1>2. CASE tx[t].pc = "lock"
  <2>1. tx[t].row \in Appointment \cup ScheduleBlock
      BY <1>1, <1>2 DEF IInv, Carries, Transaction
  <2>2. tx[t].row.professional \in Professionals
      BY <2>1 DEF Appointment, ScheduleBlock
  <2>3. schedule_lock[tx[t].row.professional] \in Tx
      BY <2>2, <1>2 DEF GoesOn, IInv, TypeOK
  <2> QED
      BY <1>2, <2>3 DEF WaitsFor
<1>3. CASE tx[t].pc = "write"
  <2>1. \/ RowLocked(t, tx[t].id)
        \/ RivalRows(t) # {} /\ \A i \in RivalRows(t) : RowLocked(t, i)
        \/ RivalTx(t) # {}
      BY <1>3 DEF GoesOn
  <2>2. CASE \E i : RowLocked(t, i) /\ (i = tx[t].id \/ i \in RivalRows(t))
      BY <1>3, <2>2 DEF RowLocked, WaitsFor
  <2>3. CASE RivalTx(t) # {}
    <3>1. PICK u \in RivalTx(t) : TRUE
        BY <2>3
    <3>2. u \in Tx \ {t} /\ HasWritten(u)
        BY <3>1 DEF RivalTx, UncommittedAppointmentRivals, UncommittedBlockRivals
    <3> QED
        BY <1>3, <3>1, <3>2 DEF WaitsFor
  <2> QED
      BY <2>1, <2>2, <2>3
<1> QED
    BY <1>1, <1>2, <1>3 DEF Transaction, GoesOn

\* Whoever is waited for is further on.
LEMMA WaitedForIsLater ==
    ASSUME IInv, HoldersOpen, NEW t \in Tx, NEW u \in Tx, WaitsFor(t, u)
    PROVE  Stage(t) < Stage(u) /\ tx[u].pc \in {"write", "commit", "unhandled"}
<1>1. CASE tx[t].pc = "lock" /\ schedule_lock[tx[t].row.professional] = u
  <2>1. tx[t] \in Transaction /\ tx[t].row \in Appointment \cup ScheduleBlock
      BY <1>1 DEF IInv, TypeOK, Carries, Transaction
  <2>2. tx[t].row.professional \in Professionals
      BY <2>1 DEF Appointment, ScheduleBlock
  <2>3. tx[u].pc \in {"write", "commit", "unhandled"}
      BY <1>1, <2>2, NullAssumption DEF HoldersOpen
  <2> QED
      BY <1>1, <2>3 DEF Stage
<1>2. CASE tx[t].pc = "write" /\ HasWritten(u)
    BY <1>2 DEF Stage, HasWritten
<1> QED
    BY <1>1, <1>2 DEF WaitsFor

\* The locks of the service never leave requests waiting in a circle, for any
\* number of requests, professionals and rows.
THEOREM WaitingIsNoCircle == Spec => []WaitsForLater
<1>1. Init => HoldersOpen
    BY DEF Init, HoldersOpen
<1>2. IInv /\ HoldersOpen => WaitsForLater
    BY WaitsForSomebody, WaitedForIsLater DEF WaitsForLater
<1> QED
    BY <1>1, <1>2, NextKeepsHoldersOpen, InductiveInvariant, PTL DEF Spec

\* As long as a request is open, one can go on: the chain of those who wait ends
\* after at most two.
THEOREM NeverAllWaiting == Spec => []SomebodyGoesOn
<1>1. Init => HoldersOpen
    BY DEF Init, HoldersOpen
<1>2. IInv /\ HoldersOpen => SomebodyGoesOn
  <2> SUFFICES ASSUME IInv, HoldersOpen, NEW t \in Tx, tx[t].pc # "idle"
               PROVE  \E u \in Tx : GoesOn(u)
      BY DEF SomebodyGoesOn
  <2>1. CASE ~GoesOn(t)
    <3>1. PICK u \in Tx : Stage(t) < Stage(u) /\ tx[u].pc \in {"write", "commit", "unhandled"}
        BY <2>1, WaitsForSomebody, WaitedForIsLater
    <3>2. CASE ~GoesOn(u)
      <4>1. tx[u].pc = "write"
          BY <3>1, <3>2 DEF GoesOn
      <4>2. PICK v \in Tx : Stage(u) < Stage(v) /\ tx[v].pc \in {"write", "commit", "unhandled"}
          BY <3>1, <3>2, WaitsForSomebody, WaitedForIsLater
      <4>3. tx[v].pc \in {"commit", "unhandled"}
          BY <4>1, <4>2 DEF Stage
      <4> QED
          BY <4>3 DEF GoesOn
    <3> QED
        BY <3>2
  <2> QED
      BY <2>1
<1> QED
    BY <1>1, <1>2, NextKeepsHoldersOpen, InductiveInvariant, PTL DEF Spec

\* Every step of an open request leads on or ends it.
THEOREM StepsLeadOn == Spec => OnlyForward
<1>1. IInv /\ [Next]_vars =>
        [\A t \in Tx : tx'[t] # tx[t] /\ tx[t].pc # "idle"
           => tx'[t].pc = "idle" \/ Stage(t) < Stage(t)']_vars
  <2> SUFFICES ASSUME IInv, [Next]_vars, NEW t \in Tx, tx'[t] # tx[t], tx[t].pc # "idle"
               PROVE  tx'[t].pc = "idle" \/ Stage(t) < Stage(t)'
      OBVIOUS
  <2>1. PICK u \in Tx : Request(u) \/ Progress(u) \/ Crash(u)
      BY DEF Next, vars
  <2>2. u = t
      BY <2>1, OthersKept
  <2>3. Progress(t) \/ Crash(t)
      BY <2>1, <2>2, StartsIdle
  <2>4. CASE End(t)
      BY <2>4 DEF End, Idle, IInv, TypeOK
  <2>5. CASE \/ tx[t].pc = "lock" /\ tx'[t].pc = "write"
             \/ tx[t].pc = "write" /\ tx'[t].pc \in {"commit", "unhandled"}
      BY <2>5 DEF Stage
  <2> QED
      BY <2>3, <2>4, <2>5, EndsOrLeadsOn
<1> QED
    BY <1>1, InductiveInvariant, PTL DEF Spec, OnlyForward
=============================================================================
