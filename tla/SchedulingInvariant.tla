------------------------- MODULE SchedulingInvariant -------------------------
(***************************************************************************)
(* What open transactions keep true between their steps: the inductive      *)
(* invariants behind NoDoubleBooking, ClosedStaysClosed, ConfirmationKept   *)
(* and, under the lock of a professional, behind BlocksDisjoint,            *)
(* BlockedTimeFree and KeepsCalendar.                                       *)
(***************************************************************************)
EXTENDS Scheduling

\* What an open transaction carries fits the table its operation works on.
Carries ==
    \A t \in Tx :
        /\ tx[t].pc = "idle" => tx[t].op = "none" /\ tx[t].id = NoId
        /\ tx[t].pc # "idle" => tx[t].op # "none"
        /\ tx[t].op \in AppointmentOps
             => tx[t].id \in AppointmentIds /\ tx[t].row \in Appointment
        /\ tx[t].op \in BlockOps
             => tx[t].id \in BlockIds /\ tx[t].row \in ScheduleBlock
        /\ tx[t].op \in AppointmentOps \ {"create"}
             => tx[t].seen \in Appointment /\ appointments[tx[t].id] # NoRow
        /\ tx[t].op = "cancel_block" => blocks[tx[t].id] # NoRow

\* The key of a row being inserted belongs to that insert alone.
InsertsAlone ==
    \A t \in Tx : tx[t].op = "create"
        => /\ appointments[tx[t].id] = NoRow
           /\ \A u \in Tx \ {t} : tx[u].id # tx[t].id

\* Two transactions never have uncommitted versions of one row.
RowLocksExclude ==
    \A t, u \in Tx : t # u /\ HasWritten(t) /\ HasWritten(u)
                        /\ tx[t].op \in AppointmentOps /\ tx[u].op \in AppointmentOps
                      => tx[t].id # tx[u].id

Pending(t) == HasWritten(t) /\ tx[t].op \in AppointmentOps /\ Scheduled(tx[t].row)

\* A written row fits the committed rows and the other written rows.
WrittenFits ==
    \A t \in Tx : Pending(t) =>
        /\ \A i \in AppointmentIds \ {tx[t].id} :
              Scheduled(appointments[i]) => ~Overlaps(tx[t].row, appointments[i])
        /\ \A u \in Tx \ {t} : Pending(u) => ~Overlaps(tx[t].row, tx[u].row)

\* A request moves the status only away from scheduled and the confirmation
\* only to FALSE; so does the row it has written.
MovesForward ==
    \A t \in Tx : tx[t].op \in AppointmentOps \ {"create"} =>
        LET row == tx[t].row  from == IF HasWritten(t) THEN appointments[tx[t].id]
                                                      ELSE tx[t].seen
        IN  /\ row.status = from.status \/ row.status # "scheduled"
            /\ row.confirmation_pending = from.confirmation_pending
                 \/ row.confirmation_pending = FALSE

IInv ==
    /\ TypeOK
    /\ Carries
    /\ InsertsAlone
    /\ RowLocksExclude
    /\ WrittenFits
    /\ MovesForward
    /\ NoDoubleBooking

-----------------------------------------------------------------------------
(* Under the lock of a professional *)

\* The request is through its queries under the lock.
Checked(t) == tx[t].pc \in {"write", "commit"}

HoldsLock(t) == schedule_lock[tx[t].row.professional] = t

ClearOfBlocks(t) ==
    \A b \in BlockIds : Active(blocks[b]) => ~Overlaps(tx[t].row, blocks[b])

ClearOfAppointments(t) ==
    \A a \in AppointmentIds :
        Scheduled(appointments[a]) => ~Overlaps(tx[t].row, appointments[a])

\* What an insert or the end of a block wants of the status.
WantsStatus(t) ==
    /\ tx[t].op = "create" => Scheduled(tx[t].row)
    /\ tx[t].op = "create_block" => Active(tx[t].row)
    /\ tx[t].op = "cancel_block" => tx[t].row.status = "canceled"

\* The key of a block being inserted belongs to that insert alone.
InsertsBlockAlone(t) == tx[t].op = "create_block" =>
    /\ blocks[tx[t].id] = NoRow
    /\ \A u \in Tx \ {t} : tx[u].id # tx[t].id

\* A new block stays clear of the others from its check to its commit.
BlockChecked(t) == tx[t].op = "create_block" /\ Checked(t) =>
    /\ HoldsLock(t)
    /\ ClearOfBlocks(t)

\* Of every behaviour of the service.
BlocksInv ==
    /\ \A t \in Tx : WantsStatus(t) /\ InsertsBlockAlone(t) /\ BlockChecked(t)
    /\ BlocksDisjoint

-----------------------------------------------------------------------------
(* With one editor per appointment *)

SameSlot(r, s) ==
    /\ r.professional = s.professional
    /\ r.start = s.start
    /\ r.end = s.end

\* Nothing moves an appointment between the time an edit reads it and the time
\* it writes.
EditsCurrentSlot(t) == tx[t].op = "update" =>
    SameSlot(tx[t].seen, appointments[tx[t].id])

\* The other operations leave the slot where the table has it.
KeepsSlot(t) == tx[t].op \in AppointmentOps \ {"create", "update"} =>
    SameSlot(tx[t].row, IF HasWritten(t) THEN appointments[tx[t].id] ELSE tx[t].seen)

\* A booking stays clear of blocks, from its check to its commit...
BookingChecked(t) == tx[t].op \in {"create", "update"} /\ Checked(t) =>
    /\ HoldsLock(t)
    /\ ClearOfBlocks(t)

\* ... and a block of bookings.
BlockSparesBookings(t) == tx[t].op = "create_block" /\ Checked(t) =>
    ClearOfAppointments(t)

\* Of every behaviour in which nobody edits an appointment twice at once.
SerialInv ==
    /\ OneEditorPerAppointment
    /\ \A t \in Tx : /\ EditsCurrentSlot(t) /\ KeepsSlot(t)
                     /\ BookingChecked(t) /\ BlockSparesBookings(t)
    /\ BlockedTimeFree

-----------------------------------------------------------------------------
(* Who waits for whom *)

\* The row the statement of t would leave, and what refuses it or makes it wait:
\* committed rows, and transactions that have written.
RowToWrite(t) ==
    IF tx[t].op \in AppointmentOps \ {"create"}
    THEN MergeAppointment(tx[t].row, tx[t].seen, appointments[tx[t].id])
    ELSE tx[t].row

RivalRows(t) ==
    IF tx[t].op \in AppointmentOps THEN AppointmentRivals(tx[t].id, RowToWrite(t))
    ELSE IF tx[t].op = "create_block" THEN BlockRivals(tx[t].id, tx[t].row) ELSE {}

RivalTx(t) ==
    IF tx[t].op \in AppointmentOps THEN UncommittedAppointmentRivals(t, RowToWrite(t))
    ELSE IF tx[t].op = "create_block" THEN UncommittedBlockRivals(t, tx[t].row) ELSE {}

\* t needs nobody for its next statement: the lock is free; there is nothing to
\* write, or its row is free and the constraint can judge the new one at once.
GoesOn(t) ==
    \/ tx[t].pc = "lock" /\ schedule_lock[tx[t].row.professional] = NoTx
    \/ /\ tx[t].pc = "write"
       /\ \/ tx[t].row = tx[t].seen
          \/ /\ ~RowLocked(t, tx[t].id)
             /\ \/ RivalRows(t) = {} /\ RivalTx(t) = {}
                \/ \E i \in RivalRows(t) : ~RowLocked(t, i)
    \/ tx[t].pc \in {"commit", "unhandled"}

WaitsFor(t, u) ==
    \/ tx[t].pc = "lock" /\ schedule_lock[tx[t].row.professional] = u
    \/ /\ tx[t].pc = "write" /\ u # t /\ HasWritten(u)
       /\ tx[u].id = tx[t].id \/ tx[u].id \in RivalRows(t) \/ u \in RivalTx(t)

Stage(t) == [idle |-> 0, lock |-> 1, write |-> 2, commit |-> 3, unhandled |-> 3][tx[t].pc]

\* Waiting is never a circle, and no lock survives its transaction: an open
\* request goes on at once or waits for another, and whoever is waited for is
\* open and further on (the advisory lock comes before every row lock, and nobody
\* who has written waits again).
WaitsForLater ==
    \A t \in Tx : tx[t].pc # "idle" =>
        /\ GoesOn(t) \/ \E u \in Tx : WaitsFor(t, u)
        /\ \A u \in Tx : WaitsFor(t, u) => Stage(t) < Stage(u)

\* As long as a request is open, some request can go on.
SomebodyGoesOn == (\E t \in Tx : tx[t].pc # "idle") => \E t \in Tx : GoesOn(t)

\* A request is over after three steps of its own: none goes back or starts again.
OnlyForward ==
    [][\A t \in Tx : tx'[t] # tx[t] /\ tx[t].pc # "idle"
         => tx'[t].pc = "idle" \/ Stage(t) < Stage(t)']_vars

\* Whoever holds the lock of a professional is past its queries, and open.
HoldersOpen ==
    \A p \in Professionals :
        schedule_lock[p] # NoTx => tx[schedule_lock[p]].pc \in {"write", "commit", "unhandled"}
=============================================================================
