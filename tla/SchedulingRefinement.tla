------------------------ MODULE SchedulingRefinement ------------------------
(***************************************************************************)
(* The committed tables, seen as an agenda: the scheduled rows are its      *)
(* bookings and the active blocks its closures.                             *)
(***************************************************************************)
EXTENDS SchedulingInvariant

SlotOf(id, r) == [id |-> id, professional |-> r.professional,
                  start |-> r.start, end |-> r.end]

ScheduledIds == {id \in AppointmentIds : Scheduled(appointments[id])}
ActiveIds == {id \in BlockIds : Active(blocks[id])}

Agenda == INSTANCE Calendar WITH
    BookingIds <- AppointmentIds,
    ClosureIds <- BlockIds,
    booked <- {SlotOf(id, appointments[id]) : id \in ScheduledIds},
    settled <- {id \in AppointmentIds : appointments[id] # NoRow
                                        /\ appointments[id].status # "scheduled"},
    shut <- {SlotOf(id, blocks[id]) : id \in ActiveIds},
    reopened <- {id \in BlockIds : blocks[id] # NoRow /\ blocks[id].status # "active"}

\* Committed transactions change the agenda as one-at-a-time changes would: each
\* commit books, moves, settles, shuts or reopens one slot that fits, or changes
\* nothing a reader of the agenda sees (a confirmation, a completed appointment
\* that a late request marks canceled).
KeepsCalendar == Agenda!CalendarSpec

\* What the calendar promises its readers, of the committed tables: no two bookings
\* and no two closures of a professional share a minute, nor a booking and a closure.
NobodyInTwoPlaces == Agenda!NobodyTwice
=============================================================================
