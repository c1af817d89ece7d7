------------------------------ MODULE Calendar ------------------------------
(***************************************************************************)
(* What the appointment book promises a reader of its tables, without       *)
(* transactions, locks or constraints: an agenda in which one change is     *)
(* made at a time and nobody is ever in two places.                         *)
(*                                                                         *)
(* A slot is a record with an id, a professional, a start and an end.       *)
(***************************************************************************)
EXTENDS Integers

CONSTANTS BookingIds, ClosureIds, Professionals

VARIABLES
    booked,     \* slots of the appointments to come
    settled,    \* ids of the appointments that are over: done or called off
    shut,       \* slots closed to bookings
    reopened    \* ids of closures that were lifted

calendarVars == <<booked, settled, shut, reopened>>

Slot(Ids) == [id: Ids, professional: Professionals, start: Int, end: Int]

Apart(x, y) ==
    \/ x.professional # y.professional
    \/ x.end <= y.start
    \/ y.end <= x.start

Clear(x, others) == \A y \in others : Apart(x, y)

\* An appointment takes a slot that is free and open.
Book(x) ==
    /\ x.id \notin settled
    /\ \A y \in booked : y.id # x.id
    /\ Clear(x, booked \cup shut)
    /\ booked' = booked \cup {x}
    /\ UNCHANGED <<settled, shut, reopened>>

\* It moves, to a slot that is free and open once its old one is given up.
Move(x, y) ==
    /\ y.id = x.id
    /\ Clear(y, (booked \ {x}) \cup shut)
    /\ booked' = (booked \ {x}) \cup {y}
    /\ UNCHANGED <<settled, shut, reopened>>

\* It is completed or canceled, for good.
Settle(x) ==
    /\ booked' = booked \ {x}
    /\ settled' = settled \cup {x.id}
    /\ UNCHANGED <<shut, reopened>>

Shut(x) ==
    /\ x.id \notin reopened
    /\ \A y \in shut : y.id # x.id
    /\ Clear(x, booked \cup shut)
    /\ shut' = shut \cup {x}
    /\ UNCHANGED <<booked, settled, reopened>>

Reopen(x) ==
    /\ shut' = shut \ {x}
    /\ reopened' = reopened \cup {x.id}
    /\ UNCHANGED <<booked, settled>>

CalendarInit == booked = {} /\ settled = {} /\ shut = {} /\ reopened = {}

\* The slot an id has after a step, if it has one; stating the step from it
\* keeps the choice of slots finite whatever the times are.
Taken(slots, id) == {x \in slots : x.id = id}

CalendarNext ==
    \/ \E id \in BookingIds : \E y \in Taken(booked', id) :
          Book(y) \/ \E x \in Taken(booked, id) : Move(x, y)
    \/ \E x \in booked : Settle(x)
    \/ \E id \in ClosureIds : \E y \in Taken(shut', id) : Shut(y)
    \/ \E x \in shut : Reopen(x)

CalendarSpec == CalendarInit /\ [][CalendarNext]_calendarVars

-----------------------------------------------------------------------------

\* Nobody is ever in two places: any two slots in the agenda are apart.
NobodyTwice ==
    /\ \A x, y \in booked : x # y => Apart(x, y)
    /\ \A x, y \in shut : x # y => Apart(x, y)
    /\ \A x \in booked, y \in shut : Apart(x, y)
=============================================================================
