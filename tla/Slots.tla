------------------------------- MODULE Slots -------------------------------
(***************************************************************************)
(* The times AvailabilityService offers for one professional, against the  *)
(* rule AppointmentService applies when one of them is booked.             *)
(*                                                                         *)
(* Time is counted in ticks from the first midnight, in the time zone of   *)
(* the business; an hour has Hour ticks and a day Day, so that the minute  *)
(* of a time is t % Hour and its place in the day t % Day.  Requests are   *)
(* one step each here: what happens inside them is module Scheduling.      *)
(***************************************************************************)
EXTENDS Integers, SequencesExt, FiniteSetsExt

CONSTANTS
    Hour, Day,          \* ticks of an hour, of a day
    Week,               \* weekdays (7 in the code)
    Days,               \* bound: dates of the model
    Times,              \* bound: values the clock takes
    Appointments,       \* bound: scheduled appointments at once
    Blocks,             \* bound: active blocks at once
    Durations,          \* Service.duration_minutes
    Windows,            \* [start, end] an availability may have
    Periods,            \* [start, end] a block may close
    Asked,              \* [limit, ahead] a suggestion request may carry
    Settings,           \* [interval, notice, days] a business may have
    NoWindow,           \* no availability for the weekday
    NoRow               \* no such row

ASSUME CalendarAssumption ==
    /\ Hour \in Nat \ {0} /\ Day \in Nat \ {0} /\ Day % Hour = 0
    /\ Week \in Nat \ {0} /\ Days \in Nat \ {0}
    /\ Times \subseteq 0 .. Days * Day - 1 /\ 0 \in Times
ASSUME MenuAssumption ==
    /\ Durations \subseteq 1 .. Day
    /\ Windows \subseteq [start : 0 .. Day - 1, end : 0 .. Day - 1]
    /\ Periods \subseteq [start : Nat, end : Nat]
    /\ \A w \in Windows \cup Periods : w.start < w.end
    /\ Settings \subseteq [interval : Nat \ {0}, notice : Nat, days : Nat \ {0}]
    /\ Asked \subseteq [limit : Nat \ {0}, ahead : Nat]
    /\ NoWindow \notin Windows /\ NoRow \notin Periods

VARIABLES
    now,                \* the clock
    business,           \* slot_interval, minimum_notice, maximum_schedule_days
    availabilities,     \* weekday -> opening window
    appointments,       \* periods of the scheduled appointments
    blocks              \* periods of the active blocks

vars == <<now, business, availabilities, appointments, blocks>>

Starts == 0 .. Days * Day - 1
Period(start, duration) == [start |-> start, end |-> start + duration]

DateOf(t) == t \div Day
Today == DateOf(now)
Window(date) == availabilities[date % Week]
LastDate == Today + business.days

Overlaps(p, q) == p.start < q.end /\ q.start < p.end

\* What occupies the professional, the appointment being rescheduled aside.
Busy(excluded) ==
    {appointments[a] : a \in {b \in Appointments \ {excluded} : appointments[b] # NoRow}}
    \cup {blocks[b] : b \in {c \in Blocks : blocks[c] # NoRow}}

-----------------------------------------------------------------------------
(* What a booking accepts *)

EnoughNotice(start) == start >= now + business.notice

WithinHorizon(start) == start >= now /\ DateOf(start) <= LastDate

OnGrid(start) == (start % Day) % business.interval = 0

Opening(start, duration) ==
    LET window == Window(DateOf(start)) IN
    /\ window # NoWindow
    /\ DateOf(start + duration) = DateOf(start)
    /\ window.start <= start % Day
    /\ (start + duration) % Day <= window.end

Free(start, duration, excluded) ==
    \A item \in Busy(excluded) : ~Overlaps(item, Period(start, duration))

Bookable(start, duration, excluded) ==
    /\ EnoughNotice(start)
    /\ WithinHorizon(start)
    /\ OnGrid(start)
    /\ Opening(start, duration)
    /\ Free(start, duration, excluded)

-----------------------------------------------------------------------------
(* What is offered *)

\* Mutation of AlignToSlot: candidates start where the gap starts.
AlignToGap(t) == t

\* The grid is counted from the minute of the hour of the first candidate. (What the code
\* also drops, seconds and microseconds, a time here does not have.)
AlignToSlot(t) ==
    LET remainder == (t % Hour) % business.interval IN
    IF remainder = 0 THEN t ELSE t + business.interval - remainder

\* What of the busy items lies in [from, to).
Clipped(from, to, items) ==
    {[start |-> Max({i.start, from}), end |-> Min({i.end, to})] :
        i \in {j \in items : j.end > from /\ j.start < to}}

\* Where the loop over the items, in the order of their starts, has come to.
Cursor(from, done) == Max({from} \cup {i.end : i \in done})

\* The free stretches of [from, to): each item closes the one from the cursor.
BuildGaps(from, to, items) ==
    LET clipped == Clipped(from, to, items)
        Before(i) == {j \in clipped : j.start < i.start}
        closed == {[start |-> Cursor(from, Before(i)), end |-> i.start] : i \in clipped}
        last == [start |-> Cursor(from, clipped), end |-> to]
    IN  {g \in closed \cup {last} : g.start < g.end}

\* Mutation of GenerateSlots: only the start must lie in the gap.
GenerateLongSlots(gap, duration, minimum_start) ==
    LET first == AlignToSlot(gap.start) IN
    {s \in first .. gap.end - 1 :
        (s - first) % business.interval = 0 /\ s >= minimum_start}

GenerateSlots(gap, duration, minimum_start) ==
    LET first == AlignToSlot(gap.start) IN
    {s \in first .. gap.end - duration :
        (s - first) % business.interval = 0 /\ s >= minimum_start}

\* The notice is asked for on the current date only.
SlotsForDate(date, duration, excluded) ==
    LET midnight == date * Day
        minimum_start == IF date = Today THEN now + business.notice ELSE midnight
    IN  IF Window(date) = NoWindow THEN {}
        ELSE UNION {GenerateSlots(gap, duration, minimum_start) :
                        gap \in BuildGaps(midnight + Window(date).start,
                                          midnight + Window(date).end, Busy(excluded))}

\* get_slots answers for the dates from today to the last one.
OfferedDates == Today .. LastDate

Ascending(S) ==
    [i \in 1 .. Cardinality(S) |-> CHOOSE s \in S : Cardinality({t \in S : t < s}) = i - 1]

\* Mutation of CheckAndSuggest: what is free earlier that day is not named.
SuggestLaterOnly(requested, duration, excluded, limit, ahead) ==
    LET date == DateOf(requested)
        same_day == SlotsForDate(date, duration, excluded)
        ranked == Ascending({s \in same_day : s > requested})
        available == requested \in same_day
    IN  [available |-> available,
         suggestions |-> IF available THEN <<>>
                         ELSE SubSeq(ranked, 1, Min({limit, Len(ranked)}))]

\* check_and_suggest: whether the requested start is offered, or else the
\* first `limit` offers: later that day, earlier that day, the days after.
CheckAndSuggest(requested, duration, excluded, limit, ahead) ==
    LET date == DateOf(requested)
        same_day == SlotsForDate(date, duration, excluded)
        next == date + 1 .. Min({LastDate, date + Min({ahead, business.days})})
        ranked == Ascending({s \in same_day : s > requested})
                      \o Ascending({s \in same_day : s < requested})
                      \o Ascending(UNION {SlotsForDate(d, duration, excluded) : d \in next})
        available == requested \in same_day
    IN  [available |-> available,
         suggestions |-> IF available THEN <<>>
                         ELSE SubSeq(ranked, 1, Min({limit, Len(ranked)}))]

-----------------------------------------------------------------------------
(* Operations *)

Init ==
    /\ now = 0
    /\ business \in Settings
    /\ availabilities \in [0 .. Week - 1 -> Windows \cup {NoWindow}]
    /\ appointments = [a \in Appointments |-> NoRow]
    /\ blocks = [b \in Blocks |-> NoRow]

Book(a) ==
    /\ appointments[a] = NoRow
    /\ \E s \in Starts, d \in Durations :
           /\ Bookable(s, d, a)
           /\ appointments' = [appointments EXCEPT ![a] = Period(s, d)]
    /\ UNCHANGED <<now, business, availabilities, blocks>>

\* An update to another start or service, the row itself not in its own way.
Reschedule(a) ==
    /\ appointments[a] # NoRow
    /\ \E s \in Starts, d \in Durations :
           /\ Bookable(s, d, a)
           /\ appointments' = [appointments EXCEPT ![a] = Period(s, d)]
    /\ UNCHANGED <<now, business, availabilities, blocks>>

\* Canceled, deleted or completed: the row occupies nothing any more.
Close(a) ==
    /\ appointments[a] # NoRow
    /\ appointments' = [appointments EXCEPT ![a] = NoRow]
    /\ UNCHANGED <<now, business, availabilities, blocks>>

CreateBlock(b) ==
    /\ blocks[b] = NoRow
    /\ \E p \in Periods :
           /\ \A item \in Busy(NoRow) : ~Overlaps(item, p)
           /\ blocks' = [blocks EXCEPT ![b] = p]
    /\ UNCHANGED <<now, business, availabilities, appointments>>

CancelBlock(b) ==
    /\ blocks[b] # NoRow
    /\ blocks' = [blocks EXCEPT ![b] = NoRow]
    /\ UNCHANGED <<now, business, availabilities, appointments>>

\* Availability rows change without a look at what is booked.
CreateAvailability(weekday) ==
    /\ availabilities[weekday] = NoWindow
    /\ \E w \in Windows : availabilities' = [availabilities EXCEPT ![weekday] = w]
    /\ UNCHANGED <<now, business, appointments, blocks>>

UpdateAvailability(weekday) ==
    /\ availabilities[weekday] # NoWindow
    /\ \E w \in Windows : availabilities' = [availabilities EXCEPT ![weekday] = w]
    /\ UNCHANGED <<now, business, appointments, blocks>>

DeleteAvailability(weekday) ==
    /\ availabilities[weekday] # NoWindow
    /\ availabilities' = [availabilities EXCEPT ![weekday] = NoWindow]
    /\ UNCHANGED <<now, business, appointments, blocks>>

UpdateBusiness ==
    /\ business' \in Settings
    /\ UNCHANGED <<now, availabilities, appointments, blocks>>

Tick ==
    /\ now' \in {t \in Times : t > now}
    /\ UNCHANGED <<business, availabilities, appointments, blocks>>

Next ==
    \/ \E a \in Appointments : Book(a) \/ Reschedule(a) \/ Close(a)
    \/ \E b \in Blocks : CreateBlock(b) \/ CancelBlock(b)
    \/ \E w \in 0 .. Week - 1 :
           CreateAvailability(w) \/ UpdateAvailability(w) \/ DeleteAvailability(w)
    \/ UpdateBusiness
    \/ Tick

Spec == Init /\ [][Next]_vars

-----------------------------------------------------------------------------
(* Properties *)

\* The clock, the settings, the opening windows, the booked and the closed periods.
TypeOK ==
    /\ now \in Times /\ business \in Settings
    /\ availabilities \in [0 .. Week - 1 -> Windows \cup {NoWindow}]
    /\ appointments \in [Appointments -> {Period(s, d) : s \in Starts, d \in Durations} \cup {NoRow}]
    /\ blocks \in [Blocks -> Periods \cup {NoRow}]

\* Appointments a client may exclude: none, or one that is scheduled.
Excludable == {NoRow} \cup {a \in Appointments : appointments[a] # NoRow}

\* The interval divides the hour, so the grid of the hour is that of the day.
RegularGrid == Hour % business.interval = 0

\* Every start get_slots offers keeps the rules of a booking: in the future,
\* within the horizon and the opening window, clear of what is booked or
\* closed, with the notice when it is for today, and on the grid when the
\* interval divides the hour.
OffersKeepRules ==
    \A date \in OfferedDates, d \in Durations, x \in Excludable :
        \A s \in SlotsForDate(date, d, x) :
            /\ WithinHorizon(s) /\ Opening(s, d) /\ Free(s, d, x)
            /\ date = Today => EnoughNotice(s)
            /\ RegularGrid => OnGrid(s)

\* When the interval divides the hour, nothing a booking would accept is
\* hidden from get_slots, whatever gaps the booked times leave.
BookableIsOffered ==
    RegularGrid =>
        \A s \in Starts, d \in Durations, x \in Excludable :
            Bookable(s, d, x) => s \in SlotsForDate(DateOf(s), d, x)

\* With a regular grid, check_and_suggest says yes to every start a booking
\* accepts, never suggests twice or what was refused, goes no further than
\* the next bookable time of the day when there is one, and falls short of
\* the limit only when it has named every bookable start of the days it may
\* look at.
SuggestionsComplete ==
    RegularGrid =>
        \A d \in Durations, x \in Excludable :
            LET bookable == {s \in Starts : Bookable(s, d, x)} IN
            \A r \in {s \in Starts : DateOf(s) \in OfferedDates}, a \in Asked :
                LET answer == CheckAndSuggest(r, d, x, a.limit, a.ahead)
                    named == Range(answer.suggestions)
                    later == {s \in bookable : s > r /\ DateOf(s) = DateOf(r)}
                IN  /\ r \in bookable => answer.available
                    /\ ~answer.available =>
                         /\ r \notin named
                         /\ Cardinality(named) = Len(answer.suggestions)
                         /\ later # {} => answer.suggestions[1] \in r + 1 .. Min(later)
                         /\ Len(answer.suggestions) < a.limit =>
                              {s \in bookable : DateOf(s) \in DateOf(r) .. DateOf(r) + a.ahead}
                                  \subseteq named

\* With a regular grid an offer is withdrawn only because the clock moved,
\* the settings or the opening hours changed, or a new booking or block now
\* occupies its time: a booking elsewhere in the day never shifts the grid.
OffersStand ==
    [][ RegularGrid /\ UNCHANGED <<now, business, availabilities>> =>
        \A date \in OfferedDates, d \in Durations :
            \A s \in SlotsForDate(date, d, NoRow) :
                s \in SlotsForDate(date, d, NoRow)' \/ ~Free(s, d, NoRow)' ]_vars

\* What the tests say of the two alignments: a start that is suggested is one
\* the booking finds aligned to the interval.
SuggestedIsAligned ==
    \A date \in OfferedDates, d \in Durations :
        \A s \in SlotsForDate(date, d, NoRow) : OnGrid(s)
=============================================================================
