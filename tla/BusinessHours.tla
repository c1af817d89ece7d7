---------------------------- MODULE BusinessHours ----------------------------
(***************************************************************************)
(* Opening hours twice: as the backend computes them (business_model) and   *)
(* as the node 'business hours guard' of main-prod does. Hours are a        *)
(* function from weekdays to None or an interval [start, end) of minutes;   *)
(* a moment is a weekday and a minute. The code's week has 7 days of 1440   *)
(* minutes. Time zones are left out: both sides convert to the business's.  *)
(***************************************************************************)
EXTENDS Integers, FiniteSetsExt

CONSTANTS WeekDays, DayMinutes, None

ASSUME HoursAssumption == WeekDays \in Nat \ {0} /\ DayMinutes \in Nat \ {0, 1}

Days == 0..WeekDays - 1
Minutes == 0..DayMinutes - 1
Moments == [weekday : Days, minutes : Minutes]
Interval == [start : Minutes, end : Minutes]
Plans == {"always", "after_hours", "business_hours"}

\* What the services store: one interval a weekday, its start before its end.
NormalizeOpeningHourItems(hours) ==
    \A d \in DOMAIN hours : hours[d] # None => hours[d].start < hours[d].end
OpeningHours == {hours \in [Days -> Interval \cup {None}] : NormalizeOpeningHourItems(hours)}

Later(moment, delta) ==
    LET total == moment.weekday * DayMinutes + moment.minutes + delta IN
    [weekday |-> (total \div DayMinutes) % WeekDays, minutes |-> total % DayMinutes]

-----------------------------------------------------------------------------
\* The backend.

IsOpenAt(hours, moment) ==
    /\ hours[moment.weekday] # None
    /\ hours[moment.weekday].start <= moment.minutes
    /\ moment.minutes < hours[moment.weekday].end

AttendanceStatusAt(hours, plan, moment) ==
    LET isOpen == IsOpenAt(hours, moment)
        allowed == CASE plan = "always" -> TRUE
                     [] plan = "after_hours" -> ~isOpen
                     [] plan = "business_hours" -> isOpen
    IN [plan |-> plan, business_is_open |-> isOpen, allowed |-> allowed,
        block_reason |-> IF allowed THEN None
                         ELSE IF plan = "after_hours" THEN "inside_business_hours"
                         ELSE "outside_business_hours"]

-----------------------------------------------------------------------------
\* The guard. It also knows intervals that end after midnight.

PreviousDay(day) == IF day = 0 THEN WeekDays - 1 ELSE day - 1

SameDay(item, moment) == item.start < item.end /\ moment.minutes >= item.start /\ moment.minutes < item.end
OverMidnight(item, moment) == item.start > item.end /\ moment.minutes >= item.start
AfterMidnight(item, moment) == item.start > item.end /\ moment.minutes < item.end

\* Mutant of IsOpenNow: the end of the interval counts as open.
IsOpenThrough(hours, moment) ==
    /\ hours[moment.weekday] # None
    /\ moment.minutes >= hours[moment.weekday].start /\ moment.minutes <= hours[moment.weekday].end
IsOpenNow(hours, moment) ==
    LET today == hours[moment.weekday]
        yesterday == hours[PreviousDay(moment.weekday)]
    IN \/ today # None /\ (SameDay(today, moment) \/ OverMidnight(today, moment))
       \/ yesterday # None /\ AfterMidnight(yesterday, moment)

\* Mutant of GetNextOpenAt: today's start of next week is not looked at.
NextStartThisWeek(hours, moment) ==
    LET deltas == {offset * DayMinutes + hours[(moment.weekday + offset) % WeekDays].start - moment.minutes :
                      offset \in {o \in 0..WeekDays - 1 : hours[(moment.weekday + o) % WeekDays] # None}}
        ahead == {delta \in deltas : delta > 0}
    IN IF ahead = {} THEN None ELSE Min(ahead)
\* Minutes to the next start, today's in a week included; None without hours.
GetNextOpenAt(hours, moment) ==
    LET deltas == {offset * DayMinutes + hours[(moment.weekday + offset) % WeekDays].start - moment.minutes :
                      offset \in {o \in 0..WeekDays : hours[(moment.weekday + o) % WeekDays] # None}}
        ahead == {delta \in deltas : delta > 0}
    IN IF ahead = {} THEN None ELSE Min(ahead)

\* Minutes to the end of the interval the moment is in.
GetCurrentCloseAt(hours, moment) ==
    LET today == hours[moment.weekday]
        yesterday == hours[PreviousDay(moment.weekday)]
        deltas ==
            (IF today # None /\ SameDay(today, moment) THEN {today.end - moment.minutes} ELSE {})
            \cup (IF today # None /\ OverMidnight(today, moment)
                  THEN {DayMinutes - moment.minutes + today.end} ELSE {})
            \cup (IF yesterday # None /\ AfterMidnight(yesterday, moment)
                  THEN {yesterday.end - moment.minutes} ELSE {})
    IN IF deltas = {} THEN None ELSE Min(deltas)

\* The decision on a message: the status in the business's context counts, and
\* only without one the hours do.
FallbackAllowed(hours, plan, moment) ==
    CASE plan = "always" -> TRUE
      [] plan = "after_hours" -> ~IsOpenNow(hours, moment)
      [] OTHER -> IsOpenNow(hours, moment)

BusinessHoursGuard(hours, plan, status, moment) ==
    LET isOpen == IF status # None THEN status.business_is_open ELSE IsOpenNow(hours, moment)
        allowed == IF status # None THEN status.allowed ELSE FallbackAllowed(hours, plan, moment)
        reason == CASE allowed -> None
                    [] ~allowed /\ status # None -> status.block_reason
                    [] ~allowed /\ status = None ->
                         IF plan = "after_hours" /\ isOpen THEN "inside_business_hours"
                         ELSE "outside_business_hours"
    IN [is_open |-> isOpen, allowed |-> allowed, block_reason |-> reason,
        next_allowed_in |-> IF reason = "inside_business_hours" THEN GetCurrentCloseAt(hours, moment)
                            ELSE IF isOpen THEN None ELSE GetNextOpenAt(hours, moment)]
=============================================================================
