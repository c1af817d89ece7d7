------------------------------ MODULE MCSlots ------------------------------
(***************************************************************************)
(* Small instances of Slots: ticks of a quarter of an hour, days of three   *)
(* hours, and a week of two days.                                          *)
(***************************************************************************)
EXTENDS Slots

CONSTANTS a1, a2, b1

Span(s, e) == [start |-> s, end |-> e]
Setting(i, n, d) == [interval |-> i, notice |-> n, days |-> d]

\* A window that starts on the hour and one that starts off the grid.
MCWindows == {Span(4, 11), Span(1, 9)}
\* A block inside the first day and one across its midnight.
MCPeriods == {Span(5, 7), Span(9, 18)}
\* Intervals of 15, 30 and 45 minutes; notices up to past midnight.
MCSettings == {Setting(1, 0, 1), Setting(2, 3, 1), Setting(3, 0, 1), Setting(2, 14, 1)}
\* An interval of 45 minutes, which divides the day but not the hour.
OddSettings == {Setting(3, 0, 1)}
\* One suggestion for the same day, three over the days that follow.
MCAsked == {[limit |-> 1, ahead |-> 0], [limit |-> 3, ahead |-> 2]}
=============================================================================
