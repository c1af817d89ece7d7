---------------------------- MODULE MCAttendance ----------------------------
(***************************************************************************)
(* Small instances of Attendance: a week of two days of three minutes.      *)
(***************************************************************************)
EXTENDS Attendance

CONSTANTS e1, e2

Never == [d \in Days |-> None]
FirstDay == [d \in Days |-> IF d = 0 THEN [start |-> 1, end |-> 2] ELSE None]
NewHours == {Never, FirstDay}
=============================================================================
