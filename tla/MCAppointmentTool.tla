-------------------------- MODULE MCAppointmentTool --------------------------
(***************************************************************************)
(* Small instances of AppointmentTool: calls of one client's message or of  *)
(* two, an agent's read, one professional and one service.                  *)
(***************************************************************************)
EXTENDS AppointmentToolInvariant, TLC

CONSTANTS p1, s1, e1, e2, m1

OneMessage == [e \in Calls |-> m1]
SameCalls == Permutations(Calls)
=============================================================================
