---------------------------- MODULE MCScheduling ----------------------------
(***************************************************************************)
(* Small instances of Scheduling: two professionals, one day of a few       *)
(* minutes, services of one and two minutes.                                *)
(***************************************************************************)
EXTENDS SchedulingRefinement, TLC

CONSTANTS p1, p2, t1, t2, a1, a2, b1, b2, cut, color

MCDuration == (cut :> 1) @@ (color :> 2)

\* Two starts and one short service: rows that can only meet or be adjacent.
ShortBookable == {p1, p2} \X {cut} \X {0, 1}

\* A service of two minutes that starts at 0 meets the short one at 1; the
\* second professional can take the first slot over.
MixedBookable == ({p1} \X {cut} \X {0, 1}) \cup ({<<p1, color, 0>>, <<p2, cut, 0>>})

Period(p, s, e) == [professional |-> p, start |-> s, end |-> e]

NoBlockable == {}
OneBlockable == {Period(p2, 1, 2)}
PeriodBlockable == {Period(p1, 0, 2), Period(p1, 0, 1), Period(p1, 1, 2), Period(p2, 1, 2)}

\* GoesOn is what lets a step of Progress happen.
GoesOnMeansProgress == \A t \in Tx : GoesOn(t) <=> ENABLED Progress(t)

IdSymmetry == Permutations({t1, t2}) \cup Permutations({a1, a2})
BlockSymmetry == Permutations({t1, t2}) \cup Permutations({b1, b2})
=============================================================================
