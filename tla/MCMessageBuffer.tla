--------------------------- MODULE MCMessageBuffer ---------------------------
(***************************************************************************)
(* Small instances of MessageBuffer: messages of a client, one of which     *)
(* breaks the report of a failure, and one of the business itself.          *)
(***************************************************************************)
EXTENDS MessageBufferInvariant

CONSTANTS m1, m2, m3

Kinds == [m \in Messages |-> IF m = m1 THEN "audio" ELSE IF m = m2 THEN "quoted" ELSE "text"]

\* A started execution can always go on: no node waits for another execution.
NobodyWaits == \A m \in Messages : ~AtRest(m) => ENABLED Step(m)
=============================================================================
