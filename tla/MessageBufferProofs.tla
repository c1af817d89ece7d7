------------------------- MODULE MessageBufferProofs -------------------------
(***************************************************************************)
(* What holds of MessageBuffer for any number of messages and failures: no  *)
(* message is lost and none is answered twice, unless executions overlap.   *)
(***************************************************************************)
EXTENDS MessageBufferInvariant, TLAPS

\* Only m's execution is written.
Wrote(m) == RunShape' /\ \A e \in Messages \ {m} : run'[e] = run[e]
SameText(m) == /\ run'[m].seen = run[m].seen /\ run'[m].text = run[m].text
               /\ run'[m].pushed = run[m].pushed

\* It goes to another node and keeps what it has read and done.
Moves(m, pc) ==
    /\ Wrote(m) /\ SameText(m) /\ run'[m].kept = run[m].kept /\ run'[m].pc = pc
    /\ pc # "failed" => run'[m].why = run[m].why
Keeps(m, pc) == Wrote(m) /\ SameText(m) /\ run'[m].kept /\ run'[m].pc = pc /\ run'[m].why = run[m].why
Reads(m, pc) ==
    /\ Wrote(m) /\ run'[m].text = run[m].text /\ run'[m].pushed = run[m].pushed /\ run'[m].kept = run[m].kept
    /\ run'[m].why = run[m].why /\ run'[m].pc = pc
Takes(m, pc, text) ==
    /\ Wrote(m) /\ run'[m].seen = run[m].seen /\ run'[m].pushed = run[m].pushed /\ run'[m].kept = run[m].kept
    /\ run'[m].why = run[m].why /\ run'[m].pc = pc /\ run'[m].text = text

-----------------------------------------------------------------------------
(* What the writes of an execution's record do to it. *)

\* An execution that goes on.
LEMMA GoToMoves ==
    ASSUME RunShape, NEW m \in Messages, NEW pc, GoTo(m, pc)
    PROVE  Moves(m, pc)
<1> DEFINE r == [pc |-> pc, state |-> run[m].state, seen |-> run[m].seen, text |-> run[m].text, route |-> run[m].route,
                 pushed |-> run[m].pushed, kept |-> run[m].kept, late |-> run[m].late, why |-> run[m].why]
<1>1. run' = [run EXCEPT ![m] = [run[m] EXCEPT !.pc = pc]] BY DEF RunShape, GoTo
<1>2. IsRun(run[m]) BY DEF RunShape
<1>3. /\ run'[m] = [run[m] EXCEPT !.pc = pc]
      /\ \A e \in Messages \ {m} : run'[e] = run[e]
      /\ run' = [e \in Messages |-> run'[e]]
  BY <1>1 DEF RunShape
<1>4. run'[m] = r BY <1>2, <1>3 DEF IsRun
<1>5. IsRun(r) BY DEF IsRun
<1>6. run'[m] = r /\ IsRun(run'[m]) /\ Wrote(m) BY <1>3, <1>4, <1>5 DEF Wrote, RunShape
<1> QED BY <1>6 DEF Moves, SameText

\* An execution that fails.
LEMMA FailMoves ==
    ASSUME RunShape, NEW m \in Messages, NEW type,
           run' = [run EXCEPT ![m].pc = "failed", ![m].why = type]
    PROVE  Moves(m, "failed") /\ run'[m].why = type
<1> DEFINE r == [pc |-> "failed", state |-> run[m].state, seen |-> run[m].seen, text |-> run[m].text, route |-> run[m].route,
                 pushed |-> run[m].pushed, kept |-> run[m].kept, late |-> run[m].late, why |-> type]
<1>1. run' = [run EXCEPT ![m] = [run[m] EXCEPT !.pc = "failed", !.why = type]] BY DEF RunShape
<1>2. IsRun(run[m]) BY DEF RunShape
<1>3. /\ run'[m] = [run[m] EXCEPT !.pc = "failed", !.why = type]
      /\ \A e \in Messages \ {m} : run'[e] = run[e]
      /\ run' = [e \in Messages |-> run'[e]]
  BY <1>1 DEF RunShape
<1>4. run'[m] = r BY <1>2, <1>3 DEF IsRun
<1>5. IsRun(r) BY DEF IsRun
<1>6. run'[m] = r /\ IsRun(run'[m]) /\ Wrote(m) BY <1>3, <1>4, <1>5 DEF Wrote, RunShape
<1> QED BY <1>6 DEF Moves, SameText

\* One that stops with an error.
LEMMA StopMoves ==
    ASSUME RunShape, NEW m \in Messages, NEW type, StopAndError(m, type)
    PROVE  Moves(m, "failed") /\ run'[m].why = type
BY FailMoves DEF StopAndError

\* One that ends, or fails because a read had failed before.
LEMMA EndMoves ==
    ASSUME RunShape, NEW m \in Messages, NEW outcome, End(m, outcome)
    PROVE  Moves(m, outcome) \/ Moves(m, "failed")
BY GoToMoves, StopMoves DEF End, ErrorReport6

\* One whose read of the buffer failed.
LEMMA LateMoves ==
    ASSUME RunShape, NEW m \in Messages, NEW pc, pc # "failed",
           run' = [run EXCEPT ![m].pc = pc, ![m].late = TRUE]
    PROVE  Moves(m, pc) /\ run'[m].late
<1> DEFINE r == [pc |-> pc, state |-> run[m].state, seen |-> run[m].seen, text |-> run[m].text, route |-> run[m].route,
                 pushed |-> run[m].pushed, kept |-> run[m].kept, late |-> TRUE, why |-> run[m].why]
<1>1. run' = [run EXCEPT ![m] = [run[m] EXCEPT !.pc = pc, !.late = TRUE]] BY DEF RunShape
<1>2. IsRun(run[m]) BY DEF RunShape
<1>3. /\ run'[m] = [run[m] EXCEPT !.pc = pc, !.late = TRUE]
      /\ \A e \in Messages \ {m} : run'[e] = run[e]
      /\ run' = [e \in Messages |-> run'[e]]
  BY <1>1 DEF RunShape
<1>4. run'[m] = r BY <1>2, <1>3 DEF IsRun
<1>5. IsRun(r) BY DEF IsRun
<1>6. run'[m] = r /\ IsRun(run'[m]) /\ Wrote(m) BY <1>3, <1>4, <1>5 DEF Wrote, RunShape
<1> QED BY <1>6 DEF Moves, SameText

\* One that has read the state.
LEMMA StateMoves ==
    ASSUME RunShape, NEW m \in Messages, NEW pc, NEW state,
           run' = [run EXCEPT ![m].pc = pc, ![m].state = state]
    PROVE  Moves(m, pc)
<1> DEFINE r == [pc |-> pc, state |-> state, seen |-> run[m].seen, text |-> run[m].text, route |-> run[m].route,
                 pushed |-> run[m].pushed, kept |-> run[m].kept, late |-> run[m].late, why |-> run[m].why]
<1>1. run' = [run EXCEPT ![m] = [run[m] EXCEPT !.pc = pc, !.state = state]] BY DEF RunShape
<1>2. IsRun(run[m]) BY DEF RunShape
<1>3. /\ run'[m] = [run[m] EXCEPT !.pc = pc, !.state = state]
      /\ \A e \in Messages \ {m} : run'[e] = run[e]
      /\ run' = [e \in Messages |-> run'[e]]
  BY <1>1 DEF RunShape
<1>4. run'[m] = r BY <1>2, <1>3 DEF IsRun
<1>5. IsRun(r) BY DEF IsRun
<1>6. run'[m] = r /\ IsRun(run'[m]) /\ Wrote(m) BY <1>3, <1>4, <1>5 DEF Wrote, RunShape
<1> QED BY <1>6 DEF Moves, SameText

\* One that takes the way of its classification.
LEMMA RouteMoves ==
    ASSUME RunShape, NEW m \in Messages, NEW pc, NEW route,
           run' = [run EXCEPT ![m].pc = pc, ![m].route = route]
    PROVE  Moves(m, pc)
<1> DEFINE r == [pc |-> pc, state |-> run[m].state, seen |-> run[m].seen, text |-> run[m].text, route |-> route,
                 pushed |-> run[m].pushed, kept |-> run[m].kept, late |-> run[m].late, why |-> run[m].why]
<1>1. run' = [run EXCEPT ![m] = [run[m] EXCEPT !.pc = pc, !.route = route]] BY DEF RunShape
<1>2. IsRun(run[m]) BY DEF RunShape
<1>3. /\ run'[m] = [run[m] EXCEPT !.pc = pc, !.route = route]
      /\ \A e \in Messages \ {m} : run'[e] = run[e]
      /\ run' = [e \in Messages |-> run'[e]]
  BY <1>1 DEF RunShape
<1>4. run'[m] = r BY <1>2, <1>3 DEF IsRun
<1>5. IsRun(r) BY DEF IsRun
<1>6. run'[m] = r /\ IsRun(run'[m]) /\ Wrote(m) BY <1>3, <1>4, <1>5 DEF Wrote, RunShape
<1> QED BY <1>6 DEF Moves, SameText

\* One that could not delete the buffer.
LEMMA KeptMoves ==
    ASSUME RunShape, NEW m \in Messages, NEW pc, run' = [run EXCEPT ![m].pc = pc, ![m].kept = TRUE]
    PROVE  Keeps(m, pc)
<1> DEFINE r == [pc |-> pc, state |-> run[m].state, seen |-> run[m].seen, text |-> run[m].text, route |-> run[m].route,
                 pushed |-> run[m].pushed, kept |-> TRUE, late |-> run[m].late, why |-> run[m].why]
<1>1. run' = [run EXCEPT ![m] = [run[m] EXCEPT !.pc = pc, !.kept = TRUE]] BY DEF RunShape
<1>2. IsRun(run[m]) BY DEF RunShape
<1>3. /\ run'[m] = [run[m] EXCEPT !.pc = pc, !.kept = TRUE]
      /\ \A e \in Messages \ {m} : run'[e] = run[e]
      /\ run' = [e \in Messages |-> run'[e]]
  BY <1>1 DEF RunShape
<1>4. run'[m] = r BY <1>2, <1>3 DEF IsRun
<1>5. IsRun(r) BY DEF IsRun
<1>6. run'[m] = r /\ IsRun(run'[m]) /\ Wrote(m) BY <1>3, <1>4, <1>5 DEF Wrote, RunShape
<1> QED BY <1>6 DEF Keeps, SameText

\* One that has read the buffer.
LEMMA ReadMoves ==
    ASSUME RunShape, NEW m \in Messages, NEW pc, NEW seen, run' = [run EXCEPT ![m].pc = pc, ![m].seen = seen]
    PROVE  Reads(m, pc) /\ run'[m].seen = seen
<1> DEFINE r == [pc |-> pc, state |-> run[m].state, seen |-> seen, text |-> run[m].text, route |-> run[m].route,
                 pushed |-> run[m].pushed, kept |-> run[m].kept, late |-> run[m].late, why |-> run[m].why]
<1>1. run' = [run EXCEPT ![m] = [run[m] EXCEPT !.pc = pc, !.seen = seen]] BY DEF RunShape
<1>2. IsRun(run[m]) BY DEF RunShape
<1>3. /\ run'[m] = [run[m] EXCEPT !.pc = pc, !.seen = seen]
      /\ \A e \in Messages \ {m} : run'[e] = run[e]
      /\ run' = [e \in Messages |-> run'[e]]
  BY <1>1 DEF RunShape
<1>4. run'[m] = r BY <1>2, <1>3 DEF IsRun
<1>5. IsRun(r) BY DEF IsRun
<1>6. run'[m] = r /\ IsRun(run'[m]) /\ Wrote(m) BY <1>3, <1>4, <1>5 DEF Wrote, RunShape
<1> QED BY <1>6 DEF Reads

\* One that takes a text to answer.
LEMMA TextMoves ==
    ASSUME RunShape, NEW m \in Messages, NEW pc, NEW text, run' = [run EXCEPT ![m].pc = pc, ![m].text = text]
    PROVE  Takes(m, pc, text)
<1> DEFINE r == [pc |-> pc, state |-> run[m].state, seen |-> run[m].seen, text |-> text, route |-> run[m].route,
                 pushed |-> run[m].pushed, kept |-> run[m].kept, late |-> run[m].late, why |-> run[m].why]
<1>1. run' = [run EXCEPT ![m] = [run[m] EXCEPT !.pc = pc, !.text = text]] BY DEF RunShape
<1>2. IsRun(run[m]) BY DEF RunShape
<1>3. /\ run'[m] = [run[m] EXCEPT !.pc = pc, !.text = text]
      /\ \A e \in Messages \ {m} : run'[e] = run[e]
      /\ run' = [e \in Messages |-> run'[e]]
  BY <1>1 DEF RunShape
<1>4. run'[m] = r BY <1>2, <1>3 DEF IsRun
<1>5. IsRun(r) BY DEF IsRun
<1>6. run'[m] = r /\ IsRun(run'[m]) /\ Wrote(m) BY <1>3, <1>4, <1>5 DEF Wrote, RunShape
<1> QED BY <1>6 DEF Takes

\* One that has pushed its message.
LEMMA PushMoves ==
    ASSUME RunShape, NEW m \in Messages, NEW pc, run' = [run EXCEPT ![m].pc = pc, ![m].pushed = TRUE]
    PROVE  /\ Wrote(m) /\ run'[m].seen = run[m].seen /\ run'[m].text = run[m].text
           /\ run'[m].kept = run[m].kept /\ run'[m].why = run[m].why /\ run'[m].pc = pc /\ run'[m].pushed
<1> DEFINE r == [pc |-> pc, state |-> run[m].state, seen |-> run[m].seen, text |-> run[m].text, route |-> run[m].route,
                 pushed |-> TRUE, kept |-> run[m].kept, late |-> run[m].late, why |-> run[m].why]
<1>1. run' = [run EXCEPT ![m] = [run[m] EXCEPT !.pc = pc, !.pushed = TRUE]] BY DEF RunShape
<1>2. IsRun(run[m]) BY DEF RunShape
<1>3. /\ run'[m] = [run[m] EXCEPT !.pc = pc, !.pushed = TRUE]
      /\ \A e \in Messages \ {m} : run'[e] = run[e]
      /\ run' = [e \in Messages |-> run'[e]]
  BY <1>1 DEF RunShape
<1>4. run'[m] = r BY <1>2, <1>3 DEF IsRun
<1>5. IsRun(r) BY DEF IsRun
<1>6. run'[m] = r /\ IsRun(run'[m]) /\ Wrote(m) BY <1>3, <1>4, <1>5 DEF Wrote, RunShape
<1> QED BY <1>6

-----------------------------------------------------------------------------
(* The steps. *)

SameReplies == \A e \in Messages : Replied(e)' = Replied(e)
Deciders == Deciding \ {"ask_name"}

\* An execution that goes to a node where as much is known of it.
LEMMA TextsKept ==
    ASSUME Texts, NEW m \in Messages, \A e \in Messages \ {m} : run'[e] = run[e] /\ Replied(e)' = Replied(e),
           run'[m].seen = run[m].seen, run'[m].text = run[m].text, buffer' \subseteq buffer,
           run'[m].pc \in BeforeText => run[m].pc \in BeforeText /\ Replied(m)' = Replied(m),
           run'[m].pc \in Early \cup {"get_buffer_1"} => run[m].pc \in Early \cup {"get_buffer_1"},
           run'[m].pc \in Early \cup {"call_state"} => run[m].pc \in Early \cup {"call_state"},
           run'[m].pc \in {"ask_name", "delete_prompt_buffer"} => Replied(m)',
           run'[m].pc # "failed" => run'[m].why = ""
    PROVE  Texts'
<1>1. \A e \in Messages : run'[e].seen = run[e].seen /\ run'[e].text = run[e].text
  OBVIOUS
<1>2. \A e \in Messages : run'[e].pc \in BeforeText => run'[e].text = {} /\ ~Replied(e)'
  BY <1>1 DEF Texts
<1>3. \A e \in Messages : run'[e].pc \in Early \cup {"get_buffer_1"} => run'[e].seen = {}
  BY <1>1 DEF Texts
<1>4. ASSUME NEW e \in Messages, NEW x \in Messages, run'[x].pc \in Early \cup {"call_state"}
      PROVE  x \notin buffer' /\ x \notin run'[e].text /\ x \notin run'[e].seen
  <2>1. run[x].pc \in Early \cup {"call_state"} BY <1>4
  <2>2. x \notin buffer /\ x \notin run[e].text /\ x \notin run[e].seen BY <2>1 DEF Texts
  <2> QED BY <1>1, <2>2
<1>5. \A e \in Messages : run'[e].pc \in {"ask_name", "delete_prompt_buffer"} => Replied(e)'
  BY DEF Texts
<1>6. \A e \in Messages : run'[e].pc # "failed" => run'[e].why = "" BY DEF Texts
<1> QED BY <1>2, <1>3, <1>4, <1>5, <1>6 DEF Texts

\* An execution that goes on before its push or between the decision and the
\* deletion, or ends. What it takes from the buffer is marked.
LEMMA QuietOrMarked ==
    ASSUME BufferInv, NEW m \in Messages, NEW pc, Moves(m, pc), SameReplies, buffer' \subseteq buffer,
           overlap' \in BOOLEAN, ~overlap' => ~overlap /\ buffer' = buffer,
           \/ run[m].pc \in Early /\ pc \in Early
           \/ run[m].pc \in Deciders /\ pc \in Deciders
           \/ run[m].pc \in Early \cup {"wait", "call_state"} \cup Deciders /\ pc \in Ended
    PROVE  BufferInv'
<1>1. /\ RunShape' /\ \A e \in Messages \ {m} : run'[e] = run[e]
      /\ run'[m].seen = run[m].seen /\ run'[m].text = run[m].text /\ run'[m].pushed = run[m].pushed
      /\ run'[m].kept = run[m].kept /\ run'[m].pc = pc /\ (pc # "failed" => run'[m].why = run[m].why)
      /\ Texts
  BY DEF Moves, Wrote, SameText, BufferInv
<1>2. \A e \in Messages : /\ run'[e].seen = run[e].seen /\ run'[e].text = run[e].text
                          /\ run'[e].pushed = run[e].pushed /\ run'[e].kept = run[e].kept
  BY <1>1
<1>3. /\ pc \in BeforeText => run[m].pc \in BeforeText
      /\ pc \in Early \cup {"get_buffer_1"} => run[m].pc \in Early \cup {"get_buffer_1"}
      /\ pc \in Early \cup {"call_state"} => run[m].pc \in Early \cup {"call_state"}
      /\ pc \notin {"ask_name", "delete_prompt_buffer", "get_buffer_1", "wait", "send_response", "call_state"}
      /\ pc \in Deciding => run[m].pc \in Deciding /\ run[m].pc # "ask_name"
      /\ pc \notin Naming
      /\ run[m].pc # "failed" /\ run[m].pc # "send_response" /\ run[m].pc # "ask_name"
  BY DEF Early, BeforeText, Deciding, Deciders, Naming, Ended
<1>4. \A e \in Messages : Taken(e)' => Taken(e)
  BY <1>1, <1>3 DEF Taken, SameReplies
<1>5. Texts'
  <2>1. run'[m].pc # "failed" => run'[m].why = "" BY <1>1, <1>3 DEF Texts
  <2> QED BY <1>1, <1>3, <2>1, TextsKept DEF SameReplies
<1>6. ASSUME ~overlap' PROVE Window' /\ Decision' /\ Cleared' /\ Apart' /\ Covered'
  <2>1. Window /\ Decision /\ Cleared /\ Apart /\ Covered /\ buffer' = buffer BY <1>6 DEF BufferInv
  <2>2. Window' BY <1>1, <1>2, <1>3, <2>1 DEF Window
  <2>3. Decision' BY <1>1, <1>2, <1>3, <2>1 DEF Decision
  <2>4. Cleared'
    <3>1. ASSUME NEW e \in Messages, Taken(e)', (run[e].pc \in Deciding => Replied(e) /\ run[e].pc # "ask_name")'
          PROVE  Taken(e) /\ (run[e].pc \in Deciding => Replied(e) /\ run[e].pc # "ask_name")
      <4>1. Taken(e) /\ (run'[e].pc \notin Deciding \cup {"send_response"} => Replied(e))
        BY <1>4, <3>1 DEF Taken, SameReplies
      <4>2. CASE e = m BY <1>1, <1>3, <3>1, <4>1, <4>2 DEF SameReplies
      <4>3. CASE e # m BY <1>1, <3>1, <4>1, <4>3 DEF SameReplies
      <4> QED BY <4>2, <4>3
    <3> QED BY <1>2, <2>1, <3>1 DEF Cleared
  <2>5. Apart' BY <1>2, <1>4, <2>1 DEF Apart
  <2>6. \A e \in Messages : HasAnswer(e) => HasAnswer(e)'
    BY <1>1, <1>3 DEF HasAnswer, SameReplies, Texts
  <2>7. Covered' BY <1>2, <2>1, <2>6 DEF Covered
  <2> QED BY <2>2, <2>3, <2>4, <2>5, <2>7
<1> QED BY <1>1, <1>5, <1>6 DEF BufferInv

\* One that takes nothing.
LEMMA Quiet ==
    ASSUME BufferInv, NEW m \in Messages, NEW pc, Moves(m, pc), SameReplies, UNCHANGED <<buffer, overlap>>,
           \/ run[m].pc \in Early /\ pc \in Early
           \/ run[m].pc \in Deciders /\ pc \in Deciders
           \/ run[m].pc \in Early \cup {"wait", "call_state"} \cup Deciders /\ pc \in Ended
    PROVE  BufferInv'
<1>1. buffer' \subseteq buffer /\ overlap' \in BOOLEAN /\ (~overlap' => ~overlap /\ buffer' = buffer)
  BY DEF BufferInv
<1> QED BY <1>1, QuietOrMarked

\* Nobody else reads or answers when ~overlap is kept.
LEMMA NobodyElse ==
    ASSUME NEW m \in Messages, NEW pcs, Overlaps(m, pcs), overlap \in BOOLEAN
    PROVE  /\ overlap' \in BOOLEAN
           /\ ~overlap' => ~overlap /\ \A e \in Messages \ {m} : run[e].pc \notin pcs
BY DEF Overlaps, Others

\* A message that answers the question for the name.
LEMMA NamingStarts ==
    ASSUME BufferInv, NEW m \in Messages, run[m].pc = "get_pending", Moves(m, "call_state"), SameReplies,
           UNCHANGED buffer, overlap' = (overlap \/ buffer # {} \/ Others(m, Reading \cup Deciding \cup Naming))
    PROVE  BufferInv'
<1>1. /\ RunShape' /\ \A e \in Messages \ {m} : run'[e] = run[e]
      /\ run'[m].seen = run[m].seen /\ run'[m].text = run[m].text /\ run'[m].pushed = run[m].pushed
      /\ run'[m].kept = run[m].kept /\ run'[m].pc = "call_state" /\ run'[m].why = run[m].why
      /\ Texts /\ overlap \in BOOLEAN
  BY DEF Moves, Wrote, SameText, BufferInv
<1>2. \A e \in Messages : /\ run'[e].seen = run[e].seen /\ run'[e].text = run[e].text
                          /\ run'[e].pushed = run[e].pushed /\ run'[e].kept = run[e].kept
  BY <1>1
<1>3. \A e \in Messages : Taken(e)' => Taken(e)
  BY <1>1 DEF Taken, SameReplies, Deciding
<1>4. Texts'
  <2>1. run'[m].why = "" BY <1>1 DEF Texts
  <2>2. run[m].pc \in BeforeText /\ run[m].pc \in Early /\ run'[m].pc \notin Early \cup {"get_buffer_1"}
    BY <1>1 DEF Early, BeforeText
  <2> QED BY <1>1, <2>1, <2>2, TextsKept DEF SameReplies
<1>5. overlap' \in BOOLEAN BY <1>1 DEF Others
<1>6. ASSUME ~overlap' PROVE Window' /\ Decision' /\ Cleared' /\ Apart' /\ Covered'
  <2>1. Window /\ Decision /\ Cleared /\ Apart /\ Covered /\ buffer = {}
    BY <1>1, <1>6 DEF BufferInv, Others
  <2>2. Window' BY <1>1, <1>2, <2>1 DEF Window
  <2>3. Decision' BY <1>1, <1>2, <2>1 DEF Decision, Deciding
  <2>4. Cleared' BY <2>1 DEF Cleared
  <2>5. Apart' BY <1>2, <1>3, <2>1 DEF Apart
  <2>6. \A e \in Messages : HasAnswer(e) => HasAnswer(e)'
    BY <1>1 DEF HasAnswer, SameReplies
  <2>7. Covered' BY <1>2, <2>1, <2>6 DEF Covered
  <2> QED BY <2>2, <2>3, <2>4, <2>5, <2>7
<1> QED BY <1>1, <1>4, <1>5, <1>6 DEF BufferInv

\* The answer to the question is taken, with its message alone as text.
LEMMA CallStateKeeps ==
    ASSUME BufferInv, NEW m \in Messages, run[m].pc = "call_state", Takes(m, "delete_prompt_buffer", {m}),
           Replied(m)', \A e \in Messages \ {m} : Replied(e)' = Replied(e), UNCHANGED <<buffer, overlap>>
    PROVE  BufferInv'
<1>1. /\ RunShape' /\ \A e \in Messages \ {m} : run'[e] = run[e]
      /\ run'[m].seen = run[m].seen /\ run'[m].text = {m} /\ run'[m].pushed = run[m].pushed
      /\ run'[m].kept = run[m].kept /\ run'[m].pc = "delete_prompt_buffer" /\ run'[m].why = run[m].why
      /\ Texts
  BY DEF Takes, Wrote, BufferInv
<1>2. \A e \in Messages : m \notin run[e].text /\ m \notin buffer BY <1>1 DEF Texts
<1>3. Texts'
  <2>1. \A e \in Messages : run'[e].pc \in BeforeText => run'[e].text = {} /\ ~Replied(e)'
    BY <1>1 DEF Texts, BeforeText, Early
  <2>2. \A e \in Messages : run'[e].pc \in Early \cup {"get_buffer_1"} => run'[e].seen = {}
    BY <1>1 DEF Texts, Early
  <2>3. ASSUME NEW e \in Messages, NEW x \in Messages, run'[x].pc \in Early \cup {"call_state"}
        PROVE  x \notin buffer' /\ x \notin run'[e].text /\ x \notin run'[e].seen
    <3>1. x # m BY <1>1, <2>3 DEF Early
    <3>2. x \notin buffer /\ x \notin run[e].text /\ x \notin run[e].seen BY <1>1, <2>3, <3>1 DEF Texts
    <3> QED BY <1>1, <3>1, <3>2
  <2>4. \A e \in Messages : run'[e].pc \in {"ask_name", "delete_prompt_buffer"} => Replied(e)'
    BY <1>1 DEF Texts
  <2>5. \A e \in Messages : run'[e].pc # "failed" => run'[e].why = "" BY <1>1 DEF Texts
  <2> QED BY <2>1, <2>2, <2>3, <2>4, <2>5 DEF Texts
<1>4. ASSUME ~overlap' PROVE Window' /\ Decision' /\ Cleared' /\ Apart' /\ Covered'
  <2>1. Window /\ Decision /\ Cleared /\ Apart /\ Covered BY <1>4 DEF BufferInv
  <2>2. Window' BY <1>1, <2>1 DEF Window
  <2>3. Decision' BY <1>1, <2>1 DEF Decision, Deciding, Naming
  <2>4. \A e \in Messages \ {m} : Taken(e)' = Taken(e) BY <1>1 DEF Taken
  <2>5. Cleared'
    <3>1. run'[m].text \cap buffer' = {} BY <1>1, <1>2
    <3> QED BY <1>1, <2>1, <2>4, <3>1 DEF Cleared
  <2>6. Apart' BY <1>1, <1>2, <2>1, <2>4 DEF Apart
  <2>7. \A e \in Messages \ {m} : HasAnswer(e)' = HasAnswer(e) BY <1>1 DEF HasAnswer
  <2>8. Covered'
    <3>1. ASSUME NEW x \in Messages, run'[x].pushed, x \notin buffer'
          PROVE  \E e \in Messages : x \in run'[e].text /\ HasAnswer(e)'
      <4>1. PICK e \in Messages : x \in run[e].text /\ HasAnswer(e) BY <1>1, <2>1, <3>1 DEF Covered
      <4>2. e # m BY <1>1, <4>1 DEF Texts, BeforeText
      <4> QED BY <1>1, <2>7, <4>1, <4>2
    <3> QED BY <3>1 DEF Covered
  <2> QED BY <2>2, <2>3, <2>5, <2>6, <2>8
<1> QED BY <1>1, <1>3, <1>4 DEF BufferInv

\* The buffer is deleted by an execution that has its text answered, or kept.
LEMMA PromptKeeps ==
    ASSUME BufferInv, NEW m \in Messages, run[m].pc = "delete_prompt_buffer", SameReplies, UNCHANGED overlap,
           \/ buffer' = {} /\ (Moves(m, "done") \/ Moves(m, "failed"))
           \/ UNCHANGED buffer /\ Keeps(m, "done")
    PROVE  BufferInv'
<1>1. /\ RunShape' /\ \A e \in Messages \ {m} : run'[e] = run[e]
      /\ run'[m].seen = run[m].seen /\ run'[m].text = run[m].text /\ run'[m].pushed = run[m].pushed
      /\ (run[m].kept => run'[m].kept) /\ run'[m].pc \in {"done", "failed"}
      /\ (run'[m].pc # "failed" => run'[m].why = run[m].why) /\ Texts /\ buffer' \subseteq buffer
  BY DEF Moves, Keeps, Wrote, SameText, BufferInv
<1>2. \A e \in Messages : /\ run'[e].seen = run[e].seen /\ run'[e].text = run[e].text
                          /\ run'[e].pushed = run[e].pushed /\ (run[e].kept => run'[e].kept)
  BY <1>1
<1>3. \A e \in Messages : Taken(e)' => Taken(e)
  BY <1>1 DEF Taken, SameReplies, Deciding
<1>4. Texts'
  <2>1. run'[m].pc # "failed" => run'[m].why = "" BY <1>1 DEF Texts
  <2>2. run'[m].pc \notin BeforeText \cup Early \cup {"get_buffer_1", "call_state", "ask_name", "delete_prompt_buffer"}
    BY <1>1 DEF Early, BeforeText
  <2> QED BY <1>1, <2>1, <2>2, TextsKept DEF SameReplies
<1>5. ASSUME ~overlap' PROVE Window' /\ Decision' /\ Cleared' /\ Apart' /\ Covered'
  <2>1. Window /\ Decision /\ Cleared /\ Apart /\ Covered /\ buffer = {} /\ buffer' = {}
    BY <1>1, <1>5 DEF BufferInv, Decision, Naming
  <2>2. Window' BY <1>1, <1>2, <2>1 DEF Window
  <2>3. Decision' BY <1>1, <1>2, <2>1 DEF Decision, Deciding, Naming
  <2>4. Cleared' BY <2>1 DEF Cleared
  <2>5. Apart' BY <1>2, <1>3, <2>1 DEF Apart
  <2>6. \A e \in Messages : HasAnswer(e) => HasAnswer(e)'
    BY <1>1 DEF HasAnswer, SameReplies, Texts
  <2>7. Covered' BY <1>2, <2>1, <2>6 DEF Covered
  <2> QED BY <2>2, <2>3, <2>4, <2>5, <2>7
<1> QED BY <1>1, <1>4, <1>5 DEF BufferInv

\* A push, which a failed call may have carried out.
LEMMA PushKeeps ==
    ASSUME BufferInv, NEW m \in Messages, PushBuffer(m)
    PROVE  BufferInv'
<1>1. RunShape /\ Texts /\ overlap \in BOOLEAN /\ run[m].pc = "push_buffer"
  BY DEF BufferInv, PushBuffer, At
<1>2. \/ /\ buffer' = buffer \cup {m} /\ run'[m].pc = "get_buffer_1" /\ run'[m].pushed
         /\ run'[m].why = run[m].why
      \/ buffer' \in {buffer, buffer \cup {m}} /\ run'[m].pc = "failed" /\ run'[m].pushed = run[m].pushed
  BY <1>1, PushMoves, StopMoves DEF PushBuffer, ErrorReport6, Moves, SameText
<1>3. Wrote(m) /\ run'[m].seen = run[m].seen /\ run'[m].text = run[m].text /\ run'[m].kept = run[m].kept
  BY <1>1, PushMoves, StopMoves DEF PushBuffer, ErrorReport6, Moves, SameText
<1>4. /\ \A e \in Messages \ {m} : run'[e] = run[e]
      /\ \A e \in Messages : /\ run'[e].seen = run[e].seen /\ run'[e].text = run[e].text
                             /\ run'[e].kept = run[e].kept
  BY <1>3 DEF Wrote
<1>5. SameReplies BY DEF PushBuffer, SameReplies, Replied
<1>6. \A e \in Messages : m \notin run[e].text /\ m \notin run[e].seen /\ m \notin buffer
  BY <1>1 DEF Texts, Early
<1>7. run[m].text = {} /\ run[m].seen = {} /\ ~Replied(m) BY <1>1 DEF Texts, Early, BeforeText
<1>8. \A e \in Messages : Taken(e)' => Taken(e) /\ e # m
  BY <1>1, <1>2, <1>4, <1>5, <1>7 DEF Taken, SameReplies, Deciding
<1>9. Texts'
  <2>1. \A e \in Messages : run'[e].pc \in BeforeText => run'[e].text = {} /\ ~Replied(e)'
    BY <1>1, <1>4, <1>5, <1>7 DEF Texts, SameReplies
  <2>2. \A e \in Messages : run'[e].pc \in Early \cup {"get_buffer_1"} => run'[e].seen = {}
    BY <1>1, <1>4, <1>7 DEF Texts
  <2>3. ASSUME NEW e \in Messages, NEW x \in Messages, run'[x].pc \in Early \cup {"call_state"}
        PROVE  x \notin buffer' /\ x \notin run'[e].text /\ x \notin run'[e].seen
    <3>1. x # m BY <1>2, <2>3 DEF Early
    <3>2. x \notin buffer /\ x \notin run[e].text /\ x \notin run[e].seen BY <1>1, <1>4, <2>3, <3>1 DEF Texts
    <3> QED BY <1>2, <1>4, <3>1, <3>2
  <2>4. \A e \in Messages : run'[e].pc \in {"ask_name", "delete_prompt_buffer"} => Replied(e)'
    BY <1>1, <1>2, <1>4, <1>5 DEF Texts, SameReplies
  <2>5. \A e \in Messages : run'[e].pc # "failed" => run'[e].why = "" BY <1>1, <1>2, <1>4 DEF Texts
  <2> QED BY <2>1, <2>2, <2>3, <2>4, <2>5 DEF Texts
<1>10. /\ overlap' \in BOOLEAN
       /\ ~overlap' => /\ ~overlap
                       /\ \A e \in Messages \ {m} : run[e].pc \notin {"get_buffer_1"} \cup Deciding \cup Naming
  BY <1>1, NobodyElse DEF PushBuffer
<1>11. ASSUME ~overlap' PROVE Window' /\ Decision' /\ Cleared' /\ Apart' /\ Covered'
  <2>1. Window /\ Decision /\ Cleared /\ Apart /\ Covered BY <1>10, <1>11 DEF BufferInv
  <2>2. \A e \in Messages \ {m} : run'[e].pc \notin {"get_buffer_1"} \cup Deciding \cup Naming
    BY <1>4, <1>10, <1>11
  <2>3. run'[m].pc \notin Deciding \cup Naming \cup {"wait"} BY <1>2 DEF Deciding, Naming
  <2>4. Window'
    <3>1. \A e, f \in Messages : e # f /\ run'[f].pc = "get_buffer_1" => run'[e].pc # "get_buffer_1" BY <2>2
    <3>2. \A f \in Messages : run'[f].pc = "get_buffer_1" => f \in buffer' BY <1>2, <2>2
    <3>3. \A f \in Messages : run'[f].pc = "wait" => run'[f].seen = {} \/ f \in run'[f].seen
      BY <1>4, <2>1, <2>3 DEF Window
    <3>4. \A e, f \in Messages : run'[f].pc = "get_buffer_1" /\ run'[e].pc = "wait" => f \notin run'[e].seen
      BY <1>4, <1>6, <2>2
    <3>5. \A e, f \in Messages : e # f /\ run'[e].pc = "wait" /\ run'[f].pc = "wait" =>
             e \notin run'[f].seen \/ f \notin run'[e].seen
      BY <1>4, <2>1, <2>3 DEF Window
    <3> QED BY <3>1, <3>2, <3>3, <3>4, <3>5 DEF Window
  <2>5. Decision'
    <3>1. \A e \in Messages : run'[e].pc \notin Deciding \cup Naming BY <2>2, <2>3
    <3> QED BY <3>1 DEF Decision
  <2>6. Cleared'
    <3>1. \A e \in Messages : run[e].text \cap buffer' = run[e].text \cap buffer BY <1>2, <1>6
    <3>2. ASSUME NEW e \in Messages, Taken(e)' PROVE run'[e].kept \/ run'[e].text \cap buffer' = {}
      <4>1. Taken(e) /\ e # m BY <1>8, <3>2
      <4>2. run[e].pc \notin Deciding BY <1>10, <1>11, <4>1
      <4> QED BY <1>4, <2>1, <3>1, <4>1, <4>2 DEF Cleared
    <3> QED BY <3>2 DEF Cleared
  <2>7. Apart' BY <1>4, <1>8, <2>1 DEF Apart
  <2>8. Covered'
    <3>1. ASSUME NEW x \in Messages, run'[x].pushed, x \notin buffer'
          PROVE  \E e \in Messages : x \in run'[e].text /\ HasAnswer(e)'
      <4>1. run[x].pushed /\ x \notin buffer BY <1>2, <1>4, <3>1
      <4>2. PICK e \in Messages : x \in run[e].text /\ HasAnswer(e) BY <2>1, <4>1 DEF Covered
      <4>3. e # m BY <1>7, <4>2
      <4> QED BY <1>4, <1>5, <4>2, <4>3 DEF HasAnswer, SameReplies
    <3> QED BY <3>1 DEF Covered
  <2> QED BY <2>4, <2>5, <2>6, <2>7, <2>8
<1> QED BY <1>3, <1>9, <1>10, <1>11 DEF BufferInv, Wrote

\* An execution that reads the buffer, or fails to.
LEMMA ReadKeeps ==
    ASSUME BufferInv, NEW m \in Messages, run[m].pc = "get_buffer_1", Reads(m, "wait"), SameReplies,
           run'[m].seen \in {{}, buffer}, UNCHANGED <<buffer, overlap>>
    PROVE  BufferInv'
<1>1. /\ RunShape' /\ \A e \in Messages \ {m} : run'[e] = run[e]
      /\ run'[m].text = run[m].text /\ run'[m].pushed = run[m].pushed /\ run'[m].kept = run[m].kept
      /\ run'[m].pc = "wait" /\ run'[m].why = run[m].why /\ Texts
  BY DEF Reads, Wrote, BufferInv
<1>2. \A e \in Messages : /\ run'[e].text = run[e].text /\ run'[e].pushed = run[e].pushed
                          /\ run'[e].kept = run[e].kept /\ run'[e].why = run[e].why
  BY <1>1
<1>3. \A e \in Messages : Taken(e)' = Taken(e)
  BY <1>1 DEF Taken, SameReplies, Deciding
<1>4. Texts'
  <2>1. \A e \in Messages : run'[e].pc \in BeforeText => run'[e].text = {} /\ ~Replied(e)'
    BY <1>1, <1>2 DEF Texts, SameReplies, BeforeText
  <2>2. \A e \in Messages : run'[e].pc \in Early \cup {"get_buffer_1"} => run'[e].seen = {}
    BY <1>1 DEF Texts, Early
  <2>3. \A e, x \in Messages : run'[x].pc \in Early \cup {"call_state"} =>
           x \notin buffer' /\ x \notin run'[e].text /\ x \notin run'[e].seen
    BY <1>1, <1>2 DEF Texts, Early
  <2>4. \A e \in Messages : run'[e].pc \in {"ask_name", "delete_prompt_buffer"} => Replied(e)'
    BY <1>1 DEF Texts, SameReplies
  <2>5. \A e \in Messages : run'[e].pc # "failed" => run'[e].why = "" BY <1>1, <1>2 DEF Texts
  <2> QED BY <2>1, <2>2, <2>3, <2>4, <2>5 DEF Texts
<1>5. ASSUME ~overlap' PROVE Window' /\ Decision' /\ Cleared' /\ Apart' /\ Covered'
  <2>1. Window /\ Decision /\ Cleared /\ Apart /\ Covered BY <1>5 DEF BufferInv
  <2>2. \A e \in Messages : run'[e].pc # "get_buffer_1" BY <1>1, <2>1 DEF Window
  <2>3. \A e \in Messages : run'[e].pc \notin Deciding BY <1>1, <2>1 DEF Decision, Deciding
  <2>4. m \in buffer /\ \A e \in Messages \ {m} : run[e].pc = "wait" => m \notin run[e].seen
    BY <2>1 DEF Window
  <2>5. Window'
    <3>1. \A f \in Messages : run'[f].pc = "wait" => run'[f].seen = {} \/ f \in run'[f].seen
      BY <1>1, <2>1, <2>4 DEF Window
    <3>2. \A e, f \in Messages : e # f /\ run'[e].pc = "wait" /\ run'[f].pc = "wait" =>
             e \notin run'[f].seen \/ f \notin run'[e].seen
      BY <1>1, <2>1, <2>4 DEF Window
    <3> QED BY <2>2, <3>1, <3>2 DEF Window
  <2>6. Decision' BY <1>1, <2>1, <2>3 DEF Decision, Naming
  <2>7. Cleared'
    <3>1. \A e \in Messages : run'[e].pc \in Deciding <=> run[e].pc \in Deciding BY <1>1 DEF Deciding
    <3>2. \A e \in Messages : run[e].pc \notin Deciding BY <2>3, <3>1
    <3> QED BY <1>2, <1>3, <2>1, <2>3, <3>2 DEF Cleared
  <2>8. Apart' BY <1>2, <1>3, <2>1 DEF Apart
  <2>9. \A e \in Messages : HasAnswer(e)' = HasAnswer(e) BY <1>1 DEF HasAnswer, SameReplies
  <2>10. Covered' BY <1>2, <2>1, <2>9 DEF Covered
  <2> QED BY <2>5, <2>6, <2>7, <2>8, <2>10
<1> QED BY <1>1, <1>4, <1>5 DEF BufferInv

\* An execution that finds the buffer as it read it, and takes it.
LEMMA TakeKeeps ==
    ASSUME BufferInv, NEW m \in Messages, run[m].pc = "wait", run[m].seen = buffer,
           Takes(m, "get_memories", buffer), SameReplies, UNCHANGED <<buffer, overlap>>
    PROVE  BufferInv'
<1>1. /\ RunShape' /\ \A e \in Messages \ {m} : run'[e] = run[e]
      /\ run'[m].seen = run[m].seen /\ run'[m].text = buffer /\ run'[m].pushed = run[m].pushed
      /\ run'[m].kept = run[m].kept /\ run'[m].pc = "get_memories" /\ run'[m].why = run[m].why /\ Texts
  BY DEF Takes, Wrote, BufferInv
<1>2. \A e \in Messages : /\ run'[e].seen = run[e].seen /\ run'[e].pushed = run[e].pushed
                          /\ run'[e].kept = run[e].kept /\ run'[e].why = run[e].why
  BY <1>1
<1>3. ~Replied(m) BY DEF Texts, BeforeText, BufferInv
<1>4. Texts'
  <2>1. \A e \in Messages : run'[e].pc \in BeforeText => run'[e].text = {} /\ ~Replied(e)'
    BY <1>1 DEF Texts, SameReplies, BeforeText, Early
  <2>2. \A e \in Messages : run'[e].pc \in Early \cup {"get_buffer_1"} => run'[e].seen = {}
    BY <1>1 DEF Texts, Early
  <2>3. \A e, x \in Messages : run'[x].pc \in Early \cup {"call_state"} =>
           x \notin buffer' /\ x \notin run'[e].text /\ x \notin run'[e].seen
    BY <1>1, <1>2 DEF Texts, Early
  <2>4. \A e \in Messages : run'[e].pc \in {"ask_name", "delete_prompt_buffer"} => Replied(e)'
    BY <1>1 DEF Texts, SameReplies
  <2>5. \A e \in Messages : run'[e].pc # "failed" => run'[e].why = "" BY <1>1, <1>2 DEF Texts
  <2> QED BY <2>1, <2>2, <2>3, <2>4, <2>5 DEF Texts
<1>5. ASSUME ~overlap' PROVE Window' /\ Decision' /\ Cleared' /\ Apart' /\ Covered'
  <2>1. Window /\ Decision /\ Cleared /\ Apart /\ Covered BY <1>5 DEF BufferInv
  <2>2. Window' BY <1>1, <1>2, <2>1 DEF Window
  <2>3. ASSUME NEW f \in Messages \ {m} PROVE run[f].pc # "get_buffer_1" BY <2>1 DEF Window
  <2>4. ASSUME NEW f \in Messages \ {m}, run[f].pc = "wait" PROVE buffer = {} \/ run[f].seen # buffer
    BY <2>1, <2>4 DEF Window
  <2>5. ASSUME NEW f \in Messages \ {m}, run[f].pc \in Deciding PROVE buffer = {}
    BY <2>1, <2>5 DEF Decision
  <2>6. Decision'
    <3>1. \A e \in Messages : run'[e].pc \in Deciding => buffer' = {} \/ buffer' = run'[e].text
      BY <1>1, <2>1 DEF Decision
    <3>2. ASSUME NEW e \in Messages, NEW f \in Messages, e # f, run'[e].pc \in Deciding
          PROVE  /\ run'[f].pc # "get_buffer_1"
                 /\ run'[f].pc = "wait" => buffer' = {} \/ run'[f].seen # buffer'
                 /\ run'[f].pc \in Deciding => buffer' = {}
      <4>1. CASE e = m BY <1>1, <2>3, <2>4, <2>5, <3>2, <4>1
      <4>2. CASE e # m BY <1>1, <2>1, <2>5, <3>2, <4>2 DEF Decision
      <4> QED BY <4>1, <4>2
    <3>3. \A e \in Messages : run'[e].pc \in Naming => buffer' = {} BY <1>1, <2>1 DEF Decision, Naming
    <3> QED BY <3>1, <3>2, <3>3 DEF Decision
  <2>7. Cleared'
    <3>1. ASSUME NEW e \in Messages, Taken(e)', (run[e].pc \in Deciding => Replied(e) /\ run[e].pc # "ask_name")'
          PROVE  run'[e].kept \/ run'[e].text \cap buffer' = {}
      <4>1. e # m BY <1>1, <1>3, <3>1 DEF SameReplies, Deciding
      <4>2. Taken(e) /\ (run[e].pc \in Deciding => Replied(e) /\ run[e].pc # "ask_name")
        BY <1>1, <3>1, <4>1 DEF Taken, SameReplies
      <4> QED BY <1>1, <2>1, <4>1, <4>2 DEF Cleared
    <3> QED BY <3>1 DEF Cleared
  <2>8. ASSUME NEW f \in Messages \ {m}, Taken(f) PROVE run[f].text \cap buffer = {} \/ run[f].kept
    <3>1. CASE run[f].pc \in Deciding BY <2>5, <3>1
    <3>2. CASE run[f].pc \notin Deciding BY <2>1, <2>8, <3>2 DEF Cleared
    <3> QED BY <3>1, <3>2
  <2>9. Apart'
    <3>1. \A f \in Messages \ {m} : Taken(f)' = Taken(f) BY <1>1 DEF Taken, SameReplies
    <3>2. ASSUME NEW e \in Messages, NEW f \in Messages, e # f, Taken(e)', Taken(f)'
          PROVE  run'[e].text \cap run'[f].text = {} \/ run'[e].kept \/ run'[f].kept
      <4>1. CASE e = m BY <1>1, <2>8, <3>1, <3>2, <4>1
      <4>2. CASE f = m BY <1>1, <2>8, <3>1, <3>2, <4>2
      <4>3. CASE e # m /\ f # m BY <1>1, <2>1, <3>1, <3>2, <4>3 DEF Apart
      <4> QED BY <4>1, <4>2, <4>3
    <3> QED BY <3>2 DEF Apart
  <2>10. Covered'
    <3>1. ~HasAnswer(m) BY <1>1, <1>3 DEF HasAnswer, Texts
    <3>2. \A e \in Messages \ {m} : HasAnswer(e)' = HasAnswer(e) BY <1>1 DEF HasAnswer, SameReplies
    <3>3. ASSUME NEW x \in Messages, run'[x].pushed, x \notin buffer'
          PROVE  \E e \in Messages : x \in run'[e].text /\ HasAnswer(e)'
      <4>1. PICK e \in Messages : x \in run[e].text /\ HasAnswer(e) BY <1>2, <2>1, <3>3 DEF Covered
      <4> QED BY <1>1, <3>1, <3>2, <4>1
    <3> QED BY <3>3 DEF Covered
  <2> QED BY <2>2, <2>6, <2>7, <2>9, <2>10
<1> QED BY <1>1, <1>4, <1>5 DEF BufferInv

\* A client is asked for a name.
LEMMA AskKeeps ==
    ASSUME BufferInv, NEW m \in Messages, run[m].pc = "client", Moves(m, "ask_name"), Replied(m)',
           \A e \in Messages \ {m} : Replied(e)' = Replied(e), UNCHANGED <<buffer, overlap>>
    PROVE  BufferInv'
<1>1. /\ RunShape' /\ \A e \in Messages \ {m} : run'[e] = run[e]
      /\ run'[m].seen = run[m].seen /\ run'[m].text = run[m].text /\ run'[m].pushed = run[m].pushed
      /\ run'[m].kept = run[m].kept /\ run'[m].pc = "ask_name" /\ run'[m].why = run[m].why /\ Texts
  BY DEF Moves, Wrote, SameText, BufferInv
<1>2. \A e \in Messages : /\ run'[e].seen = run[e].seen /\ run'[e].text = run[e].text
                          /\ run'[e].pushed = run[e].pushed /\ run'[e].kept = run[e].kept
  BY <1>1
<1>3. \A e \in Messages : Taken(e)' = Taken(e) BY <1>1 DEF Taken, Deciding
<1>4. Texts'
  <2>1. run'[m].why = "" BY <1>1 DEF Texts
  <2>2. run'[m].pc \notin BeforeText \cup Early \cup {"get_buffer_1", "call_state"} BY <1>1 DEF Early, BeforeText
  <2> QED BY <1>1, <2>1, <2>2, TextsKept
<1>5. ASSUME ~overlap' PROVE Window' /\ Decision' /\ Cleared' /\ Apart' /\ Covered'
  <2>1. Window /\ Decision /\ Cleared /\ Apart /\ Covered BY <1>5 DEF BufferInv
  <2>2. Window' BY <1>1, <1>2, <2>1 DEF Window
  <2>3. \A e \in Messages : run'[e].pc \in Deciding <=> run[e].pc \in Deciding BY <1>1 DEF Deciding
  <2>4. Decision' BY <1>1, <1>2, <2>1, <2>3 DEF Decision, Naming
  <2>5. Cleared'
    <3>1. ASSUME NEW e \in Messages, Taken(e)', (run[e].pc \in Deciding => Replied(e) /\ run[e].pc # "ask_name")'
          PROVE  run'[e].kept \/ run'[e].text \cap buffer' = {}
      <4>1. e # m BY <1>1, <2>3, <3>1 DEF Deciding
      <4> QED BY <1>1, <1>3, <2>1, <3>1, <4>1 DEF Cleared
    <3> QED BY <3>1 DEF Cleared
  <2>6. Apart' BY <1>2, <1>3, <2>1 DEF Apart
  <2>7. \A e \in Messages : HasAnswer(e) => HasAnswer(e)' BY <1>1 DEF HasAnswer
  <2>8. Covered' BY <1>2, <2>1, <2>7 DEF Covered
  <2> QED BY <2>2, <2>4, <2>5, <2>6, <2>8
<1> QED BY <1>1, <1>4, <1>5 DEF BufferInv

\* The buffer is deleted by an execution that has its text answered, or is about to,
\* or the deletion fails.
LEMMA DeleteKeeps ==
    ASSUME BufferInv, NEW m \in Messages, NEW pc, SameReplies, UNCHANGED overlap,
           \/ run[m].pc = "ask_name" /\ pc \in {"get_pending_1", "push_memory"}
           \/ run[m].pc = "delete_buffer" /\ pc = "send_response",
           \/ buffer' = {} /\ Moves(m, pc)
           \/ UNCHANGED buffer /\ Keeps(m, pc)
    PROVE  BufferInv'
<1>1. /\ RunShape' /\ \A e \in Messages \ {m} : run'[e] = run[e]
      /\ run'[m].seen = run[m].seen /\ run'[m].text = run[m].text /\ run'[m].pushed = run[m].pushed
      /\ (run[m].kept => run'[m].kept) /\ run'[m].pc = pc /\ run'[m].why = run[m].why
      /\ pc \in {"get_pending_1", "push_memory", "send_response"}
      /\ Texts /\ buffer' \in {{}, buffer} /\ (buffer' = {} \/ run'[m].kept)
  BY DEF Moves, Keeps, Wrote, SameText, BufferInv
<1>2. \A e \in Messages : /\ run'[e].seen = run[e].seen /\ run'[e].text = run[e].text
                          /\ run'[e].pushed = run[e].pushed /\ (run[e].kept => run'[e].kept)
  BY <1>1
<1>3. run[m].pc \in Deciding BY DEF Deciding
<1>4. \A e \in Messages : Taken(e)' => Taken(e) BY <1>1, <1>3 DEF Taken, SameReplies
<1>5. Texts'
  <2>1. run'[m].why = "" BY <1>1, <1>3 DEF Texts, Deciding
  <2>2. run'[m].pc \notin BeforeText \cup Early \cup {"get_buffer_1", "call_state", "ask_name", "delete_prompt_buffer"}
    BY <1>1 DEF Early, BeforeText
  <2> QED BY <1>1, <2>1, <2>2, TextsKept DEF SameReplies
<1>6. ASSUME ~overlap' PROVE Window' /\ Decision' /\ Cleared' /\ Apart' /\ Covered'
  <2>1. Window /\ Decision /\ Cleared /\ Apart /\ Covered BY <1>6 DEF BufferInv
  <2>2. \A e \in Messages : run'[e].pc # "get_buffer_1" BY <1>1, <1>3, <2>1 DEF Decision
  <2>3. Window'
    <3>1. \A f \in Messages : run'[f].pc = "wait" => run'[f].seen = {} \/ f \in run'[f].seen
      BY <1>1, <2>1 DEF Window
    <3>2. \A e, f \in Messages : e # f /\ run'[e].pc = "wait" /\ run'[f].pc = "wait" =>
             e \notin run'[f].seen \/ f \notin run'[e].seen
      BY <1>1, <2>1 DEF Window
    <3> QED BY <2>2, <3>1, <3>2 DEF Window
  <2>4. Decision'
    <3>1. \A e \in Messages : run'[e].pc \in Deciding => run[e].pc \in Deciding BY <1>1, <1>3
    <3>2. \A e \in Messages : run'[e].pc = "wait" \/ run'[e].pc \in Naming => run'[e] = run[e]
      BY <1>1 DEF Naming
    <3>3. \A e \in Messages : run'[e].pc \in Deciding => buffer' = {} \/ buffer' = run'[e].text
      BY <1>1, <1>2, <2>1, <3>1 DEF Decision
    <3>4. \A e, f \in Messages : e # f /\ run'[e].pc \in Deciding =>
             /\ run'[f].pc = "wait" => buffer' = {} \/ run'[f].seen # buffer'
             /\ run'[f].pc \in Deciding => buffer' = {}
      BY <1>1, <2>1, <3>1, <3>2 DEF Decision
    <3>5. \A e \in Messages : run'[e].pc \in Naming => buffer' = {} BY <1>1, <2>1, <3>2 DEF Decision
    <3> QED BY <2>2, <3>3, <3>4, <3>5 DEF Decision
  <2>5. Cleared'
    <3>1. ASSUME NEW e \in Messages, Taken(e)', (run[e].pc \in Deciding => Replied(e) /\ run[e].pc # "ask_name")'
          PROVE  run'[e].kept \/ run'[e].text \cap buffer' = {}
      <4>1. CASE e = m BY <1>1, <4>1
      <4>2. CASE e # m
        <5>1. run[e].kept \/ run[e].text \cap buffer = {}
          BY <1>1, <1>4, <2>1, <3>1, <4>2 DEF Cleared, SameReplies
        <5> QED BY <1>1, <1>2, <5>1
      <4> QED BY <4>1, <4>2
    <3> QED BY <3>1 DEF Cleared
  <2>6. Apart' BY <1>2, <1>4, <2>1 DEF Apart
  <2>7. /\ \A e \in Messages : HasAnswer(e) => HasAnswer(e)'
        /\ HasAnswer(m)'
    BY <1>1 DEF HasAnswer, SameReplies, Texts
  <2>8. Covered'
    <3>1. ASSUME NEW x \in Messages, run'[x].pushed, x \notin buffer'
          PROVE  \E e \in Messages : x \in run'[e].text /\ HasAnswer(e)'
      <4>1. CASE x \in buffer BY <1>1, <1>3, <2>1, <2>7, <3>1, <4>1 DEF Decision
      <4>2. CASE x \notin buffer BY <1>2, <2>1, <2>7, <3>1, <4>2 DEF Covered
      <4> QED BY <4>1, <4>2
    <3> QED BY <3>1 DEF Covered
  <2> QED BY <2>3, <2>4, <2>5, <2>6, <2>8
<1> QED BY <1>1, <1>5, <1>6 DEF BufferInv

\* The answer is sent, or fails to be.
LEMMA SendKeeps ==
    ASSUME BufferInv, NEW m \in Messages, run[m].pc = "send_response", UNCHANGED <<buffer, overlap>>,
           Moves(m, "done") \/ Moves(m, "failed"),
           Replied(m)' \/ run'[m].why = "external.evo.send_message",
           \A e \in Messages \ {m} : Replied(e)' = Replied(e)
    PROVE  BufferInv'
<1>1. /\ RunShape' /\ \A e \in Messages \ {m} : run'[e] = run[e]
      /\ run'[m].seen = run[m].seen /\ run'[m].text = run[m].text /\ run'[m].pushed = run[m].pushed
      /\ run'[m].kept = run[m].kept /\ run'[m].pc \in {"done", "failed"}
      /\ (run'[m].pc # "failed" => run'[m].why = run[m].why) /\ Texts
  BY DEF Moves, Wrote, SameText, BufferInv
<1>2. \A e \in Messages : /\ run'[e].seen = run[e].seen /\ run'[e].text = run[e].text
                          /\ run'[e].pushed = run[e].pushed /\ run'[e].kept = run[e].kept
  BY <1>1
<1>3. \A e \in Messages : Taken(e)' => Taken(e) BY <1>1 DEF Taken, Deciding
<1>4. Texts'
  <2>1. run'[m].pc # "failed" => run'[m].why = "" BY <1>1 DEF Texts
  <2>2. run'[m].pc \notin BeforeText \cup Early \cup {"get_buffer_1", "call_state", "ask_name", "delete_prompt_buffer"}
    BY <1>1 DEF Early, BeforeText
  <2> QED BY <1>1, <2>1, <2>2, TextsKept
<1>5. ASSUME ~overlap' PROVE Window' /\ Decision' /\ Cleared' /\ Apart' /\ Covered'
  <2>1. Window /\ Decision /\ Cleared /\ Apart /\ Covered BY <1>5 DEF BufferInv
  <2>2. Window' BY <1>1, <1>2, <2>1 DEF Window
  <2>3. Decision' BY <1>1, <1>2, <2>1 DEF Decision, Deciding, Naming
  <2>4. Cleared'
    <3>1. ASSUME NEW e \in Messages, Taken(e)', (run[e].pc \in Deciding => Replied(e) /\ run[e].pc # "ask_name")'
          PROVE  run[e].kept \/ run[e].text \cap buffer = {}
      <4>1. CASE e = m BY <1>3, <2>1, <3>1, <4>1 DEF Cleared, Deciding
      <4>2. CASE e # m BY <1>1, <1>3, <2>1, <3>1, <4>2 DEF Cleared
      <4> QED BY <4>1, <4>2
    <3> QED BY <1>2, <3>1 DEF Cleared
  <2>5. Apart' BY <1>2, <1>3, <2>1 DEF Apart
  <2>6. \A e \in Messages : HasAnswer(e) => HasAnswer(e)' BY <1>1 DEF HasAnswer
  <2>7. Covered' BY <1>2, <2>1, <2>6 DEF Covered
  <2> QED BY <2>2, <2>3, <2>4, <2>5, <2>7
<1> QED BY <1>1, <1>4, <1>5 DEF BufferInv

-----------------------------------------------------------------------------
(* Each action is one of these steps. *)

\* A reply is the execution's own; an apology is no reply, and a lost one neither.
LEMMA Telling ==
    ASSUME ToldShape, NEW m, NEW what, Tell(m, what)
    PROVE  /\ \A e \in Messages \ {m} : Replied(e)' = Replied(e)
           /\ m \in Messages /\ what = "reply" => Replied(m)'
           /\ what # "reply" => SameReplies
           /\ ToldShape'
BY DEF ToldShape, Tell, Replied, SameReplies

\* Nobody is told anything.
LEMMA Silence == ASSUME UNCHANGED told PROVE SameReplies
BY DEF SameReplies, Replied

\* The nodes up to the push.
LEMMA GatesKeep ==
    ASSUME BufferInv, NEW m \in Messages,
           \/ GetPersonalBlock(m) \/ SetTimeout(m) \/ GetTimeout(m) \/ GetToken(m) \/ BusinessContext(m)
           \/ Transcribe(m)
    PROVE  BufferInv'
<1>1. RunShape /\ UNCHANGED <<buffer, overlap>> /\ SameReplies
  BY Silence DEF BufferInv, GetPersonalBlock, SetTimeout, GetTimeout, GetToken, BusinessContext, Transcribe
<1>2. PICK pc \in Early \cup Ended : Moves(m, pc)
  <2>1. \/ \E pc \in Early \cup Ended : GoTo(m, pc)
        \/ \E type : StopAndError(m, type)
    BY DEF GetPersonalBlock, SetTimeout, GetTimeout, GetToken, BusinessContext, Transcribe, Continue,
           ErrorReport, ErrorReport3, ErrorReport4, ErrorReport5, ErrorReport9, Early, Ended
  <2> QED BY <1>1, <2>1, GoToMoves, StopMoves DEF Ended
<1>3. run[m].pc \in Early
  BY DEF GetPersonalBlock, SetTimeout, GetTimeout, GetToken, BusinessContext, Transcribe, At, Early
<1> QED BY <1>1, <1>2, <1>3, Quiet

\* The nodes that tell the client out of hours.
LEMMA NoticeKeeps ==
    ASSUME BufferInv, NEW m \in Messages,
           \/ GetOutsideHoursPending(m) \/ SetOutsideHoursPending(m) \/ DeleteNoticeBuffer(m) \/ SendNotice(m)
    PROVE  BufferInv'
<1>1. RunShape /\ overlap \in BOOLEAN BY DEF BufferInv
<1>2. SameReplies
  BY Silence DEF GetOutsideHoursPending, SetOutsideHoursPending, DeleteNoticeBuffer, SendNotice
<1>3. buffer' \subseteq buffer /\ overlap' \in BOOLEAN /\ (~overlap' => ~overlap /\ buffer' = buffer)
  BY <1>1 DEF GetOutsideHoursPending, SetOutsideHoursPending, DeleteNoticeBuffer, SendNotice
<1>4. PICK pc \in Early \cup Ended : Moves(m, pc)
  <2>1. \/ \E pc \in Early \cup Ended : GoTo(m, pc)
        \/ \E state : run' = [run EXCEPT ![m].pc = "set_outside_pending", ![m].state = state]
        \/ \E type : run' = [run EXCEPT ![m].pc = "failed", ![m].why = type]
    BY DEF GetOutsideHoursPending, SetOutsideHoursPending, DeleteNoticeBuffer, SendNotice, Continue, Unreported,
           StopAndError, ErrorReport2, ErrorReport10, Early, Ended
  <2> QED BY <1>1, <2>1, GoToMoves, StateMoves, FailMoves DEF Early, Ended
<1>5. run[m].pc \in Early
  BY DEF GetOutsideHoursPending, SetOutsideHoursPending, DeleteNoticeBuffer, SendNotice, At, Early
<1> QED BY <1>2, <1>3, <1>4, <1>5, QuietOrMarked

\* The gate that sends a message to the question for a name.
LEMMA GetPendingKeeps ==
    ASSUME BufferInv, BufferAssumption, NEW m \in Messages, GetPending(m)
    PROVE  BufferInv'
<1>1. RunShape /\ UNCHANGED buffer /\ SameReplies /\ run[m].pc = "get_pending"
  BY Silence DEF BufferInv, GetPending, At
<1>2. \/ /\ GoTo(m, "call_state")
         /\ overlap' = (overlap \/ buffer # {} \/ Others(m, Reading \cup Deciding \cup Naming))
      \/ (GoTo(m, MessageType(m)) \/ GoTo(m, "dropped")) /\ UNCHANGED overlap
      \/ StopAndError(m, "internal.redis.get_pending") /\ UNCHANGED overlap
  BY DEF GetPending, Continue, ErrorReport2, HasPending, PendingState
<1>3. MessageType(m) \in {"push_buffer", "transcribe", "dropped"} BY BufferAssumption DEF MessageType
<1>4. CASE GoTo(m, "call_state") /\ overlap' = (overlap \/ buffer # {} \/ Others(m, Reading \cup Deciding \cup Naming))
  BY <1>1, <1>4, GoToMoves, NamingStarts
<1>5. CASE (GoTo(m, MessageType(m)) \/ GoTo(m, "dropped")) /\ UNCHANGED overlap
  <2>1. PICK pc \in {"push_buffer", "transcribe", "dropped"} : GoTo(m, pc) BY <1>3, <1>5
  <2>2. pc \in Early \cup Ended /\ Moves(m, pc) BY <1>1, <2>1, GoToMoves DEF Early, Ended
  <2> QED BY <1>1, <1>5, <2>2, Quiet DEF Early
<1>6. CASE StopAndError(m, "internal.redis.get_pending") /\ UNCHANGED overlap
  BY <1>1, <1>6, StopMoves, Quiet DEF Early, Ended
<1> QED BY <1>2, <1>4, <1>5, <1>6

\* The answer to the question for a name.
LEMMA NamingKeeps ==
    ASSUME BufferInv, ToldShape, NEW m \in Messages, CallState(m) \/ DeletePromptBuffer(m)
    PROVE  BufferInv'
<1>1. RunShape /\ UNCHANGED overlap BY DEF BufferInv, CallState, DeletePromptBuffer
<1>2. CASE CallState(m)
  <2>1. run[m].pc = "call_state" /\ UNCHANGED buffer BY <1>2 DEF CallState, At
  <2>2. \/ /\ Tell(m, "reply")
           /\ run' = [run EXCEPT ![m].pc = "delete_prompt_buffer", ![m].text = {m}]
        \/ StopAndError(m, "internal.api.client_name") /\ UNCHANGED told
    BY <1>2 DEF CallState
  <2>3. CASE Tell(m, "reply") /\ run' = [run EXCEPT ![m].pc = "delete_prompt_buffer", ![m].text = {m}]
    <3>1. Takes(m, "delete_prompt_buffer", {m}) BY <1>1, <2>3, TextMoves
    <3>2. Replied(m)' /\ \A e \in Messages \ {m} : Replied(e)' = Replied(e) BY <2>3, Telling
    <3> QED BY <1>1, <2>1, <3>1, <3>2, CallStateKeeps
  <2>4. CASE StopAndError(m, "internal.api.client_name") /\ UNCHANGED told
    BY <1>1, <2>1, <2>4, StopMoves, Silence, Quiet DEF Ended
  <2> QED BY <2>2, <2>3, <2>4
<1>3. CASE DeletePromptBuffer(m)
  <2>1. run[m].pc = "delete_prompt_buffer" /\ SameReplies BY <1>3, Silence DEF DeletePromptBuffer, At
  <2>2. \/ buffer' = {} /\ End(m, "done")
        \/ UNCHANGED buffer /\ run' = [run EXCEPT ![m].pc = "done", ![m].kept = TRUE]
    BY <1>3 DEF DeletePromptBuffer
  <2>3. \/ buffer' = {} /\ (Moves(m, "done") \/ Moves(m, "failed"))
        \/ UNCHANGED buffer /\ Keeps(m, "done")
    BY <1>1, <2>2, EndMoves, KeptMoves
  <2> QED BY <1>1, <2>1, <2>3, PromptKeeps
<1> QED BY <1>2, <1>3

\* The two reads of the buffer.
LEMMA ReadingKeeps ==
    ASSUME BufferInv, NEW m \in Messages, GetBuffer1(m) \/ GetBuffer2(m)
    PROVE  BufferInv'
<1>1. RunShape /\ UNCHANGED <<buffer, overlap>> /\ SameReplies
  BY Silence DEF BufferInv, GetBuffer1, GetBuffer2
<1>2. CASE GetBuffer1(m)
  <2>1. run[m].pc = "get_buffer_1" BY <1>2 DEF GetBuffer1, At
  <2>2. run[m].seen = {} BY <2>1 DEF BufferInv, Texts
  <2>3. \/ run' = [run EXCEPT ![m].pc = "wait", ![m].seen = buffer]
        \/ run' = [run EXCEPT ![m].pc = "wait", ![m].late = TRUE]
    BY <1>2 DEF GetBuffer1
  <2>4. CASE run' = [run EXCEPT ![m].pc = "wait", ![m].seen = buffer]
    <3>1. Reads(m, "wait") /\ run'[m].seen = buffer BY <1>1, <2>4, ReadMoves
    <3> QED BY <1>1, <2>1, <3>1, ReadKeeps
  <2>5. CASE run' = [run EXCEPT ![m].pc = "wait", ![m].late = TRUE]
    <3>1. Moves(m, "wait") BY <1>1, <2>5, LateMoves
    <3>2. Reads(m, "wait") /\ run'[m].seen = {} BY <2>2, <3>1 DEF Moves, Reads, SameText
    <3> QED BY <1>1, <2>1, <3>2, ReadKeeps
  <2> QED BY <2>3, <2>4, <2>5
<1>3. CASE GetBuffer2(m)
  <2>1. run[m].pc = "wait" BY <1>3 DEF GetBuffer2, At
  <2>2. \/ /\ run[m].seen = buffer
           /\ run' = [run EXCEPT ![m].pc = "get_memories", ![m].text = buffer]
        \/ End(m, "superseded")
        \/ StopAndError(m, "internal.redis.buffer")
    BY <1>3 DEF GetBuffer2, CompareBuffers, ErrorReport6
  <2>3. CASE run[m].seen = buffer /\ run' = [run EXCEPT ![m].pc = "get_memories", ![m].text = buffer]
    BY <1>1, <2>1, <2>3, TextMoves, TakeKeeps
  <2>4. CASE End(m, "superseded") BY <1>1, <2>1, <2>4, EndMoves, Quiet DEF Ended
  <2>5. CASE StopAndError(m, "internal.redis.buffer") BY <1>1, <2>1, <2>5, StopMoves, Quiet DEF Ended
  <2> QED BY <2>2, <2>3, <2>4, <2>5
<1> QED BY <1>2, <1>3

\* The nodes from the decision to the deletion.
LEMMA AnsweringKeeps ==
    ASSUME BufferInv, NEW m \in Messages,
           \/ GetMemories1(m) \/ TextClassifier(m) \/ SetPersonalBlock(m) \/ ServicesList(m) \/ GetPending1(m)
           \/ AiAgent(m) \/ PushMemory(m) \/ PushMemory1(m)
    PROVE  BufferInv'
<1>0. RunShape /\ overlap \in BOOLEAN BY DEF BufferInv
<1>1. /\ buffer' \subseteq buffer /\ overlap' \in BOOLEAN /\ (~overlap' => ~overlap /\ buffer' = buffer)
      /\ SameReplies
  BY <1>0, Silence DEF GetMemories1, TextClassifier, SetPersonalBlock, ServicesList, GetPending1, AiAgent,
                       PushMemory, PushMemory1
<1>2. run[m].pc \in Deciders
  BY DEF GetMemories1, TextClassifier, SetPersonalBlock, ServicesList, GetPending1, AiAgent, PushMemory,
         PushMemory1, At, Deciders, Deciding
<1>3. PICK pc \in Deciders \cup Ended : Moves(m, pc)
  <2>1. \/ \E pc \in Deciders : GoTo(m, pc)
        \/ \E outcome \in Ended : End(m, outcome)
        \/ \E type : StopAndError(m, type)
        \/ TextClassifier(m)
    BY DEF GetMemories1, SetPersonalBlock, ServicesList, GetPending1, AiAgent, PushMemory, PushMemory1, Continue,
           ErrorReport11, ErrorReport12, ErrorReport13, Deciders, Deciding, Ended
  <2>2. CASE TextClassifier(m)
    <3>0. PICK route \in {"spam", "personal", "agent", "appointments", "list", "fixed"} :
             \E kept : run' = [run EXCEPT ![m].pc = MessageClassifier(route), ![m].route = kept]
      BY <2>2 DEF TextClassifier
    <3>1. PICK kept : run' = [run EXCEPT ![m].pc = MessageClassifier(route), ![m].route = kept]
      BY <3>0
    <3> DEFINE pc == MessageClassifier(route)
    <3>2. pc \in Deciders BY DEF MessageClassifier, Deciders, Deciding
    <3>3. Moves(m, pc) BY <1>0, <3>1, RouteMoves
    <3> HIDE DEF pc
    <3> QED BY <3>2, <3>3
  <2> QED BY <1>0, <2>1, <2>2, GoToMoves, EndMoves, StopMoves DEF Ended
<1> QED BY <1>1, <1>2, <1>3, QuietOrMarked

\* The question for a name, and the deletions and the sending.
LEMMA ClosingKeeps ==
    ASSUME BufferInv, ToldShape, NEW m \in Messages,
           Client(m) \/ DeleteAskedBuffer(m) \/ DeleteBuffer(m) \/ SendResponse(m)
    PROVE  BufferInv'
<1>1. RunShape /\ UNCHANGED overlap
  BY DEF BufferInv, Client, DeleteAskedBuffer, DeleteBuffer, SendResponse
<1>2. CASE Client(m)
  <2>1. run[m].pc = "client" /\ UNCHANGED buffer BY <1>2 DEF Client, At
  <2>2. \/ (GoTo(m, "get_pending_1") \/ GoTo(m, "push_memory")) /\ UNCHANGED told
        \/ GoTo(m, "ask_name") /\ Tell(m, "reply")
        \/ StopAndError(m, "internal.api.get_client") /\ UNCHANGED told
    BY <1>2 DEF Client, Continue, AfterClient
  <2>3. CASE (GoTo(m, "get_pending_1") \/ GoTo(m, "push_memory")) /\ UNCHANGED told
    BY <1>1, <2>1, <2>3, GoToMoves, Silence, Quiet DEF Deciders, Deciding
  <2>4. CASE GoTo(m, "ask_name") /\ Tell(m, "reply")
    BY <1>1, <2>1, <2>4, GoToMoves, Telling, AskKeeps
  <2>5. CASE StopAndError(m, "internal.api.get_client") /\ UNCHANGED told
    BY <1>1, <2>1, <2>5, StopMoves, Silence, Quiet DEF Deciders, Deciding, Ended
  <2> QED BY <2>2, <2>3, <2>4, <2>5
<1>3. CASE DeleteAskedBuffer(m)
  <2>1. run[m].pc = "ask_name" /\ SameReplies BY <1>3, Silence DEF DeleteAskedBuffer, At
  <2>2. PICK pc \in {"get_pending_1", "push_memory"} :
           \/ buffer' = {} /\ GoTo(m, pc)
           \/ UNCHANGED buffer /\ run' = [run EXCEPT ![m].pc = pc, ![m].kept = TRUE]
    BY <1>3 DEF DeleteAskedBuffer, Continue, AfterClient
  <2>3. \/ buffer' = {} /\ Moves(m, pc)
        \/ UNCHANGED buffer /\ Keeps(m, pc)
    BY <1>1, <2>2, GoToMoves, KeptMoves
  <2> QED BY <1>1, <2>1, <2>3, DeleteKeeps
<1>4. CASE DeleteBuffer(m)
  <2>1. run[m].pc = "delete_buffer" /\ SameReplies BY <1>4, Silence DEF DeleteBuffer, At
  <2>2. \/ buffer' = {} /\ GoTo(m, "send_response")
        \/ UNCHANGED buffer /\ run' = [run EXCEPT ![m].pc = "send_response", ![m].kept = TRUE]
    BY <1>4 DEF DeleteBuffer, Continue
  <2>3. \/ buffer' = {} /\ Moves(m, "send_response")
        \/ UNCHANGED buffer /\ Keeps(m, "send_response")
    BY <1>1, <2>2, GoToMoves, KeptMoves
  <2> QED BY <1>1, <2>1, <2>3, DeleteKeeps
<1>5. CASE SendResponse(m)
  <2>1. run[m].pc = "send_response" /\ UNCHANGED buffer BY <1>5 DEF SendResponse, At
  <2>2. \/ Tell(m, "reply") /\ End(m, "done")
        \/ StopAndError(m, "external.evo.send_message") /\ UNCHANGED told
    BY <1>5 DEF SendResponse, ErrorReport10
  <2>3. CASE Tell(m, "reply") /\ End(m, "done")
    BY <1>1, <2>1, <2>3, EndMoves, Telling, SendKeeps
  <2>4. CASE StopAndError(m, "external.evo.send_message") /\ UNCHANGED told
    BY <1>1, <2>1, <2>4, StopMoves, Silence, SendKeeps DEF SameReplies
  <2> QED BY <2>2, <2>3, <2>4
<1> QED BY <1>2, <1>3, <1>4, <1>5

\* A step that touches neither the buffer nor an execution.
LEMMA OutsideKeeps ==
    ASSUME BufferInv, SameReplies, UNCHANGED <<buffer, run>>, overlap' \in BOOLEAN, overlap => overlap'
    PROVE  BufferInv'
<1>1. RunShape' BY DEF BufferInv, RunShape
<1>2. Texts' BY DEF BufferInv, Texts, SameReplies
<1>3. (~overlap => Window /\ Decision)' BY DEF BufferInv, Window, Decision
<1>4. (~overlap => Cleared /\ Apart /\ Covered)'
  BY DEF BufferInv, Cleared, Apart, Covered, Taken, HasAnswer, SameReplies
<1> QED BY <1>1, <1>2, <1>3, <1>4 DEF BufferInv

\* The failures reported, the panel, and the keys that expire.
LEMMA ErrorsKeep ==
    ASSUME BufferInv, ToldShape,
           (\E r \in reports : ErrorTrigger(r)) \/ ClientUpdate \/ ChatBlockExpires \/ PersonalBlockExpires
    PROVE  BufferInv' /\ ToldShape'
<1>1. UNCHANGED <<buffer, run>> /\ overlap' \in BOOLEAN /\ (overlap => overlap')
  <2>1. overlap \in BOOLEAN BY DEF BufferInv
  <2>2. CASE ClientUpdate BY <2>1, <2>2, Zenon DEF ClientUpdate
  <2>3. UNCHANGED <<buffer, run, overlap>> \/ ClientUpdate
    BY DEF ErrorTrigger, ChatBlockExpires, PersonalBlockExpires
  <2> QED BY <2>1, <2>2, <2>3
<1>2. UNCHANGED told \/ \E e, what : Tell(e, what) /\ what # "reply"
  BY DEF ErrorTrigger, ClientUpdate, ChatBlockExpires, PersonalBlockExpires
<1>3. SameReplies /\ ToldShape' BY <1>2, Telling, Silence DEF ToldShape
<1> QED BY <1>1, <1>3, OutsideKeeps

\* All of them.
LEMMA StepKeeps ==
    ASSUME BufferInv, ToldShape, BufferAssumption, NEW m \in Messages, Step(m)
    PROVE  BufferInv'
BY GatesKeep, NoticeKeeps, GetPendingKeeps, NamingKeeps, PushKeeps, ReadingKeeps, AnsweringKeeps, ClosingKeeps DEF Step

\* Every execution keeps its place in told.
LEMMA StepTold == ASSUME ToldShape, NEW m \in Messages, Step(m) PROVE ToldShape'
<1>1. UNCHANGED told \/ Tell(m, "reply")
  BY DEF Step, GetPersonalBlock, SetTimeout, GetTimeout, GetToken, BusinessContext, GetPending, CallState,
         GetOutsideHoursPending, SetOutsideHoursPending, DeleteNoticeBuffer, SendNotice, ServicesList,
         DeletePromptBuffer, Transcribe, PushBuffer, GetBuffer1, GetBuffer2, GetMemories1, TextClassifier,
         SetPersonalBlock, Client, DeleteAskedBuffer, GetPending1, AiAgent, PushMemory, PushMemory1,
         DeleteBuffer, SendResponse
<1> QED BY <1>1, Telling DEF ToldShape

\* The chat before its first message.
LEMMA InitHolds == ASSUME Init PROVE BufferInv /\ ToldShape
<1> DEFINE r == [pc |-> "get_personal_block", state |-> "", seen |-> {}, text |-> {}, route |-> "",
                 pushed |-> FALSE, kept |-> FALSE, late |-> FALSE, why |-> ""]
<1>1. run = [m \in Messages |-> r] /\ buffer = {} /\ overlap = FALSE /\ told = [m \in Messages |-> {}]
  BY DEF Init
<1>2. IsRun(r) BY DEF IsRun
<1>3. \A m \in Messages : /\ run[m].pc = "get_personal_block" /\ run[m].seen = {} /\ run[m].text = {}
                          /\ run[m].pushed = FALSE /\ run[m].kept = FALSE /\ run[m].why = ""
                          /\ IsRun(run[m])
  BY <1>1, <1>2
<1>4. RunShape /\ ToldShape BY <1>1, <1>3 DEF RunShape, ToldShape
<1>5. \A m \in Messages : ~Replied(m) /\ ~Taken(m)
  BY <1>1, <1>3 DEF Replied, Taken, Deciding
<1>6. Texts BY <1>1, <1>3, <1>5 DEF Texts
<1>7. Window /\ Decision BY <1>1, <1>3 DEF Window, Decision, Deciding, Naming
<1>8. Cleared /\ Apart /\ Covered BY <1>3, <1>5 DEF Cleared, Apart, Covered
<1> QED BY <1>1, <1>4, <1>6, <1>7, <1>8 DEF BufferInv

\* Every step of the system.
LEMMA NextKeeps ==
    ASSUME BufferInv, ToldShape, BufferAssumption, [Next]_vars
    PROVE  BufferInv' /\ ToldShape'
<1>1. CASE \E m \in Messages : Step(m) BY <1>1, StepKeeps, StepTold
<1>2. CASE (\E r \in reports : ErrorTrigger(r)) \/ ClientUpdate \/ ChatBlockExpires \/ PersonalBlockExpires
  BY <1>2, ErrorsKeep
<1>3. CASE UNCHANGED vars
  <2>1. UNCHANGED <<buffer, run, overlap>> /\ UNCHANGED told BY <1>3 DEF vars
  <2>2. overlap' \in BOOLEAN /\ (overlap => overlap') BY <2>1 DEF BufferInv
  <2> QED BY <2>1, <2>2, Silence, OutsideKeeps DEF ToldShape
<1> QED BY <1>1, <1>2, <1>3 DEF Next

-----------------------------------------------------------------------------
(* Who still answers for the buffer. *)

\* A step of m's execution: what is to be known of it alone.
LEMMA SilenceKept ==
    ASSUME SilenceInv, BufferInv', ToldShape', NEW m \in Messages, Wrote(m), overlap => overlap',
           reports \subseteq reports', named => named',
           \A e \in Messages : told[e] \subseteq told'[e],
           \A e \in Messages \ {m} : told'[e] = told[e],
           run'[m].pc \in Early => ~run'[m].pushed,
           run'[m].pc \in Reading \cup Deciding \cup {"send_response"} => run'[m].pushed,
           run'[m].pc = "failed" => Heard(m)',
           run'[m].pc = "get_pending_1" => named' \/ Replied(m)',
           ~overlap' => NameAsked',
           ~overlap' /\ buffer' # {} => AnswersFor(m)' \/ (buffer' = buffer /\ ~AnswersFor(m))
    PROVE  SilenceInv'
<1>1. \A e \in Messages \ {m} : run'[e] = run[e] /\ Replied(e)' = Replied(e)
  BY DEF Wrote, Replied
<1>2. PushedByNow' BY <1>1 DEF SilenceInv, PushedByNow
<1>3. FailureHeard'
  <2> SUFFICES ASSUME NEW e \in Messages, e # m, run'[e].pc = "failed" PROVE Heard(e)'
    BY DEF FailureHeard
  <2>1. Heard(e) BY <1>1 DEF SilenceInv, FailureHeard
  <2>2. run'[e] = run[e] /\ told'[e] = told[e] BY <1>1
  <2>3. Mute(e)' = Mute(e) BY <2>2 DEF Mute
  <2> QED BY <2>1, <2>2, <2>3 DEF Heard, Report
<1>4. AskedReplied' BY <1>1 DEF SilenceInv, AskedReplied
<1>5. ASSUME ~overlap' PROVE SomebodyAnswers'
  <2> SUFFICES ASSUME buffer' # {} PROVE \E e \in Messages : AnswersFor(e)'
    BY DEF SomebodyAnswers
  <2>1. CASE AnswersFor(m)' BY <2>1
  <2>2. CASE buffer' = buffer /\ ~AnswersFor(m)
    <3>1. PICK e \in Messages : AnswersFor(e) BY <1>5, <2>2 DEF SilenceInv, SomebodyAnswers
    <3>2. e # m BY <2>2, <3>1
    <3>3. AnswersFor(e)' = AnswersFor(e) BY <1>1, <2>2, <3>2 DEF AnswersFor
    <3> QED BY <3>1, <3>3
  <2> QED BY <1>5, <2>1, <2>2
<1> QED BY <1>2, <1>3, <1>4, <1>5 DEF SilenceInv

\* Telling adds to what was told.
LEMMA TellingAdds ==
    ASSUME ToldShape, NEW m \in Messages, UNCHANGED told \/ \E what : Tell(m, what)
    PROVE  /\ \A e \in Messages : told[e] \subseteq told'[e]
           /\ \A e \in Messages \ {m} : told'[e] = told[e]
BY DEF ToldShape, Tell

\* What is reported of an execution that stops.
LEMMA StopHeard ==
    ASSUME RunShape, NEW m \in Messages, NEW type, StopAndError(m, type),
           type \in ToldErrors \cup MuteErrors \cup OwnErrors,
           type \in OwnErrors => ~run[m].pushed,
           type = "external.evo.send_message" => run[m].pushed \/ run[m].text = {}
    PROVE  Moves(m, "failed") /\ Heard(m)' /\ reports \subseteq reports'
<1>1. Moves(m, "failed") /\ run'[m].why = type BY StopMoves
<1>2. run'[m].pushed = run[m].pushed /\ run'[m].text = run[m].text BY <1>1 DEF Moves, SameText
<1>3. reports' = reports \cup {IF Kind[m] = "quoted" THEN Unreadable(m) ELSE Report(m, type)}
  BY DEF StopAndError
<1>4. Report(m, type) \in reports' \/ Mute(m)' BY <1>3 DEF Mute
<1> QED BY <1>1, <1>2, <1>3, <1>4 DEF Heard, Report

\* One that ends, or fails because a read had failed before.
LEMMA EndHeard ==
    ASSUME RunShape, NEW m \in Messages, NEW outcome, outcome # "failed", End(m, outcome)
    PROVE  /\ reports \subseteq reports'
           /\ \/ Moves(m, outcome) /\ ~run[m].late
              \/ Moves(m, "failed") /\ Heard(m)'
<1>1. CASE run[m].late
  <2>1. StopAndError(m, "internal.redis.buffer") BY <1>1 DEF End, ErrorReport6
  <2> QED BY <2>1, StopHeard DEF ToldErrors, OwnErrors
<1>2. CASE ~run[m].late
  BY <1>2, GoToMoves DEF End
<1> QED BY <1>1, <1>2

\* Before its push an execution does not answer for the buffer.
LEMMA EarlyAnswersForNone ==
    ASSUME SilenceInv, NEW m \in Messages, run[m].pc \in Early \cup {"call_state"}
    PROVE  ~AnswersFor(m) /\ ~Replied(m)
BY DEF SilenceInv, BufferInv, Texts, AnswersFor, Early, BeforeText, Deciding

\* The nodes up to the push.
LEMMA GatesSilence ==
    ASSUME SilenceInv, BufferInv', ToldShape', NEW m \in Messages,
           \/ GetPersonalBlock(m) \/ SetTimeout(m) \/ GetTimeout(m) \/ GetToken(m) \/ BusinessContext(m)
           \/ Transcribe(m)
    PROVE  SilenceInv'
<1>1. /\ RunShape /\ ToldShape /\ UNCHANGED <<buffer, told, overlap, named, pending>> /\ run[m].pc \in Early
  BY DEF SilenceInv, BufferInv, GetPersonalBlock, SetTimeout, GetTimeout, GetToken, BusinessContext, Transcribe,
         redis, At, Early
<1>2. ~run[m].pushed BY <1>1 DEF SilenceInv, PushedByNow
<1>3. \/ \E pc \in (Early \cup Ended) \ {"failed"} : GoTo(m, pc) /\ UNCHANGED reports
      \/ \E type \in ToldErrors \cup OwnErrors : StopAndError(m, type)
  BY DEF GetPersonalBlock, SetTimeout, GetTimeout, GetToken, BusinessContext, Transcribe, Continue,
         ErrorReport, ErrorReport3, ErrorReport4, ErrorReport5, ErrorReport9, Early, Ended, ToldErrors, OwnErrors
<1>4. /\ reports \subseteq reports'
      /\ \/ \E pc \in (Early \cup Ended) \ {"failed"} : Moves(m, pc)
         \/ Moves(m, "failed") /\ Heard(m)'
  BY <1>1, <1>2, <1>3, GoToMoves, StopHeard DEF ToldErrors, OwnErrors
<1>5. /\ Wrote(m) /\ run'[m].pushed = run[m].pushed /\ run'[m].pc \in Early \cup Ended
      /\ run'[m].pc = "failed" => Heard(m)'
  BY <1>4 DEF Moves, SameText, Ended
<1>6. run'[m].pc \notin Reading \cup Deciding \cup {"send_response", "get_pending_1", "call_state"} \cup Naming
  BY <1>5 DEF Early, Ended, Reading, Deciding, Naming
<1>7. ~overlap' => NameAsked'
  BY <1>1, <1>5, <1>6 DEF SilenceInv, NameAsked, Wrote
<1> QED BY <1>1, <1>2, <1>4, <1>5, <1>6, <1>7, EarlyAnswersForNone, SilenceKept

\* The nodes that tell the client out of hours.
LEMMA NoticeSilence ==
    ASSUME SilenceInv, BufferInv', ToldShape', NEW m \in Messages,
           \/ GetOutsideHoursPending(m) \/ SetOutsideHoursPending(m) \/ DeleteNoticeBuffer(m) \/ SendNotice(m)
    PROVE  SilenceInv'
<1>1. /\ RunShape /\ ToldShape /\ UNCHANGED <<told, named>> /\ run[m].pc \in Early
      /\ overlap => overlap'
  BY DEF SilenceInv, BufferInv, GetOutsideHoursPending, SetOutsideHoursPending, DeleteNoticeBuffer, SendNotice,
         redis, At, Early
<1>2. ~run[m].pushed /\ run[m].text = {} /\ ~AnswersFor(m)
  BY <1>1, EarlyAnswersForNone DEF SilenceInv, PushedByNow, BufferInv, Texts, BeforeText
<1>3. /\ reports \subseteq reports'
      /\ \/ \E pc \in (Early \cup Ended) \ {"failed"} : Moves(m, pc)
         \/ Moves(m, "failed") /\ Heard(m)'
  <2>1. CASE Unreported(m)
    <3>1. Moves(m, "failed") /\ run'[m].why = "unknown" /\ ~run'[m].pushed
      BY <1>1, <1>2, <2>1, FailMoves DEF Unreported, Moves, SameText
    <3> QED BY <2>1, <3>1 DEF Heard, OwnErrors, ToldErrors, Unreported
  <2>2. CASE ~Unreported(m)
    <3>1. \/ \E pc \in (Early \cup Ended) \ {"failed"} : GoTo(m, pc) /\ reports \subseteq reports'
          \/ /\ \E state : run' = [run EXCEPT ![m].pc = "set_outside_pending", ![m].state = state]
             /\ UNCHANGED reports
          \/ StopAndError(m, "internal.redis.get_pending") \/ StopAndError(m, "external.evo.send_message")
      BY <2>2 DEF GetOutsideHoursPending, SetOutsideHoursPending, DeleteNoticeBuffer, SendNotice, Continue,
                  ErrorReport2, ErrorReport10, ErrorReport18, Early, Ended
    <3>2. "set_outside_pending" \in (Early \cup Ended) \ {"failed"} BY DEF Early
    <3> QED BY <1>1, <1>2, <3>1, <3>2, GoToMoves, StateMoves, StopHeard DEF ToldErrors, MuteErrors, OwnErrors
  <2> QED BY <2>1, <2>2
<1>4. /\ Wrote(m) /\ run'[m].pushed = run[m].pushed /\ run'[m].pc \in Early \cup Ended
      /\ run'[m].pc = "failed" => Heard(m)'
  BY <1>3 DEF Moves, SameText, Ended
<1>5. run'[m].pc \notin Reading \cup Deciding \cup {"send_response", "get_pending_1", "call_state"} \cup Naming
  BY <1>4 DEF Early, Ended, Reading, Deciding, Naming
<1>6. ASSUME ~overlap' PROVE NameAsked'
  <2>1. NameAsked BY <1>1, <1>6 DEF SilenceInv
  <2>2. named' => pending' # "awaiting_name"
    BY <1>1, <1>6, <2>1 DEF NameAsked, GetOutsideHoursPending, SetOutsideHoursPending, DeleteNoticeBuffer,
                            SendNotice, redis
  <2> QED BY <1>1, <1>4, <1>5, <2>1, <2>2 DEF NameAsked, Wrote
<1>7. ~overlap' /\ buffer' # {} => buffer' = buffer /\ ~AnswersFor(m)
  BY <1>2 DEF GetOutsideHoursPending, SetOutsideHoursPending, DeleteNoticeBuffer, SendNotice
<1> QED BY <1>1, <1>2, <1>3, <1>4, <1>5, <1>6, <1>7, SilenceKept

\* The gate that sends a message to the question for a name.
LEMMA GetPendingSilence ==
    ASSUME SilenceInv, BufferAssumption, BufferInv', ToldShape', NEW m \in Messages, GetPending(m)
    PROVE  SilenceInv'
<1>1. /\ RunShape /\ ToldShape /\ UNCHANGED <<buffer, told, named, pending>> /\ run[m].pc = "get_pending"
  BY DEF SilenceInv, BufferInv, GetPending, redis, At
<1>2. ~run[m].pushed BY <1>1 DEF SilenceInv, PushedByNow, Early
<1>3. \/ /\ GoTo(m, "call_state") /\ pending = "awaiting_name" /\ UNCHANGED reports
         /\ overlap' = (overlap \/ buffer # {} \/ Others(m, Reading \cup Deciding \cup Naming))
      \/ (GoTo(m, MessageType(m)) \/ GoTo(m, "dropped")) /\ UNCHANGED <<reports, overlap>>
      \/ StopAndError(m, "internal.redis.get_pending") /\ UNCHANGED overlap
  BY DEF GetPending, Continue, ErrorReport2, HasPending, PendingState
<1>4. MessageType(m) \in {"push_buffer", "transcribe", "dropped"} BY BufferAssumption DEF MessageType
<1>5. CASE /\ GoTo(m, "call_state") /\ pending = "awaiting_name" /\ UNCHANGED reports
           /\ overlap' = (overlap \/ buffer # {} \/ Others(m, Reading \cup Deciding \cup Naming))
  <2>1. /\ Wrote(m) /\ run'[m].pc = "call_state" /\ run'[m].pushed = run[m].pushed
    BY <1>1, <1>5, GoToMoves DEF Moves, SameText
  <2>2. ASSUME ~overlap' PROVE NameAsked'
    <3>1. NameAsked /\ \A e \in Messages \ {m} : run[e].pc \notin Naming
      BY <1>5, <2>2 DEF SilenceInv, Others
    <3> QED BY <1>1, <1>5, <2>1, <3>1 DEF NameAsked, Wrote, Naming
  <2>3. overlap => overlap' BY <1>5
  <2> QED BY <1>1, <1>2, <1>5, <2>1, <2>2, <2>3, EarlyAnswersForNone, SilenceKept
          DEF Early, Reading, Deciding
<1>6. CASE \/ (GoTo(m, MessageType(m)) \/ GoTo(m, "dropped")) /\ UNCHANGED <<reports, overlap>>
           \/ StopAndError(m, "internal.redis.get_pending") /\ UNCHANGED overlap
  <2>1. /\ reports \subseteq reports' /\ UNCHANGED overlap
        /\ \/ Moves(m, MessageType(m)) \/ Moves(m, "dropped")
           \/ Moves(m, "failed") /\ Heard(m)'
    BY <1>1, <1>6, GoToMoves, StopHeard DEF ToldErrors, OwnErrors
  <2>2. /\ Wrote(m) /\ run'[m].pushed = run[m].pushed
        /\ run'[m].pc \in {"push_buffer", "transcribe", "dropped", "failed"}
        /\ run'[m].pc = "failed" => Heard(m)'
    BY <1>4, <2>1 DEF Moves, SameText
  <2>3. ~overlap' => NameAsked' BY <1>1, <2>1, <2>2 DEF SilenceInv, NameAsked, Wrote, Naming
  <2> QED BY <1>1, <1>2, <2>1, <2>2, <2>3, EarlyAnswersForNone, SilenceKept DEF Early, Reading, Deciding
<1> QED BY <1>3, <1>5, <1>6

\* The answer to the question for a name: from then on nobody is asked, or the
\* question stays.
LEMMA NamingSilence ==
    ASSUME SilenceInv, BufferInv', ToldShape', NEW m \in Messages, CallState(m) \/ DeletePromptBuffer(m)
    PROVE  SilenceInv'
<1>1. RunShape /\ ToldShape /\ UNCHANGED overlap
  BY DEF SilenceInv, BufferInv, CallState, DeletePromptBuffer
<1>2. CASE CallState(m)
  <2>1. run[m].pc = "call_state" /\ UNCHANGED buffer BY <1>2 DEF CallState, At
  <2>2. \/ /\ Tell(m, "reply") /\ UNCHANGED reports
           /\ run' = [run EXCEPT ![m].pc = "delete_prompt_buffer", ![m].text = {m}]
        \/ StopAndError(m, "internal.api.client_name") /\ UNCHANGED told
    BY <1>2 DEF CallState
  <2>3. /\ Wrote(m) /\ reports \subseteq reports' /\ run'[m].pc \in {"delete_prompt_buffer", "failed"}
        /\ run'[m].pc = "failed" => Heard(m)'
    BY <1>1, <2>2, TextMoves, StopHeard DEF Takes, Moves, MuteErrors, OwnErrors
  <2>4. /\ \A e \in Messages : told[e] \subseteq told'[e]
        /\ \A e \in Messages \ {m} : told'[e] = told[e]
    BY <1>1, <2>2, TellingAdds
  <2>5. /\ named => named'
        /\ \/ named' /\ pending' # "awaiting_name"
           \/ UNCHANGED named
           \/ UNCHANGED <<pending, named>>
    <3>1. \/ named' = TRUE /\ pending' = ""
          \/ UNCHANGED named
      BY <1>2, Zenon DEF CallState
    <3>2. CASE named' = TRUE /\ pending' = "" BY <3>2
    <3>3. CASE UNCHANGED named BY <3>3
    <3> QED BY <3>1, <3>2, <3>3
  <2>6. ASSUME ~overlap' PROVE NameAsked'
    <3>1. NameAsked BY <1>1, <2>6 DEF SilenceInv
    <3>2. ~named /\ \A e \in Messages \ {m} : run'[e].pc \notin Naming
      BY <2>1, <2>3, <3>1 DEF NameAsked, Wrote, Naming
    <3> QED BY <2>3, <2>5, <3>1, <3>2 DEF NameAsked, Naming
  <2> QED BY <1>1, <2>1, <2>3, <2>4, <2>5, <2>6, EarlyAnswersForNone, SilenceKept
          DEF Early, Reading, Deciding
<1>3. CASE DeletePromptBuffer(m)
  <2>1. run[m].pc = "delete_prompt_buffer" /\ UNCHANGED <<told, named, pending>>
    BY <1>3 DEF DeletePromptBuffer, At, redis
  <2>2. \/ buffer' = {} /\ End(m, "done")
        \/ /\ UNCHANGED buffer /\ run' = [run EXCEPT ![m].pc = "done", ![m].kept = TRUE]
           /\ reports \subseteq reports'
    BY <1>3 DEF DeletePromptBuffer, PromptBufferReport
  <2>3. /\ Wrote(m) /\ reports \subseteq reports' /\ run'[m].pc \in {"done", "failed"}
        /\ run'[m].pc = "failed" => Heard(m)'
        /\ buffer' = {} \/ buffer' = buffer
    BY <1>1, <2>2, EndHeard, KeptMoves DEF Keeps, Moves
  <2>4. ~overlap' => NameAsked'
    BY <1>1, <2>1, <2>3 DEF SilenceInv, NameAsked, Wrote, Naming
  <2>5. ~overlap' => buffer' = {}
    BY <1>1, <2>1, <2>3 DEF SilenceInv, BufferInv, Decision, Naming
  <2> QED BY <1>1, <2>1, <2>3, <2>4, <2>5, SilenceKept DEF Early, Reading, Deciding
<1> QED BY <1>2, <1>3

\* The push, and the reads of the buffer.
LEMMA BufferSilence ==
    ASSUME SilenceInv, BufferInv', ToldShape', NEW m \in Messages,
           PushBuffer(m) \/ GetBuffer1(m) \/ GetBuffer2(m)
    PROVE  SilenceInv'
<1>1. /\ RunShape /\ ToldShape /\ UNCHANGED <<told, named, pending>> /\ overlap \in BOOLEAN
  BY DEF SilenceInv, BufferInv, PushBuffer, GetBuffer1, GetBuffer2, redis
<1>2. /\ \A e \in Messages : told[e] \subseteq told'[e]
      /\ \A e \in Messages \ {m} : told'[e] = told[e]
  BY <1>1
<1>3. ASSUME Wrote(m), run[m].pc \notin Naming, run'[m].pc \notin Naming, ~overlap'
      PROVE  ~overlap => NameAsked'
  BY <1>1, <1>3 DEF SilenceInv, NameAsked, Wrote, Naming
<1>4. CASE PushBuffer(m)
  <2>1. run[m].pc = "push_buffer" /\ ~run[m].pushed
    BY <1>4 DEF PushBuffer, At, SilenceInv, PushedByNow, Early
  <2>2. overlap => overlap' BY <1>4, <1>1 DEF PushBuffer, Overlaps
  <2>3. \/ run' = [run EXCEPT ![m].pc = "get_buffer_1", ![m].pushed = TRUE] /\ UNCHANGED reports
        \/ StopAndError(m, "internal.redis.buffer")
    BY <1>4 DEF PushBuffer, ErrorReport6
  <2>4. /\ Wrote(m) /\ reports \subseteq reports'
        /\ \/ run'[m].pc = "get_buffer_1" /\ run'[m].pushed
           \/ run'[m].pc = "failed" /\ Heard(m)' /\ run'[m].why = "internal.redis.buffer"
    BY <1>1, <2>3, PushMoves, StopHeard, StopMoves DEF Moves, ToldErrors, OwnErrors
  <2>5. AnswersFor(m)' BY <2>4 DEF AnswersFor
  <2>6. ~overlap' => NameAsked' BY <1>3, <2>1, <2>2, <2>4 DEF Naming
  <2>7. /\ Wrote(m) /\ reports \subseteq reports' /\ run'[m].pc \notin Early /\ run'[m].pc # "get_pending_1"
        /\ run'[m].pc \in Reading \cup Deciding \cup {"send_response"} => run'[m].pushed
        /\ run'[m].pc = "failed" => Heard(m)'
    BY <2>4 DEF Early, Reading, Deciding
  <2> QED BY <1>1, <1>2, <2>2, <2>5, <2>6, <2>7, SilenceKept
<1>5. CASE GetBuffer1(m)
  <2>1. /\ run[m].pc = "get_buffer_1" /\ run[m].pushed /\ UNCHANGED <<buffer, reports, overlap>>
    BY <1>5 DEF GetBuffer1, At, SilenceInv, PushedByNow, Reading
  <2>2. \/ run' = [run EXCEPT ![m].pc = "wait", ![m].seen = buffer]
        \/ run' = [run EXCEPT ![m].pc = "wait", ![m].late = TRUE]
    BY <1>5 DEF GetBuffer1
  <2>3. /\ Wrote(m) /\ run'[m].pc = "wait" /\ run'[m].pushed
        /\ run'[m].seen = buffer \/ run'[m].late
    BY <1>1, <2>1, <2>2, ReadMoves, LateMoves DEF Reads, Moves, SameText
  <2>4. AnswersFor(m)' BY <2>1, <2>3 DEF AnswersFor
  <2>5. ~overlap' => NameAsked' BY <1>3, <2>1, <2>3 DEF Naming
  <2> QED BY <1>1, <1>2, <2>1, <2>3, <2>4, <2>5, SilenceKept DEF Early
<1>6. CASE GetBuffer2(m)
  <2>1. /\ run[m].pc = "wait" /\ run[m].pushed /\ UNCHANGED <<buffer, overlap>> /\ ~Replied(m)
    BY <1>6 DEF GetBuffer2, At, SilenceInv, BufferInv, Texts, BeforeText, PushedByNow, Reading
  <2>2. \/ /\ run' = [run EXCEPT ![m].pc = "get_memories", ![m].text = buffer] /\ UNCHANGED reports
        \/ End(m, "superseded") /\ run[m].seen # buffer
        \/ StopAndError(m, "internal.redis.buffer")
    BY <1>6 DEF GetBuffer2, CompareBuffers, ErrorReport6
  <2>3. CASE /\ run' = [run EXCEPT ![m].pc = "get_memories", ![m].text = buffer] /\ UNCHANGED reports
    <3> DEFINE text == buffer
    <3>0. Takes(m, "get_memories", text)
      <4>1. RunShape /\ run' = [run EXCEPT ![m].pc = "get_memories", ![m].text = text] BY <1>1, <2>3
      <4> HIDE DEF text
      <4> QED BY <4>1, TextMoves
    <3>1. /\ Wrote(m) /\ run'[m].pc = "get_memories" /\ run'[m].pushed /\ run'[m].text = buffer
      BY <2>1, <3>0 DEF Takes
    <3>2. AnswersFor(m)' BY <2>1, <3>1 DEF AnswersFor, Deciding
    <3>3. ~overlap' => NameAsked' BY <1>3, <2>1, <3>1 DEF Naming
    <3> QED BY <1>1, <1>2, <2>1, <2>3, <3>1, <3>2, <3>3, SilenceKept DEF Early
  <2>4. CASE \/ End(m, "superseded") /\ run[m].seen # buffer
             \/ StopAndError(m, "internal.redis.buffer")
    <3>1. /\ reports \subseteq reports' /\ Wrote(m) /\ run'[m].pushed = run[m].pushed
          /\ \/ run'[m].pc = "superseded" /\ ~run[m].late /\ run[m].seen # buffer
             \/ run'[m].pc = "failed" /\ Heard(m)'
      BY <1>1, <2>4, EndHeard, StopHeard DEF ToldErrors, OwnErrors, Moves, SameText
    <3>2. AnswersFor(m)' \/ ~AnswersFor(m)
      <4>1. CASE run'[m].pc = "failed" BY <2>1, <3>1, <4>1 DEF AnswersFor
      <4>2. CASE run'[m].pc = "superseded" BY <2>1, <3>1, <4>2 DEF AnswersFor, Deciding
      <4> QED BY <3>1, <4>1, <4>2
    <3>3. ~overlap' => NameAsked' BY <1>3, <2>1, <3>1 DEF Naming
    <3> QED BY <1>1, <1>2, <2>1, <3>1, <3>2, <3>3, SilenceKept DEF Early, Reading, Deciding
  <2> QED BY <2>2, <2>3, <2>4
<1> QED BY <1>4, <1>5, <1>6

\* An execution that has taken the buffer goes on, ends as spam, or stops: in each
\* case it still answers for what it took.
LEMMA TakenSilence ==
    ASSUME SilenceInv, BufferInv', ToldShape', NEW m \in Messages, run[m].pc \in Deciding,
           overlap => overlap', reports \subseteq reports', UNCHANGED named,
           buffer' = buffer \/ buffer' = {},
           Wrote(m), SameText(m), \A e \in Messages : told[e] \subseteq told'[e],
           \A e \in Messages \ {m} : told'[e] = told[e],
           \/ run'[m].pc \in Deciding \cup {"send_response", "spam"}
           \/ run'[m].pc = "failed" /\ Heard(m)'
           \/ run'[m].pc = "diverted" /\ (overlap' \/ Replied(m)),
           run'[m].pc = "get_pending_1" => named' \/ Replied(m)',
           UNCHANGED pending \/ ~named
    PROVE  SilenceInv'
<1>1. run[m].pushed BY DEF SilenceInv, PushedByNow
<1>2. /\ run'[m].pushed /\ run'[m].text = run[m].text /\ run'[m].pc \notin Early
      /\ run'[m].pc = "failed" => Heard(m)'
  BY <1>1 DEF SameText, Early, Deciding
<1>3. Replied(m) => Replied(m)' BY DEF Replied
<1>4. ASSUME ~overlap', buffer' # {} PROVE AnswersFor(m)' \/ (buffer' = buffer /\ ~AnswersFor(m))
  <2> SUFFICES ASSUME AnswersFor(m) PROVE AnswersFor(m)'
    BY <1>4
  <2>1. buffer \subseteq run[m].text BY DEF AnswersFor, Deciding
  <2>2. buffer' \subseteq run'[m].text BY <1>2, <2>1
  <2> QED BY <1>2, <1>3, <1>4, <2>2 DEF AnswersFor
<1>5. ~overlap' => NameAsked'
  <2>1. run[m].pc \notin Naming /\ run'[m].pc \notin Naming BY DEF Deciding, Naming
  <2>2. \A e \in Messages : run'[e].pc \in Naming => run'[e] = run[e] BY <2>1 DEF Wrote
  <2>3. \A e \in Messages : run'[e].pc = "call_state" => run[e].pc = "call_state" BY <2>2 DEF Naming
  <2> SUFFICES ASSUME ~overlap' PROVE NameAsked'
    OBVIOUS
  <2>4. NameAsked BY DEF SilenceInv
  <2>5. named' => pending' # "awaiting_name" BY <2>4 DEF NameAsked
  <2>6. \A e \in Messages : run'[e].pc = "call_state" => ~named' BY <2>3, <2>4 DEF NameAsked
  <2>7. ASSUME NEW e \in Messages, NEW f \in Messages, e # f, run'[e].pc \in Naming, run'[f].pc \in Naming
        PROVE  FALSE
    <3>1. run[e].pc \in Naming /\ run[f].pc \in Naming BY <2>2, <2>7
    <3> QED BY <2>4, <2>7, <3>1 DEF NameAsked
  <2> QED BY <2>5, <2>6, <2>7 DEF NameAsked
<1> QED BY <1>2, <1>4, <1>5, SilenceKept

\* The nodes from the decision to the deletion.
LEMMA AnsweringSilence ==
    ASSUME SilenceInv, BufferInv', ToldShape', NEW m \in Messages,
           \/ GetMemories1(m) \/ TextClassifier(m) \/ SetPersonalBlock(m) \/ ServicesList(m) \/ GetPending1(m)
           \/ AiAgent(m) \/ PushMemory(m) \/ PushMemory1(m)
    PROVE  SilenceInv'
<1>1. /\ RunShape /\ ToldShape /\ UNCHANGED <<buffer, told, named, pending>> /\ (overlap => overlap')
      /\ run[m].pc \in Deciding /\ run[m].pushed
  BY DEF SilenceInv, BufferInv, PushedByNow, GetMemories1, TextClassifier, SetPersonalBlock, ServicesList,
         GetPending1, AiAgent, PushMemory, PushMemory1, redis, At, Deciding
<1>2. /\ reports \subseteq reports'
      /\ \/ \E pc \in (Deciding \ {"get_pending_1"}) \cup {"spam"} : Moves(m, pc)
         \/ Moves(m, "failed") /\ Heard(m)'
         \/ /\ Moves(m, "diverted") /\ run[m].pc = "get_pending_1"
            /\ overlap' \/ pending = "awaiting_name"
  <2>1. CASE TextClassifier(m)
    <3>1. UNCHANGED reports BY <2>1 DEF TextClassifier
    <3>0. PICK route \in {"spam", "personal", "agent", "appointments", "list", "fixed"} :
             \E kept : run' = [run EXCEPT ![m].pc = MessageClassifier(route), ![m].route = kept]
      BY <2>1 DEF TextClassifier
    <3>2. PICK kept : run' = [run EXCEPT ![m].pc = MessageClassifier(route), ![m].route = kept]
      BY <3>0
    <3> DEFINE pc == MessageClassifier(route)
    <3>3. pc \in Deciding \ {"get_pending_1"} BY DEF MessageClassifier, Deciding
    <3>4. Moves(m, pc) BY <1>1, <3>2, RouteMoves
    <3> HIDE DEF pc
    <3> QED BY <3>1, <3>3, <3>4
  <2>2. CASE GetPending1(m)
    <3>1. \/ End(m, "diverted") /\ (overlap' \/ pending = "awaiting_name")
          \/ GoTo(m, "ai_agent") /\ UNCHANGED reports
          \/ StopAndError(m, "internal.redis.get_pending")
      BY <2>2 DEF GetPending1, Continue, ErrorReport11
    <3>2. run[m].pc = "get_pending_1" BY <2>2 DEF GetPending1, At
    <3> QED BY <1>1, <3>1, <3>2, EndHeard, GoToMoves, StopHeard DEF ToldErrors, OwnErrors, Deciding
  <2>3. CASE SetPersonalBlock(m)
    <3>1. \/ End(m, "spam")
          \/ GoTo(m, "push_memory") /\ reports \subseteq reports'
          \/ StopAndError(m, "internal.redis.personal_block")
      BY <2>3 DEF SetPersonalBlock, HumanHandoffAlert, ErrorReport12
    <3> QED BY <1>1, <3>1, EndHeard, GoToMoves, StopHeard DEF ToldErrors, OwnErrors, Deciding
  <2>5. CASE ServicesList(m)
    <3>1. \/ GoTo(m, "push_memory") /\ reports \subseteq reports'
          \/ StopAndError(m, "internal.api.get_service")
      BY <2>5 DEF ServicesList, Continue
    <3> QED BY <1>1, <3>1, GoToMoves, StopHeard DEF MuteErrors, OwnErrors, Deciding
  <2>4. CASE GetMemories1(m) \/ AiAgent(m) \/ PushMemory(m) \/ PushMemory1(m)
    <3>1. \/ /\ \E pc \in {"text_classifier", "delete_buffer", "push_memory_1"} : GoTo(m, pc)
             /\ reports \subseteq reports'
          \/ StopAndError(m, "internal.ai.agent")
      BY <2>4 DEF GetMemories1, AiAgent, PushMemory, PushMemory1, Continue, ErrorReport13, ErrorReport21,
                  ErrorReport23, ErrorReport24
    <3> QED BY <1>1, <3>1, GoToMoves, StopHeard DEF ToldErrors, OwnErrors, Deciding
  <2> QED BY <2>1, <2>2, <2>3, <2>4, <2>5
<1>3. /\ Wrote(m) /\ SameText(m)
      /\ \/ run'[m].pc \in (Deciding \ {"get_pending_1"}) \cup {"spam"}
         \/ run'[m].pc = "failed" /\ Heard(m)'
         \/ /\ run'[m].pc = "diverted" /\ run[m].pc = "get_pending_1"
            /\ overlap' \/ pending = "awaiting_name"
  BY <1>2 DEF Moves
<1>4. run[m].pc = "get_pending_1" /\ pending = "awaiting_name" => overlap \/ Replied(m)
  BY DEF SilenceInv, AskedReplied, NameAsked
<1>5. run'[m].pc # "get_pending_1" BY <1>3
<1> QED BY <1>1, <1>2, <1>3, <1>4, <1>5, TakenSilence

\* The question for a name, and the deletions and the sending.
LEMMA ClosingSilence ==
    ASSUME SilenceInv, BufferInv', ToldShape', NEW m \in Messages,
           Client(m) \/ DeleteAskedBuffer(m) \/ DeleteBuffer(m) \/ SendResponse(m)
    PROVE  SilenceInv'
<1>1. /\ RunShape /\ ToldShape /\ UNCHANGED <<overlap, named>>
  BY DEF SilenceInv, BufferInv, Client, DeleteAskedBuffer, DeleteBuffer, SendResponse, redis
<1>2. CASE Client(m)
  <2>1. run[m].pc = "client" /\ run[m].pushed /\ UNCHANGED buffer
    BY <1>2 DEF Client, At, SilenceInv, PushedByNow, Deciding
  <2>2. \/ (GoTo(m, "get_pending_1") \/ GoTo(m, "push_memory")) /\ named /\ UNCHANGED <<told, pending, reports>>
        \/ GoTo(m, "ask_name") /\ Tell(m, "reply") /\ ~named /\ UNCHANGED reports
        \/ StopAndError(m, "internal.api.get_client") /\ UNCHANGED <<told, pending>>
    BY <1>2 DEF Client, Continue, AfterClient
  <2>3. /\ reports \subseteq reports' /\ Wrote(m) /\ SameText(m)
        /\ \/ run'[m].pc \in {"get_pending_1", "push_memory"} /\ named
           \/ run'[m].pc = "ask_name"
           \/ run'[m].pc = "failed" /\ Heard(m)'
    BY <1>1, <2>2, GoToMoves, StopHeard DEF MuteErrors, OwnErrors, Moves
  <2>4. /\ \A e \in Messages : told[e] \subseteq told'[e]
        /\ \A e \in Messages \ {m} : told'[e] = told[e]
    BY <1>1, <2>2, TellingAdds
  <2> QED BY <1>1, <2>1, <2>2, <2>3, <2>4, TakenSilence DEF Deciding
<1>3. CASE DeleteAskedBuffer(m)
  <2>1. run[m].pc = "ask_name" /\ Replied(m) /\ UNCHANGED <<told, pending>>
    BY <1>3 DEF DeleteAskedBuffer, At, SilenceInv, BufferInv, Texts, redis
  <2>2. PICK pc \in {"get_pending_1", "push_memory"} :
           \/ buffer' = {} /\ GoTo(m, pc) /\ UNCHANGED reports
           \/ /\ UNCHANGED buffer /\ run' = [run EXCEPT ![m].pc = pc, ![m].kept = TRUE]
              /\ reports \subseteq reports'
    BY <1>3 DEF DeleteAskedBuffer, Continue, PromptBufferReport, AfterClient
  <2>3. /\ reports \subseteq reports' /\ Wrote(m) /\ SameText(m) /\ run'[m].pc = pc
        /\ buffer' = buffer \/ buffer' = {}
    BY <1>1, <2>2, GoToMoves, KeptMoves DEF Moves, Keeps
  <2>4. Replied(m)' BY <2>1 DEF Replied
  <2> QED BY <1>1, <2>1, <2>3, <2>4, TakenSilence DEF Deciding
<1>4. CASE DeleteBuffer(m)
  <2>1. run[m].pc = "delete_buffer" /\ UNCHANGED <<told, pending>> BY <1>4 DEF DeleteBuffer, At, redis
  <2>2. \/ buffer' = {} /\ GoTo(m, "send_response") /\ UNCHANGED reports
        \/ /\ UNCHANGED buffer /\ run' = [run EXCEPT ![m].pc = "send_response", ![m].kept = TRUE]
           /\ reports \subseteq reports'
    BY <1>4 DEF DeleteBuffer, Continue, ErrorReport18
  <2>3. /\ reports \subseteq reports' /\ Wrote(m) /\ SameText(m) /\ run'[m].pc = "send_response"
        /\ buffer' = buffer \/ buffer' = {}
    BY <1>1, <2>2, GoToMoves, KeptMoves DEF Moves, Keeps
  <2> QED BY <1>1, <2>1, <2>3, TakenSilence DEF Deciding
<1>5. CASE SendResponse(m)
  <2>1. run[m].pc = "send_response" /\ run[m].pushed /\ UNCHANGED <<buffer, pending>>
    BY <1>5 DEF SendResponse, At, SilenceInv, PushedByNow, redis
  <2>2. \/ Tell(m, "reply") /\ End(m, "done")
        \/ StopAndError(m, "external.evo.send_message") /\ UNCHANGED told
    BY <1>5 DEF SendResponse, ErrorReport10
  <2>3. /\ reports \subseteq reports' /\ Wrote(m) /\ SameText(m)
        /\ \/ run'[m].pc = "done" /\ Replied(m)'
           \/ run'[m].pc = "failed" /\ Heard(m)'
    <3>1. CASE Tell(m, "reply") /\ End(m, "done")
      BY <1>1, <3>1, EndHeard, Telling DEF Moves
    <3>2. CASE StopAndError(m, "external.evo.send_message")
      BY <1>1, <2>1, <3>2, StopHeard DEF MuteErrors, OwnErrors, Moves
    <3> QED BY <2>2, <3>1, <3>2
  <2>4. /\ \A e \in Messages : told[e] \subseteq told'[e]
        /\ \A e \in Messages \ {m} : told'[e] = told[e]
    BY <1>1, <2>2, TellingAdds
  <2>5. run'[m].pushed /\ run'[m].text = run[m].text BY <2>1, <2>3 DEF SameText
  <2>6. AnswersFor(m) => AnswersFor(m)'
    <3> SUFFICES ASSUME AnswersFor(m) PROVE AnswersFor(m)'
      OBVIOUS
    <3>1. buffer' \subseteq run'[m].text BY <2>1, <2>5 DEF AnswersFor
    <3> QED BY <2>3, <2>5, <3>1 DEF AnswersFor
  <2>7. ~overlap' => NameAsked' BY <1>1, <2>1, <2>3 DEF SilenceInv, NameAsked, Wrote, Naming
  <2>8. run'[m].pc \in {"done", "failed"} /\ (run'[m].pc = "failed" => Heard(m)') BY <2>3
  <2> QED BY <1>1, <2>1, <2>3, <2>4, <2>6, <2>7, <2>8, SilenceKept DEF Early, Reading, Deciding
<1> QED BY <1>2, <1>3, <1>4, <1>5

\* Every step of an execution.
LEMMA SilenceStep ==
    ASSUME SilenceInv, BufferAssumption, NEW m \in Messages, Step(m)
    PROVE  SilenceInv'
<1>1. BufferInv' /\ ToldShape' BY StepKeeps, StepTold DEF SilenceInv
<1> QED BY <1>1, GatesSilence, NoticeSilence, GetPendingSilence, NamingSilence, BufferSilence, AnsweringSilence, ClosingSilence
        DEF Step

\* A report that names the chat, of an error the client is to be told of, reaches it.
LEMMA ToldErrorsReach == \A type \in ToldErrors : "client" \in Addressees(type, TRUE)
<1>1. \A type \in ToldErrors : PolicyOf(type).customer
  BY DEF ToldErrors, PolicyOf, Policy, ApiPolicies, RedisPolicies, ExternalPolicies, BusinessPolicies
<1> QED BY <1>1 DEF Addressees

\* A report that arrives: the client is told, or what it was told is lost.
LEMMA ErrorSilence ==
    ASSUME SilenceInv, BufferInv', ToldShape', NEW r \in reports, ErrorTrigger(r)
    PROVE  SilenceInv'
<1>1. /\ UNCHANGED <<buffer, run, overlap, pending, named>> /\ reports' = reports \ {r} /\ ToldShape
  BY DEF ErrorTrigger, redis, SilenceInv
<1>2. \/ Tell(r.message, "apology") \/ Tell(r.message, "lost")
      \/ "client" \notin Addressees(r.type, r.named) /\ UNCHANGED told
  BY DEF ErrorTrigger
<1>3. /\ \A e \in Messages : told[e] \subseteq told'[e]
      /\ SameReplies
  <2>1. \A e \in Messages : told[e] \subseteq told'[e]
    <3>1. ASSUME NEW x, NEW what, Tell(x, what) PROVE \A e \in Messages : told[e] \subseteq told'[e]
      BY <1>1, <3>1 DEF ToldShape, Tell
    <3>2. CASE UNCHANGED told BY <3>2
    <3> QED BY <1>2, <3>1, <3>2
  <2>2. CASE UNCHANGED told BY <2>1, <2>2, Silence
  <2>3. CASE \E what : Tell(r.message, what) /\ what # "reply" BY <1>1, <2>1, <2>3, Telling
  <2> QED BY <1>2, <2>1, <2>2, <2>3
<1>4. ASSUME NEW e \in Messages, Heard(e) PROVE Heard(e)'
  <2>1. run'[e] = run[e] /\ (Mute(e) => Mute(e)') BY <1>1, <1>3 DEF Mute
  <2>2. CASE run[e].why \notin ToldErrors BY <1>4, <2>1, <2>2 DEF Heard
  <2>3. CASE run[e].why \in ToldErrors /\ r = Report(e, run[e].why)
    <3>1. r.message = e /\ r.type = run[e].why /\ r.named = TRUE BY <2>3 DEF Report
    <3>2. "client" \in Addressees(r.type, r.named) BY <2>3, <3>1, ToldErrorsReach
    <3>3. "apology" \in told'[e] \/ "lost" \in told'[e] BY <1>1, <1>2, <3>1, <3>2 DEF Tell, ToldShape
    <3> QED BY <1>4, <2>1, <3>3 DEF Heard, Mute
  <2>4. CASE run[e].why \in ToldErrors /\ r # Report(e, run[e].why)
    <3>1. Report(e, run[e].why) \in reports => Report(e, run'[e].why) \in reports' BY <1>1, <2>1, <2>4
    <3> QED BY <1>3, <1>4, <2>1, <3>1 DEF Heard, Report
  <2> QED BY <2>2, <2>3, <2>4
<1>5. FailureHeard' BY <1>1, <1>4 DEF SilenceInv, FailureHeard
<1>6. PushedByNow' BY <1>1 DEF SilenceInv, PushedByNow
<1>7. AskedReplied' BY <1>1, <1>3 DEF SilenceInv, AskedReplied, SameReplies
<1>8. ~overlap' => NameAsked' BY <1>1 DEF SilenceInv, NameAsked
<1>9. ~overlap' => SomebodyAnswers'
  BY <1>1, <1>3 DEF SilenceInv, SomebodyAnswers, AnswersFor, SameReplies
<1> QED BY <1>5, <1>6, <1>7, <1>8, <1>9 DEF SilenceInv

\* What none of the executions nor the reports take part in.
LEMMA RestSilence ==
    ASSUME SilenceInv, BufferInv', ToldShape', UNCHANGED <<buffer, run, told, reports, overlap, pending, named>>
    PROVE  SilenceInv'
BY DEF SilenceInv, PushedByNow, FailureHeard, Heard, Report, Mute, AskedReplied, NameAsked, SomebodyAnswers,
       AnswersFor, Replied

\* The client is given a name while nobody is asked for one, or that is marked.
LEMMA UpdateSilence ==
    ASSUME SilenceInv, BufferInv', ToldShape', ClientUpdate
    PROVE  SilenceInv'
<1>1. /\ UNCHANGED <<buffer, run, told, reports, pending>> /\ named' /\ (overlap => overlap')
      /\ ~overlap' => pending # "awaiting_name" /\ \A e \in Messages : run[e].pc # "call_state"
  BY DEF ClientUpdate, At
<1>2. PushedByNow' /\ FailureHeard'
  BY <1>1 DEF SilenceInv, PushedByNow, FailureHeard, Heard, Report, Mute
<1>3. AskedReplied' BY <1>1 DEF AskedReplied
<1>4. ~overlap' => NameAsked' BY <1>1 DEF SilenceInv, NameAsked
<1>5. ~overlap' => SomebodyAnswers' BY <1>1 DEF SilenceInv, SomebodyAnswers, AnswersFor, Replied
<1> QED BY <1>2, <1>3, <1>4, <1>5 DEF SilenceInv

\* No message was pushed, and nobody failed.
LEMMA InitSilence == ASSUME Init PROVE SilenceInv
<1>1. BufferInv /\ ToldShape BY InitHolds
<1>2. /\ \A m \in Messages : run[m].pc = "get_personal_block" /\ ~run[m].pushed
      /\ buffer = {} /\ pending = ""
  BY DEF Init
<1> QED BY <1>1, <1>2
        DEF SilenceInv, PushedByNow, FailureHeard, AskedReplied, NameAsked, SomebodyAnswers, Reading, Deciding, Naming

\* Every step of the system.
LEMMA NextSilence ==
    ASSUME SilenceInv, BufferAssumption, [Next]_vars
    PROVE  SilenceInv'
<1>1. BufferInv' /\ ToldShape' BY NextKeeps DEF SilenceInv
<1>2. CASE \E m \in Messages : Step(m) BY <1>2, SilenceStep
<1>3. CASE \E r \in reports : ErrorTrigger(r) BY <1>1, <1>3, ErrorSilence
<1>4. CASE ChatBlockExpires \/ PersonalBlockExpires \/ UNCHANGED vars
  <2>1. UNCHANGED <<buffer, run, told, reports, overlap, pending, named>>
    BY <1>4 DEF ChatBlockExpires, PersonalBlockExpires, vars, redis
  <2> QED BY <1>1, <2>1, RestSilence
<1>5. CASE ClientUpdate BY <1>1, <1>5, UpdateSilence
<1> QED BY <1>2, <1>3, <1>4, <1>5 DEF Next

\* At rest, who answered for the buffer has answered, judged it spam, or failed.
LEMMA SilenceHasReason == ASSUME SilenceInv PROVE SilenceExplained
<1> SUFFICES ASSUME \A m \in Messages : run[m].pc \in Ended, reports = {}, ~overlap,
                    NEW m \in Messages, run[m].pushed, ~Answered(m)
             PROVE  \E e \in Messages :
                       \/ At(e, "spam") /\ m \in run[e].text
                       \/ /\ At(e, "failed") /\ (run[e].pushed \/ run[e].why = "internal.redis.buffer")
                          /\ "apology" \in told[e] \/ Mute(e)
  BY DEF SilenceExplained
<1>1. ASSUME NEW e \in Messages, run[e].pc = "failed", run[e].pushed \/ run[e].why = "internal.redis.buffer"
      PROVE  "apology" \in told[e] \/ Mute(e)
  <2>1. Heard(e) BY <1>1 DEF SilenceInv, FailureHeard
  <2> QED BY <1>1, <2>1 DEF Heard, Mute, ToldErrors, MuteErrors, OwnErrors
<1>2. CASE m \in buffer
  <2>1. PICK e \in Messages : AnswersFor(e) BY <1>2 DEF SilenceInv, SomebodyAnswers
  <2>2. ~(Replied(e) /\ buffer \subseteq run[e].text) BY <1>2 DEF Answered
  <2>3. \/ run[e].pc = "spam" /\ m \in run[e].text
        \/ run[e].pc = "failed" /\ (run[e].pushed \/ run[e].why = "internal.redis.buffer")
    BY <1>2, <2>1, <2>2 DEF AnswersFor, Ended, Deciding
  <2> QED BY <1>1, <2>3 DEF At
<1>3. CASE m \notin buffer
  <2>1. PICK e \in Messages : m \in run[e].text /\ HasAnswer(e)
    BY <1>3 DEF SilenceInv, BufferInv, Covered
  <2>2. run[e].why = "external.evo.send_message" BY <2>1 DEF HasAnswer, Answered, Ended
  <2>3. run[e].pc = "failed" BY <2>2 DEF SilenceInv, BufferInv, Texts
  <2>4. run[e].pushed BY <2>1, <2>2, <2>3 DEF SilenceInv, FailureHeard, Heard
  <2> QED BY <1>1, <2>3, <2>4 DEF At
<1> QED BY <1>2, <1>3

\* The invariant holds of every reachable state.
THEOREM BufferAlways == Spec => [](BufferInv /\ ToldShape)
<1>1. Init => BufferInv /\ ToldShape BY InitHolds
<1>2. BufferInv /\ ToldShape /\ [Next]_vars => (BufferInv /\ ToldShape)' BY NextKeeps, BufferAssumption
<1> QED BY <1>1, <1>2, PTL DEF Spec

\* Whatever the burst and whichever calls fail: while executions do not overlap,
\* a pushed message waits in the buffer or is in the text of an answer.
THEOREM BufferNothingLost == Spec => []NothingLost
<1>1. BufferInv => NothingLost
  BY DEF BufferInv, Covered, HasAnswer, NothingLost, At
<1> QED BY <1>1, BufferAlways, PTL

\* And no message is in the text of two answers, unless the buffer could not be deleted.
THEOREM BufferAnsweredOnce == Spec => []AnsweredOnce
<1>1. BufferInv => AnsweredOnce BY DEF BufferInv, Apart, Taken, AnsweredOnce
<1> QED BY <1>1, BufferAlways, PTL

\* And who is left without an answer was spam, or has been told of the failure
\* that kept an execution from answering, as far as that failure is told to clients.
THEOREM BufferSilenceExplained == Spec => []SilenceExplained
<1>1. Init => SilenceInv BY InitSilence
<1>2. SilenceInv /\ [Next]_vars => SilenceInv' BY NextSilence, BufferAssumption
<1>3. SilenceInv => SilenceExplained BY SilenceHasReason
<1> QED BY <1>1, <1>2, <1>3, PTL DEF Spec

-----------------------------------------------------------------------------
(* The stages of an execution. *)

\* What the stages are.
LEMMA Stages ==
    /\ Stage("get_personal_block") = 0 /\ Stage("set_timeout") = 1 /\ Stage("get_timeout") = 1
    /\ Stage("get_token") = 2 /\ Stage("business_context") = 3 /\ Stage("get_pending") = 4
    /\ Stage("call_state") = 5 /\ Stage("transcribe") = 5
    /\ Stage("delete_prompt_buffer") = 6 /\ Stage("push_buffer") = 6
    /\ Stage("get_outside_pending") = 4 /\ Stage("set_outside_pending") = 5
    /\ Stage("delete_notice_buffer") = 6 /\ Stage("send_notice") = 7
    /\ Stage("get_buffer_1") = 7 /\ Stage("wait") = 8 /\ Stage("get_memories") = 9
    /\ Stage("text_classifier") = 10 /\ Stage("set_personal_block") = 11 /\ Stage("client") = 11
    /\ Stage("list") = 11 /\ Stage("ask_name") = 12 /\ Stage("push_memory") = 13
    /\ Stage("get_pending_1") = 13 /\ Stage("push_memory_1") = 14
    /\ Stage("ai_agent") = 14 /\ Stage("delete_buffer") = 15 /\ Stage("send_response") = 16
    /\ \A pc \in Ended : Stage(pc) = 17
BY DEF Stage, Ended

\* An execution that is led on, and alone in that.
LeadsOn(m) == Wrote(m) /\ Stage(run[m].pc) < Stage(run'[m].pc)

\* Whichever way its record is written, it is at the node it goes to.
LEMMA GoesWhere ==
    ASSUME RunShape, NEW m \in Messages, NEW pc, pc # "failed",
           \/ GoTo(m, pc)
           \/ \E route : run' = [run EXCEPT ![m].pc = pc, ![m].route = route]
           \/ \E state : run' = [run EXCEPT ![m].pc = pc, ![m].state = state]
           \/ \E text : run' = [run EXCEPT ![m].pc = pc, ![m].text = text]
           \/ \E seen : run' = [run EXCEPT ![m].pc = pc, ![m].seen = seen]
           \/ run' = [run EXCEPT ![m].pc = pc, ![m].pushed = TRUE]
           \/ run' = [run EXCEPT ![m].pc = pc, ![m].kept = TRUE]
           \/ run' = [run EXCEPT ![m].pc = pc, ![m].late = TRUE]
    PROVE  Wrote(m) /\ run'[m].pc = pc
<1>1. CASE GoTo(m, pc) BY <1>1, GoToMoves DEF Moves
<1>2. CASE \E route : run' = [run EXCEPT ![m].pc = pc, ![m].route = route] BY <1>2, RouteMoves DEF Moves
<1>3. CASE \E text : run' = [run EXCEPT ![m].pc = pc, ![m].text = text]
  <2>1. PICK text : run' = [run EXCEPT ![m].pc = pc, ![m].text = text] BY <1>3
  <2>2. Takes(m, pc, text) BY <2>1, TextMoves
  <2> QED BY <2>2 DEF Takes
<1>4. CASE \E seen : run' = [run EXCEPT ![m].pc = pc, ![m].seen = seen]
  <2>1. PICK seen : run' = [run EXCEPT ![m].pc = pc, ![m].seen = seen] BY <1>4
  <2>2. Reads(m, pc) BY <2>1, ReadMoves
  <2> QED BY <2>2 DEF Reads
<1>5. CASE run' = [run EXCEPT ![m].pc = pc, ![m].pushed = TRUE] BY <1>5, PushMoves
<1>6. CASE run' = [run EXCEPT ![m].pc = pc, ![m].kept = TRUE] BY <1>6, KeptMoves DEF Keeps
<1>7. CASE run' = [run EXCEPT ![m].pc = pc, ![m].late = TRUE] BY <1>7, LateMoves DEF Moves
<1>8. CASE \E state : run' = [run EXCEPT ![m].pc = pc, ![m].state = state] BY <1>8, StateMoves DEF Moves
<1> QED BY <1>1, <1>2, <1>3, <1>4, <1>5, <1>6, <1>7, <1>8

\* One that stops, or ends, is over.
LEMMA StopsThere ==
    ASSUME RunShape, NEW m \in Messages,
           \/ \E type : StopAndError(m, type)
           \/ Unreported(m)
           \/ \E outcome \in Ended : End(m, outcome) \/ GoTo(m, outcome)
           \/ run' = [run EXCEPT ![m].pc = "done", ![m].kept = TRUE]
    PROVE  Wrote(m) /\ run'[m].pc \in Ended
<1>1. CASE \E type : StopAndError(m, type) BY <1>1, StopMoves DEF Moves, Ended
<1>2. CASE \E outcome \in Ended : End(m, outcome) BY <1>2, EndMoves DEF Moves, Ended
<1>3. CASE \E outcome \in Ended : GoTo(m, outcome) BY <1>3, GoToMoves DEF Moves
<1>4. CASE run' = [run EXCEPT ![m].pc = "done", ![m].kept = TRUE] BY <1>4, KeptMoves DEF Keeps, Ended
<1>5. CASE Unreported(m) BY <1>5, FailMoves DEF Unreported, Moves, Ended
<1> QED BY <1>1, <1>2, <1>3, <1>4, <1>5

\* The gates, up to the push.
LEMMA GatesLead ==
    ASSUME RunShape, BufferAssumption, NEW m \in Messages,
           \/ GetPersonalBlock(m) \/ SetTimeout(m) \/ GetTimeout(m) \/ GetToken(m) \/ BusinessContext(m)
           \/ GetPending(m) \/ CallState(m) \/ DeletePromptBuffer(m) \/ Transcribe(m)
    PROVE  LeadsOn(m)
<1>1. CASE GetPersonalBlock(m)
  <2>1. \/ GoTo(m, "set_timeout") \/ GoTo(m, "get_timeout") \/ GoTo(m, "blocked")
        \/ StopAndError(m, "internal.redis.personal_block")
    BY <1>1 DEF GetPersonalBlock, Continue, ErrorReport4
  <2>2. Wrote(m) /\ run'[m].pc \in Ended \cup {"set_timeout", "get_timeout"}
    BY <2>1, GoesWhere, StopsThere DEF Ended
  <2> QED BY <1>1, <2>2, Stages DEF GetPersonalBlock, At, LeadsOn
<1>2. CASE SetTimeout(m)
  <2>1. GoTo(m, "blocked") \/ StopAndError(m, "internal.redis.set_timeout")
    BY <1>2 DEF SetTimeout, Continue, ErrorReport3
  <2>2. Wrote(m) /\ run'[m].pc \in Ended BY <2>1, StopsThere DEF Ended
  <2> QED BY <1>2, <2>2, Stages DEF SetTimeout, At, LeadsOn
<1>3. CASE GetTimeout(m)
  <2>1. GoTo(m, "blocked") \/ GoTo(m, "get_token") \/ StopAndError(m, "internal.redis.get_timeout")
    BY <1>3 DEF GetTimeout, Continue, ErrorReport9
  <2>2. Wrote(m) /\ run'[m].pc \in Ended \cup {"get_token"} BY <2>1, GoesWhere, StopsThere DEF Ended
  <2> QED BY <1>3, <2>2, Stages DEF GetTimeout, At, LeadsOn
<1>4. CASE GetToken(m)
  <2>1. GoTo(m, "business_context") \/ StopAndError(m, "internal.api.auth")
    BY <1>4 DEF GetToken, Continue, ErrorReport
  <2>2. Wrote(m) /\ run'[m].pc \in Ended \cup {"business_context"} BY <2>1, GoesWhere, StopsThere
  <2> QED BY <1>4, <2>2, Stages DEF GetToken, At, LeadsOn
<1>5. CASE BusinessContext(m)
  <2>1. GoTo(m, "get_pending") \/ GoTo(m, "get_outside_pending") \/ StopAndError(m, "internal.api.get_business")
    BY <1>5 DEF BusinessContext, Continue
  <2>2. Wrote(m) /\ run'[m].pc \in Ended \cup {"get_pending", "get_outside_pending"}
    BY <2>1, GoesWhere, StopsThere DEF Ended
  <2> QED BY <1>5, <2>2, Stages DEF BusinessContext, At, LeadsOn
<1>6. CASE GetPending(m)
  <2>1. MessageType(m) \in {"push_buffer", "transcribe", "dropped"} BY BufferAssumption DEF MessageType
  <2>2. \/ GoTo(m, "call_state") \/ GoTo(m, "push_buffer") \/ GoTo(m, "transcribe") \/ GoTo(m, "dropped")
        \/ StopAndError(m, "internal.redis.get_pending")
    BY <1>6, <2>1 DEF GetPending, Continue, ErrorReport2, HasPending, PendingState
  <2>3. Wrote(m) /\ run'[m].pc \in Ended \cup {"call_state", "push_buffer", "transcribe"}
    BY <2>2, GoesWhere, StopsThere DEF Ended
  <2> QED BY <1>6, <2>3, Stages DEF GetPending, At, LeadsOn
<1>7. CASE CallState(m)
  <2>1. \/ run' = [run EXCEPT ![m].pc = "delete_prompt_buffer", ![m].text = {m}]
        \/ StopAndError(m, "internal.api.client_name")
    BY <1>7 DEF CallState
  <2>2. Wrote(m) /\ run'[m].pc \in Ended \cup {"delete_prompt_buffer"} BY <2>1, GoesWhere, StopsThere
  <2>3. run[m].pc = "call_state" BY <1>7 DEF CallState, At
  <2> QED BY <2>2, <2>3, Stages DEF LeadsOn
<1>8. CASE DeletePromptBuffer(m)
  <2>1. End(m, "done") \/ run' = [run EXCEPT ![m].pc = "done", ![m].kept = TRUE]
    BY <1>8 DEF DeletePromptBuffer
  <2>2. Wrote(m) /\ run'[m].pc \in Ended BY <2>1, StopsThere DEF Ended
  <2> QED BY <1>8, <2>2, Stages DEF DeletePromptBuffer, At, LeadsOn
<1>9. CASE Transcribe(m)
  <2>1. GoTo(m, "push_buffer") \/ StopAndError(m, "external.ai.transcription")
    BY <1>9 DEF Transcribe, Continue, ErrorReport5
  <2>2. Wrote(m) /\ run'[m].pc \in Ended \cup {"push_buffer"} BY <2>1, GoesWhere, StopsThere
  <2> QED BY <1>9, <2>2, Stages DEF Transcribe, At, LeadsOn
<1> QED BY <1>1, <1>2, <1>3, <1>4, <1>5, <1>6, <1>7, <1>8, <1>9

\* The notice out of hours.
LEMMA NoticeLeads ==
    ASSUME RunShape, NEW m \in Messages,
           \/ GetOutsideHoursPending(m) \/ SetOutsideHoursPending(m) \/ DeleteNoticeBuffer(m) \/ SendNotice(m)
    PROVE  LeadsOn(m)
<1>1. CASE GetOutsideHoursPending(m)
  <2>1. \/ GoTo(m, "diverted") \/ StopAndError(m, "internal.redis.get_pending")
        \/ run' = [run EXCEPT ![m].pc = "set_outside_pending", ![m].state = pending]
    BY <1>1 DEF GetOutsideHoursPending, Continue, ErrorReport2
  <2>2. Wrote(m) /\ run'[m].pc \in Ended \cup {"set_outside_pending"} BY <2>1, GoesWhere, StopsThere DEF Ended
  <2> QED BY <1>1, <2>2, Stages DEF GetOutsideHoursPending, At, LeadsOn
<1>2. CASE SetOutsideHoursPending(m)
  <2>1. GoTo(m, "delete_notice_buffer") \/ Unreported(m) BY <1>2 DEF SetOutsideHoursPending, Continue
  <2>2. Wrote(m) /\ run'[m].pc \in Ended \cup {"delete_notice_buffer"} BY <2>1, GoesWhere, StopsThere
  <2> QED BY <1>2, <2>2, Stages DEF SetOutsideHoursPending, At, LeadsOn
<1>3. CASE DeleteNoticeBuffer(m)
  <2>1. Wrote(m) /\ run'[m].pc = "send_notice" BY <1>3, GoesWhere DEF DeleteNoticeBuffer
  <2> QED BY <1>3, <2>1, Stages DEF DeleteNoticeBuffer, At, LeadsOn
<1>4. CASE SendNotice(m)
  <2>1. GoTo(m, "diverted") \/ StopAndError(m, "external.evo.send_message")
    BY <1>4 DEF SendNotice, Continue, ErrorReport10
  <2>2. Wrote(m) /\ run'[m].pc \in Ended BY <2>1, StopsThere DEF Ended
  <2> QED BY <1>4, <2>2, Stages DEF SendNotice, At, LeadsOn
<1> QED BY <1>1, <1>2, <1>3, <1>4

\* The buffer, the decision and what it takes to decide.
LEMMA DecidingLeads ==
    ASSUME RunShape, NEW m \in Messages,
           \/ PushBuffer(m) \/ GetBuffer1(m) \/ GetBuffer2(m) \/ GetMemories1(m) \/ TextClassifier(m)
           \/ SetPersonalBlock(m) \/ ServicesList(m) \/ Client(m)
    PROVE  LeadsOn(m)
<1>1. CASE PushBuffer(m)
  <2>1. \/ run' = [run EXCEPT ![m].pc = "get_buffer_1", ![m].pushed = TRUE]
        \/ StopAndError(m, "internal.redis.buffer")
    BY <1>1 DEF PushBuffer, ErrorReport6
  <2>2. Wrote(m) /\ run'[m].pc \in Ended \cup {"get_buffer_1"} BY <2>1, GoesWhere, StopsThere
  <2> QED BY <1>1, <2>2, Stages DEF PushBuffer, At, LeadsOn
<1>2. CASE GetBuffer1(m)
  <2>1. \/ run' = [run EXCEPT ![m].pc = "wait", ![m].seen = buffer]
        \/ run' = [run EXCEPT ![m].pc = "wait", ![m].late = TRUE]
    BY <1>2 DEF GetBuffer1
  <2>2. Wrote(m) /\ run'[m].pc = "wait" BY <2>1, GoesWhere
  <2> QED BY <1>2, <2>2, Stages DEF GetBuffer1, At, LeadsOn
<1>3. CASE GetBuffer2(m)
  <2>1. \/ run' = [run EXCEPT ![m].pc = "get_memories", ![m].text = buffer]
        \/ End(m, "superseded") \/ StopAndError(m, "internal.redis.buffer")
    BY <1>3 DEF GetBuffer2, ErrorReport6
  <2>2. Wrote(m) /\ run'[m].pc \in Ended \cup {"get_memories"} BY <2>1, GoesWhere, StopsThere DEF Ended
  <2> QED BY <1>3, <2>2, Stages DEF GetBuffer2, At, LeadsOn
<1>4. CASE GetMemories1(m)
  <2>1. Wrote(m) /\ run'[m].pc = "text_classifier" BY <1>4, GoesWhere DEF GetMemories1
  <2> QED BY <1>4, <2>1, Stages DEF GetMemories1, At, LeadsOn
<1>5. CASE TextClassifier(m)
  <2>0. PICK route \in {"spam", "personal", "agent", "appointments", "list", "fixed"} :
           \E kept : run' = [run EXCEPT ![m].pc = MessageClassifier(route), ![m].route = kept]
    BY <1>5 DEF TextClassifier
  <2>1. PICK kept : run' = [run EXCEPT ![m].pc = MessageClassifier(route), ![m].route = kept]
    BY <2>0
  <2> DEFINE pc == MessageClassifier(route)
  <2>2. pc \in {"set_personal_block", "list", "client", "push_memory"} BY DEF MessageClassifier
  <2>3. run' = [run EXCEPT ![m].pc = pc, ![m].route = kept] BY <2>1
  <2> HIDE DEF pc
  <2>4. Wrote(m) /\ run'[m].pc = pc BY <2>2, <2>3, GoesWhere
  <2>5. run[m].pc = "text_classifier" BY <1>5 DEF TextClassifier, At
  <2> QED BY <2>2, <2>4, <2>5, Stages DEF LeadsOn
<1>6. CASE SetPersonalBlock(m)
  <2>1. GoTo(m, "push_memory") \/ End(m, "spam") \/ StopAndError(m, "internal.redis.personal_block")
    BY <1>6 DEF SetPersonalBlock, ErrorReport12
  <2>2. Wrote(m) /\ run'[m].pc \in Ended \cup {"push_memory"} BY <2>1, GoesWhere, StopsThere DEF Ended
  <2> QED BY <1>6, <2>2, Stages DEF SetPersonalBlock, At, LeadsOn
<1>7. CASE Client(m)
  <2>1. \/ GoTo(m, "get_pending_1") \/ GoTo(m, "push_memory") \/ GoTo(m, "ask_name")
        \/ StopAndError(m, "internal.api.get_client")
    BY <1>7 DEF Client, Continue, AfterClient
  <2>2. Wrote(m) /\ run'[m].pc \in Ended \cup {"get_pending_1", "push_memory", "ask_name"}
    BY <2>1, GoesWhere, StopsThere
  <2> QED BY <1>7, <2>2, Stages DEF Client, At, LeadsOn
<1>8. CASE ServicesList(m)
  <2>1. GoTo(m, "push_memory") \/ StopAndError(m, "internal.api.get_service") BY <1>8 DEF ServicesList, Continue
  <2>2. Wrote(m) /\ run'[m].pc \in Ended \cup {"push_memory"} BY <2>1, GoesWhere, StopsThere
  <2> QED BY <1>8, <2>2, Stages DEF ServicesList, At, LeadsOn
<1> QED BY <1>1, <1>2, <1>3, <1>4, <1>5, <1>6, <1>7, <1>8

\* The answer.
LEMMA AnsweringLeads ==
    ASSUME RunShape, NEW m \in Messages,
           \/ DeleteAskedBuffer(m) \/ GetPending1(m) \/ AiAgent(m)
           \/ PushMemory(m) \/ PushMemory1(m) \/ DeleteBuffer(m) \/ SendResponse(m)
    PROVE  LeadsOn(m)
<1>1. CASE DeleteAskedBuffer(m)
  <2>1. PICK pc \in {"get_pending_1", "push_memory"} :
           GoTo(m, pc) \/ run' = [run EXCEPT ![m].pc = pc, ![m].kept = TRUE]
    BY <1>1 DEF DeleteAskedBuffer, Continue, AfterClient
  <2>2. Wrote(m) /\ run'[m].pc \in {"get_pending_1", "push_memory"} BY <2>1, GoesWhere
  <2> QED BY <1>1, <2>2, Stages DEF DeleteAskedBuffer, At, LeadsOn
<1>2. CASE GetPending1(m)
  <2>1. End(m, "diverted") \/ GoTo(m, "ai_agent") \/ StopAndError(m, "internal.redis.get_pending")
    BY <1>2 DEF GetPending1, Continue, ErrorReport11
  <2>2. Wrote(m) /\ run'[m].pc \in Ended \cup {"ai_agent"} BY <2>1, GoesWhere, StopsThere DEF Ended
  <2> QED BY <1>2, <2>2, Stages DEF GetPending1, At, LeadsOn
<1>3. CASE AiAgent(m)
  <2>1. GoTo(m, "delete_buffer") \/ StopAndError(m, "internal.ai.agent")
    BY <1>3 DEF AiAgent, Continue, ErrorReport13
  <2>2. Wrote(m) /\ run'[m].pc \in Ended \cup {"delete_buffer"} BY <2>1, GoesWhere, StopsThere
  <2> QED BY <1>3, <2>2, Stages DEF AiAgent, At, LeadsOn
<1>4. CASE PushMemory(m)
  <2>1. Wrote(m) /\ run'[m].pc = "push_memory_1" BY <1>4, GoesWhere DEF PushMemory
  <2> QED BY <1>4, <2>1, Stages DEF PushMemory, At, LeadsOn
<1>5. CASE PushMemory1(m)
  <2>1. Wrote(m) /\ run'[m].pc = "delete_buffer" BY <1>5, GoesWhere DEF PushMemory1
  <2> QED BY <1>5, <2>1, Stages DEF PushMemory1, At, LeadsOn
<1>6. CASE DeleteBuffer(m)
  <2>1. GoTo(m, "send_response") \/ run' = [run EXCEPT ![m].pc = "send_response", ![m].kept = TRUE]
    BY <1>6 DEF DeleteBuffer, Continue
  <2>2. Wrote(m) /\ run'[m].pc = "send_response" BY <2>1, GoesWhere
  <2> QED BY <1>6, <2>2, Stages DEF DeleteBuffer, At, LeadsOn
<1>7. CASE SendResponse(m)
  <2>1. End(m, "done") \/ StopAndError(m, "external.evo.send_message")
    BY <1>7 DEF SendResponse, ErrorReport10
  <2>2. Wrote(m) /\ run'[m].pc \in Ended BY <2>1, StopsThere DEF Ended
  <2> QED BY <1>7, <2>2, Stages DEF SendResponse, At, LeadsOn
<1> QED BY <1>1, <1>2, <1>3, <1>4, <1>5, <1>6, <1>7

\* All of them.
LEMMA StepLeads == ASSUME RunShape, BufferAssumption, NEW m \in Messages, Step(m) PROVE LeadsOn(m)
BY GatesLead, NoticeLeads, DecidingLeads, AnsweringLeads DEF Step

\* Each step of an execution leads it on, and only its own steps touch it.
THEOREM BufferLeadsOn == Spec => ExecutionsLeadOn
<1>1. BufferInv /\ [Next]_vars =>
        \A m \in Messages : Step(m) \/ run'[m] # run[m] => Stage(run[m].pc) < Stage(run'[m].pc)
  <2> SUFFICES ASSUME BufferInv, [Next]_vars, NEW m \in Messages, Step(m) \/ run'[m] # run[m]
               PROVE  Stage(run[m].pc) < Stage(run'[m].pc)
    BY Zenon
  <2>1. RunShape BY DEF BufferInv
  <2>2. CASE \E e \in Messages : Step(e)
    <3>1. PICK e \in Messages : LeadsOn(e) BY <2>1, <2>2, StepLeads, BufferAssumption
    <3>2. Step(m) => LeadsOn(m) BY <2>1, StepLeads, BufferAssumption
    <3> QED BY <3>1, <3>2 DEF LeadsOn, Wrote
  <2>3. CASE ~ \E e \in Messages : Step(e)
    <3>1. run' = run BY <2>3 DEF Next, vars, ErrorTrigger, ClientUpdate, ChatBlockExpires, PersonalBlockExpires
    <3> QED BY <2>3, <3>1
  <2> QED BY <2>2, <2>3
<1> QED BY <1>1, BufferAlways, PTL DEF Spec, ExecutionsLeadOn

-----------------------------------------------------------------------------
(* Where no call has failed. *)

\* An execution that goes on as it came, and does not stop.
Calm(m) == Wrote(m) /\ run'[m].late = run[m].late /\ run'[m].pc # "failed"

\* The ways to go on do not touch what it knows of a failed read.
LEMMA CalmWays ==
    ASSUME RunShape, NEW m \in Messages, NEW pc, pc # "failed",
           \/ GoTo(m, pc)
           \/ \E route : run' = [run EXCEPT ![m].pc = pc, ![m].route = route]
           \/ \E state : run' = [run EXCEPT ![m].pc = pc, ![m].state = state]
           \/ \E text : run' = [run EXCEPT ![m].pc = pc, ![m].text = text]
           \/ \E seen : run' = [run EXCEPT ![m].pc = pc, ![m].seen = seen]
           \/ run' = [run EXCEPT ![m].pc = pc, ![m].pushed = TRUE]
    PROVE  Calm(m)
<1>1. Wrote(m) /\ run'[m].pc = pc BY GoesWhere
<1>2. IsRun(run[m]) /\ run = [e \in Messages |-> run[e]] BY DEF RunShape
<1>3. run'[m].late = run[m].late
  <2>1. CASE GoTo(m, pc)
    <3>1. run'[m] = [run[m] EXCEPT !.pc = pc] BY <1>2, <2>1 DEF GoTo
    <3> QED BY <1>2, <3>1 DEF IsRun
  <2>2. CASE \E route : run' = [run EXCEPT ![m].pc = pc, ![m].route = route]
    <3>1. PICK route : run' = [run EXCEPT ![m].pc = pc, ![m].route = route] BY <2>2
    <3>2. run'[m] = [run[m] EXCEPT !.pc = pc, !.route = route] BY <1>2, <3>1
    <3> QED BY <1>2, <3>2 DEF IsRun
  <2>3. CASE \E text : run' = [run EXCEPT ![m].pc = pc, ![m].text = text]
    <3>1. PICK text : run' = [run EXCEPT ![m].pc = pc, ![m].text = text] BY <2>3
    <3>2. run'[m] = [run[m] EXCEPT !.pc = pc, !.text = text] BY <1>2, <3>1
    <3> QED BY <1>2, <3>2 DEF IsRun
  <2>4. CASE \E seen : run' = [run EXCEPT ![m].pc = pc, ![m].seen = seen]
    <3>1. PICK seen : run' = [run EXCEPT ![m].pc = pc, ![m].seen = seen] BY <2>4
    <3>2. run'[m] = [run[m] EXCEPT !.pc = pc, !.seen = seen] BY <1>2, <3>1
    <3> QED BY <1>2, <3>2 DEF IsRun
  <2>5. CASE run' = [run EXCEPT ![m].pc = pc, ![m].pushed = TRUE]
    <3>1. run'[m] = [run[m] EXCEPT !.pc = pc, !.pushed = TRUE] BY <1>2, <2>5
    <3> QED BY <1>2, <3>1 DEF IsRun
  <2>6. CASE \E state : run' = [run EXCEPT ![m].pc = pc, ![m].state = state]
    <3>1. PICK state : run' = [run EXCEPT ![m].pc = pc, ![m].state = state] BY <2>6
    <3>2. run'[m] = [run[m] EXCEPT !.pc = pc, !.state = state] BY <1>2, <3>1
    <3> QED BY <1>2, <3>2 DEF IsRun
  <2> QED BY <2>1, <2>2, <2>3, <2>4, <2>5, <2>6
<1> QED BY <1>1, <1>3 DEF Calm

\* One that comes to an end has stopped only if a read had failed.
LEMMA CalmEnd ==
    ASSUME RunShape, NEW m \in Messages, NEW outcome \in Ended \ {"failed"}, End(m, outcome),
           run[m].late = FALSE
    PROVE  Calm(m)
BY CalmWays DEF End

\* A step fails a call, or its execution goes on as it came, or ends over a failed read.
LEMMA StepCounts ==
    ASSUME RunShape, BufferAssumption, NEW m \in Messages, Step(m), ~Fail
    PROVE  UNCHANGED failures /\ (run[m].late = FALSE => Calm(m))
<1>u. UNCHANGED failures
  BY DEF Step, GetPersonalBlock, SetTimeout, GetTimeout, GetToken, BusinessContext, GetPending, CallState,
         GetOutsideHoursPending, SetOutsideHoursPending, DeleteNoticeBuffer, SendNotice, ServicesList,
         DeletePromptBuffer, Transcribe, PushBuffer, GetBuffer1, GetBuffer2, GetMemories1, TextClassifier,
         SetPersonalBlock, Client, DeleteAskedBuffer, GetPending1, AiAgent, PushMemory, PushMemory1,
         DeleteBuffer, SendResponse, Ok
<1> SUFFICES ASSUME run[m].late = FALSE PROVE Calm(m)
  BY <1>u
<1>1. CASE \/ GetPersonalBlock(m) \/ SetTimeout(m) \/ GetTimeout(m) \/ GetToken(m) \/ BusinessContext(m)
           \/ Transcribe(m)
  <2>1. \E pc \in Early \cup {"blocked", "diverted"} : GoTo(m, pc)
    BY <1>1 DEF GetPersonalBlock, SetTimeout, GetTimeout, GetToken, BusinessContext, Transcribe,
                Continue, Early
  <2> QED BY <2>1, CalmWays DEF Early
<1>11. CASE GetOutsideHoursPending(m) \/ SetOutsideHoursPending(m) \/ DeleteNoticeBuffer(m) \/ SendNotice(m)
  <2>1. \/ GoTo(m, "diverted") \/ GoTo(m, "delete_notice_buffer") \/ GoTo(m, "send_notice")
        \/ run' = [run EXCEPT ![m].pc = "set_outside_pending", ![m].state = pending]
    BY <1>11 DEF GetOutsideHoursPending, SetOutsideHoursPending, DeleteNoticeBuffer, SendNotice, Continue
  <2> QED BY <2>1, CalmWays
<1>2. CASE GetPending(m)
  <2>1. MessageType(m) # "failed" BY BufferAssumption DEF MessageType
  <2>2. (GoTo(m, "call_state") \/ GoTo(m, "dropped") \/ GoTo(m, MessageType(m)))
    BY <1>2 DEF GetPending, Continue, PendingState
  <2> QED BY <2>1, <2>2, CalmWays
<1>3. CASE CallState(m)
  <2>1. run' = [run EXCEPT ![m].pc = "delete_prompt_buffer", ![m].text = {m}]
    BY <1>3 DEF CallState
  <2> QED BY <2>1, CalmWays
<1>4. CASE DeletePromptBuffer(m) \/ SendResponse(m)
  <2>1. End(m, "done") BY <1>4 DEF DeletePromptBuffer, SendResponse
  <2> QED BY <2>1, CalmEnd DEF Ended
<1>5. CASE PushBuffer(m)
  <2>1. run' = [run EXCEPT ![m].pc = "get_buffer_1", ![m].pushed = TRUE]
    BY <1>5 DEF PushBuffer
  <2> QED BY <2>1, CalmWays
<1>6. CASE GetBuffer1(m)
  <2>1. run' = [run EXCEPT ![m].pc = "wait", ![m].seen = buffer] BY <1>6 DEF GetBuffer1
  <2> QED BY <2>1, CalmWays
<1>7. CASE GetBuffer2(m)
  <2>1. \/ run' = [run EXCEPT ![m].pc = "get_memories", ![m].text = buffer]
        \/ End(m, "superseded")
    BY <1>7 DEF GetBuffer2
  <2> QED BY <2>1, CalmWays, CalmEnd DEF Ended
<1>8. CASE TextClassifier(m)
  <2>0. PICK route \in {"spam", "personal", "agent", "appointments", "list", "fixed"} :
           \E kept : run' = [run EXCEPT ![m].pc = MessageClassifier(route), ![m].route = kept]
    BY <1>8 DEF TextClassifier
  <2>1. PICK kept : run' = [run EXCEPT ![m].pc = MessageClassifier(route), ![m].route = kept]
    BY <2>0
  <2> DEFINE pc == MessageClassifier(route)
  <2>2. pc # "failed" BY DEF MessageClassifier
  <2>3. run' = [run EXCEPT ![m].pc = pc, ![m].route = kept] BY <2>1
  <2> HIDE DEF pc
  <2> QED BY <2>2, <2>3, CalmWays
<1>9. CASE SetPersonalBlock(m) \/ GetPending1(m)
  <2>1. \/ GoTo(m, "push_memory") \/ GoTo(m, "ai_agent")
        \/ End(m, "spam") \/ End(m, "diverted")
    BY <1>9 DEF SetPersonalBlock, GetPending1, Continue
  <2> QED BY <2>1, CalmWays, CalmEnd DEF Ended
<1>10. CASE \/ GetMemories1(m) \/ ServicesList(m) \/ Client(m) \/ DeleteAskedBuffer(m) \/ AiAgent(m)
            \/ PushMemory(m) \/ PushMemory1(m) \/ DeleteBuffer(m)
  <2>1. \E pc \in Deciding \cup {"send_response"} : GoTo(m, pc)
    BY <1>10 DEF GetMemories1, ServicesList, AfterClient, Client, DeleteAskedBuffer, AiAgent, PushMemory, PushMemory1, DeleteBuffer,
                 Continue, Deciding
  <2> QED BY <2>1, CalmWays DEF Deciding
<1> QED BY <1>1, <1>2, <1>3, <1>4, <1>5, <1>6, <1>7, <1>8, <1>9, <1>10, <1>11 DEF Step

\* Failures are counted when they happen.
LEMMA CountingKept ==
    ASSUME RunShape, BufferAssumption, FailuresCounted, [Next]_vars
    PROVE  FailuresCounted'
<1>0. Fail => FailuresCounted'
  <2>1. Fail => failures' \in Nat /\ failures' # 0 BY DEF Fail, FailuresCounted
  <2> QED BY <2>1 DEF FailuresCounted
<1>1. CASE \E m \in Messages : Step(m)
  <2>1. PICK m \in Messages : Step(m) BY <1>1
  <2>2. CASE Fail BY <1>0, <2>2
  <2>3. CASE ~Fail
    <3>1. UNCHANGED failures /\ (run[m].late = FALSE => Calm(m)) BY <2>1, <2>3, StepCounts
    <3>2. CASE run[m].late = FALSE
      <4>1. run'[m].pc # "failed" /\ run'[m].late = FALSE /\ \A e \in Messages \ {m} : run'[e] = run[e]
        BY <3>1, <3>2 DEF Calm, Wrote
      <4> QED BY <3>1, <4>1 DEF FailuresCounted
    <3>3. CASE run[m].late # FALSE BY <3>1, <3>3 DEF FailuresCounted
    <3> QED BY <3>2, <3>3
  <2> QED BY <2>2, <2>3
<1>2. CASE ~ \E m \in Messages : Step(m)
  <2>1. run' = run /\ (UNCHANGED failures \/ Fail)
    BY <1>2 DEF Next, vars, ErrorTrigger, ClientUpdate, ChatBlockExpires, PersonalBlockExpires, Ok
  <2> QED BY <1>0, <2>1 DEF FailuresCounted
<1> QED BY <1>1, <1>2

\* Who still answers for the buffer when everything is over has answered or judged it spam.
LEMMA RestIsAnswered ==
    ASSUME SilenceInv, FailuresCounted
    PROVE  AnsweredAtRest
<1> SUFFICES ASSUME \A m \in Messages : AtRest(m), ~overlap, failures = 0,
                    NEW m \in Messages, run[m].pushed, ~Answered(m)
             PROVE  \E e \in Messages : At(e, "spam") /\ m \in run[e].text
  BY DEF AnsweredAtRest
<1>1. \A e \in Messages : run[e].pc # "failed" /\ AtRest(e) BY DEF FailuresCounted
<1>2. CASE m \in buffer
  <2>1. PICK e \in Messages : AnswersFor(e) BY <1>2 DEF SilenceInv, SomebodyAnswers
  <2>2. ~(Replied(e) /\ buffer \subseteq run[e].text) BY <1>2 DEF Answered
  <2>3. run[e].pc = "spam" /\ m \in run[e].text
    BY <1>1, <1>2, <2>1, <2>2 DEF AnswersFor, AtRest, Ended, Deciding
  <2> QED BY <2>3 DEF At
<1>3. CASE m \notin buffer
  <2>1. PICK e \in Messages : m \in run[e].text /\ HasAnswer(e)
    BY <1>3 DEF SilenceInv, BufferInv, Covered
  <2>2. run[e].why = "" BY <1>1 DEF SilenceInv, BufferInv, Texts
  <2>3. FALSE BY <1>1, <2>1, <2>2 DEF HasAnswer, Answered, AtRest, Ended
  <2> QED BY <2>3
<1> QED BY <1>2, <1>3

\* A burst whose executions are over, none of which overlapped or failed, was answered.
THEOREM BufferAnsweredAtRest == Spec => []AnsweredAtRest
<1>1. Init => SilenceInv /\ FailuresCounted
  <2> SUFFICES ASSUME Init PROVE SilenceInv /\ FailuresCounted
    OBVIOUS
  <2>1. failures = 0 /\ \A m \in Messages : run[m].pc = "get_personal_block" /\ run[m].late = FALSE BY DEF Init
  <2> QED BY <2>1, InitSilence DEF FailuresCounted
<1>2. SilenceInv /\ FailuresCounted /\ [Next]_vars => SilenceInv' /\ FailuresCounted'
  <2> SUFFICES ASSUME SilenceInv, FailuresCounted, [Next]_vars PROVE SilenceInv' /\ FailuresCounted'
    OBVIOUS
  <2>1. RunShape BY DEF SilenceInv, BufferInv
  <2> QED BY <2>1, NextSilence, CountingKept, BufferAssumption
<1>3. SilenceInv /\ FailuresCounted => AnsweredAtRest BY RestIsAnswered
<1> QED BY <1>1, <1>2, <1>3, PTL DEF Spec
=============================================================================
