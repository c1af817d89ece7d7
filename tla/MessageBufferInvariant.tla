----------------------- MODULE MessageBufferInvariant -----------------------
(***************************************************************************)
(* What the executions of one chat keep true between their steps: the       *)
(* inductive invariants behind NothingLost and AnsweredOnce, and            *)
(* SilenceExplained.                                                        *)
(***************************************************************************)
EXTENDS MessageBuffer

\* An execution is a record of these fields.
IsRun(r) ==
    r = [pc |-> r.pc, state |-> r.state, seen |-> r.seen, text |-> r.text, route |-> r.route,
         pushed |-> r.pushed, kept |-> r.kept, late |-> r.late, why |-> r.why]
RunShape == run = [m \in Messages |-> run[m]] /\ \A m \in Messages : IsRun(run[m])

Early == {"get_personal_block", "set_timeout", "get_timeout", "get_token", "business_context",
          "get_outside_pending", "set_outside_pending", "delete_notice_buffer", "send_notice",
          "get_pending", "transcribe", "push_buffer"}
BeforeText == Early \cup {"get_buffer_1", "wait", "call_state"}
Taken(e) == Replied(e) \/ run[e].pc \in Deciding \cup {"send_response"}

\* Where an execution is tells what it has read, and a message that is not pushed
\* yet is nowhere.
Texts ==
    /\ \A e \in Messages : run[e].pc \in BeforeText => run[e].text = {} /\ ~Replied(e)
    /\ \A e \in Messages : run[e].pc \in Early \cup {"get_buffer_1"} => run[e].seen = {}
    /\ \A e, m \in Messages : run[m].pc \in Early \cup {"call_state"} =>
          m \notin buffer /\ m \notin run[e].text /\ m \notin run[e].seen
    /\ \A e \in Messages : run[e].pc \in {"ask_name", "delete_prompt_buffer"} => Replied(e)
    /\ \A e \in Messages : run[e].pc # "failed" => run[e].why = ""

\* Of two executions that wait, the one pushed first does not know the other.
Window ==
    /\ \A e, f \in Messages : e # f /\ run[f].pc = "get_buffer_1" => run[e].pc # "get_buffer_1"
    /\ \A f \in Messages : run[f].pc = "get_buffer_1" => f \in buffer
    /\ \A f \in Messages : run[f].pc = "wait" => run[f].seen = {} \/ f \in run[f].seen
    /\ \A e, f \in Messages : run[f].pc = "get_buffer_1" /\ run[e].pc = "wait" => f \notin run[e].seen
    /\ \A e, f \in Messages : e # f /\ run[e].pc = "wait" /\ run[f].pc = "wait" =>
          e \notin run[f].seen \/ f \notin run[e].seen

\* The buffer is still what an execution that answers has taken, or deleted, and
\* no other execution takes the same.
Decision ==
    /\ \A e \in Messages : run[e].pc \in Deciding => buffer = {} \/ buffer = run[e].text
    /\ \A e, f \in Messages : e # f /\ run[e].pc \in Deciding =>
          /\ run[f].pc # "get_buffer_1"
          /\ run[f].pc = "wait" => buffer = {} \/ run[f].seen # buffer
          /\ run[f].pc \in Deciding => buffer = {}
    /\ \A e \in Messages : run[e].pc \in Naming => buffer = {}

\* What was answered is no longer in the buffer.
Cleared ==
    \A e \in Messages : Taken(e) /\ (run[e].pc \in Deciding => Replied(e) /\ run[e].pc # "ask_name") =>
        run[e].kept \/ run[e].text \cap buffer = {}

Apart ==
    \A e, f \in Messages : e # f /\ Taken(e) /\ Taken(f) =>
        run[e].text \cap run[f].text = {} \/ run[e].kept \/ run[f].kept

HasAnswer(e) == Replied(e) \/ run[e].pc = "send_response" \/ run[e].why = "external.evo.send_message"
Covered == \A m \in Messages : run[m].pushed =>
              m \in buffer \/ \E e \in Messages : m \in run[e].text /\ HasAnswer(e)

BufferInv ==
    /\ RunShape /\ overlap \in BOOLEAN /\ Texts
    /\ ~overlap => Window /\ Decision /\ Cleared /\ Apart /\ Covered

-----------------------------------------------------------------------------
(* Who still answers for the buffer *)

ToldShape == DOMAIN told = Messages

\* Where an execution is tells whether it pushed its message.
PushedByNow ==
    \A e \in Messages :
        /\ run[e].pc \in Early => ~run[e].pushed
        /\ run[e].pc \in Reading \cup Deciding \cup {"send_response"} => run[e].pushed

\* The errors that stop an execution, by whether the client is told of them; those
\* of a message that never waits for an answer (of the business, or out of hours).
ToldErrors ==
    {"internal.api.auth", "internal.redis.get_pending", "internal.redis.personal_block",
     "external.ai.transcription", "internal.redis.buffer", "internal.redis.get_timeout",
     "internal.ai.agent", "internal.api.get_business"}
MuteErrors == {"external.evo.send_message", "internal.api.get_client", "internal.api.client_name",
               "internal.api.get_service"}
OwnErrors == {"internal.redis.set_timeout", "unknown"}

\* The client is told of the failure, or about to be.
Heard(e) ==
    /\ run[e].why \in ToldErrors \cup MuteErrors \cup OwnErrors
    /\ run[e].why \in OwnErrors => ~run[e].pushed
    /\ run[e].why = "external.evo.send_message" => run[e].pushed \/ run[e].text = {}
    /\ run[e].why \in ToldErrors =>
          Report(e, run[e].why) \in reports \/ "apology" \in told[e] \/ Mute(e)
FailureHeard == \A e \in Messages : run[e].pc = "failed" => Heard(e)

\* Who is asked for a name has none, and one message at a time answers that. An
\* execution that asked has replied.
NameAsked ==
    /\ named => pending # "awaiting_name"
    /\ \A e \in Messages : run[e].pc = "call_state" => ~named
    /\ \A e, f \in Messages : e # f /\ run[e].pc \in Naming => run[f].pc \notin Naming
AskedReplied == \A e \in Messages : run[e].pc = "get_pending_1" => named \/ Replied(e)

\* An execution that will take the buffer as it is, or has taken all of it, or
\* failed on the way.
AnswersFor(e) ==
    \/ run[e].pc = "get_buffer_1"
    \/ run[e].pc = "wait" /\ (run[e].seen = buffer \/ run[e].late)
    \/ run[e].pc \in Deciding \cup {"send_response", "spam"} /\ buffer \subseteq run[e].text
    \/ Replied(e) /\ buffer \subseteq run[e].text
    \/ run[e].pc = "failed" /\ (run[e].pushed \/ run[e].why = "internal.redis.buffer")
SomebodyAnswers == buffer # {} => \E e \in Messages : AnswersFor(e)

SilenceInv ==
    /\ BufferInv /\ ToldShape /\ PushedByNow /\ FailureHeard /\ AskedReplied
    /\ ~overlap => NameAsked /\ SomebodyAnswers

-----------------------------------------------------------------------------
(* What EventuallyAnswered needs besides fairness *)

\* How far an execution is: the longest way through the workflow that leads to a node.
Stage(pc) ==
    CASE pc = "get_personal_block" -> 0
      [] pc \in {"set_timeout", "get_timeout"} -> 1
      [] pc = "get_token" -> 2
      [] pc = "business_context" -> 3
      [] pc \in {"get_pending", "get_outside_pending"} -> 4
      [] pc \in {"call_state", "transcribe", "set_outside_pending"} -> 5
      [] pc \in {"delete_prompt_buffer", "push_buffer", "delete_notice_buffer"} -> 6
      [] pc \in {"get_buffer_1", "send_notice"} -> 7
      [] pc = "wait" -> 8
      [] pc = "get_memories" -> 9
      [] pc = "text_classifier" -> 10
      [] pc \in {"set_personal_block", "list", "client"} -> 11
      [] pc = "ask_name" -> 12
      [] pc \in {"get_pending_1", "push_memory"} -> 13
      [] pc \in {"ai_agent", "push_memory_1"} -> 14
      [] pc = "delete_buffer" -> 15
      [] pc = "send_response" -> 16
      [] pc \in Ended -> 17

\* No node is run twice, and nothing brings an execution back: it is over after
\* at most as many steps as there are stages.
ExecutionsLeadOn ==
    [][\A m \in Messages : Step(m) \/ run'[m] # run[m] => Stage(run[m].pc) < Stage(run'[m].pc)]_vars

\* Where a call failed, or a read that is reported at the end, is counted.
FailuresCounted ==
    /\ failures \in Nat
    /\ \A e \in Messages : run[e].pc = "failed" \/ run[e].late # FALSE => failures # 0

AtRest(m) == run[m].pc \in Ended \cup {"get_personal_block"}

\* When the executions that were started are over, no call has failed and none
\* overlapped, every message of the burst was answered or judged as spam.
AnsweredAtRest ==
    (\A m \in Messages : AtRest(m)) /\ ~overlap /\ failures = 0 =>
        \A m \in Messages : run[m].pushed =>
            Answered(m) \/ \E e \in Messages : At(e, "spam") /\ m \in run[e].text
=============================================================================
