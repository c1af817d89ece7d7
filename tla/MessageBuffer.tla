---------------------------- MODULE MessageBuffer ----------------------------
(***************************************************************************)
(* The messages of one WhatsApp chat in the workflow main-prod. n8n runs an *)
(* execution per message, all at once. An execution pushes its message to   *)
(* the chat's buffer in Redis, reads the buffer, waits, reads it again, and *)
(* answers the whole buffer only if it did not grow: otherwise a later      *)
(* execution does. A variable is a key of the chat in Redis or an           *)
(* execution; run[m].pc is the node the execution of message m calls next.  *)
(***************************************************************************)
EXTENDS ErrorReports, Naturals

CONSTANTS
    Messages,     \* the messages of the chat
    FromHuman,    \* those the business itself wrote on its phone
    Kind,         \* "text", "quoted" (text with a quote or a line break), "audio" or "sticker"
    MaxFailures   \* bound: calls that fail

ASSUME BufferAssumption ==
    /\ FromHuman \subseteq Messages
    /\ Kind \in [Messages -> {"text", "quoted", "audio", "sticker"}]
    /\ MaxFailures \in Nat

VARIABLES
    buffer,           \* chat_buffer: the messages in the list (it is only appended to and deleted)
    chat_block,       \* chat_block exists: the business writes itself
    personal_block,   \* personal_block exists: the conversation is not the assistant's
    pending,          \* state: "" (none), "awaiting_name" or "outside_business_hours"
    named,            \* the client has a name in the API
    run,              \* message -> its execution: the node it is at (pc), what it read of the state
                      \* (state) and the buffer (seen), the messages it answers (text), its
                      \* classification where it is read again (route), whether it pushed its
                      \* message, could not delete the buffer (kept), failed to read it (late),
                      \* and the error that stopped it (why)
    told,             \* message -> what its execution told the client, and whether that was lost
    reports,          \* what is on its way to the error workflow
    failures,
    overlap           \* history: executions came in each other's way. A message was pushed while
                      \* another one read or answered; a name was taken while messages waited, or
                      \* given in the panel while it was asked for; a notice out of hours deleted
                      \* waiting messages, or its state cut an answer off

redis == <<chat_block, personal_block, pending, named>>
vars == <<buffer, redis, run, told, reports, failures, overlap>>

Reading == {"get_buffer_1", "wait"}
Deciding ==
    {"get_memories", "text_classifier", "set_personal_block", "list", "client", "ask_name",
     "get_pending_1", "ai_agent", "push_memory", "push_memory_1", "delete_buffer"}
Naming == {"call_state", "delete_prompt_buffer"}
Ended == {"blocked", "diverted", "dropped", "superseded", "spam", "failed", "done"}

Init ==
    /\ buffer = {} /\ chat_block = FALSE /\ personal_block = FALSE
    /\ pending = "" /\ named \in BOOLEAN
    /\ run = [m \in Messages |->
                 [pc |-> "get_personal_block", state |-> "", seen |-> {}, text |-> {}, route |-> "",
                  pushed |-> FALSE, kept |-> FALSE, late |-> FALSE, why |-> ""]]
    /\ told = [m \in Messages |-> {}] /\ reports = {} /\ failures = 0 /\ overlap = FALSE

-----------------------------------------------------------------------------
\* Errors. The error object of a stopping node quotes the message: it is no
\* JSON if the message has a quote, and the error workflow then learns nothing.
At(m, pc) == run[m].pc = pc
Fail == failures < MaxFailures /\ failures' = failures + 1
Ok == UNCHANGED failures
GoTo(m, pc) == run' = [run EXCEPT ![m].pc = pc]
Report(m, type) == [message |-> m, type |-> type, named |-> TRUE]
Unreadable(m) == [message |-> m, type |-> "unknown", named |-> FALSE]
StopAndError(m, type) ==
    /\ run' = [run EXCEPT ![m].pc = "failed", ![m].why = type]
    /\ reports' = reports \cup {IF Kind[m] = "quoted" THEN Unreadable(m) ELSE Report(m, type)}

\* A node without an error output: what n8n reports of it names no chat.
Unreported(m) ==
    /\ run' = [run EXCEPT ![m].pc = "failed", ![m].why = "unknown"]
    /\ reports' = reports \cup {Unreadable(m)}

ErrorReport(m) == StopAndError(m, "internal.api.auth")
ErrorReport2(m) == StopAndError(m, "internal.redis.get_pending")
ErrorReport3(m) == StopAndError(m, "internal.redis.set_timeout")
ErrorReport4(m) == StopAndError(m, "internal.redis.personal_block")
ErrorReport5(m) == StopAndError(m, "external.ai.transcription")
ErrorReport6(m) == StopAndError(m, "internal.redis.buffer")
ErrorReport9(m) == StopAndError(m, "internal.redis.get_timeout")
ErrorReport10(m) == StopAndError(m, "external.evo.send_message")
ErrorReport11(m) == StopAndError(m, "internal.redis.get_pending")
ErrorReport12(m) == StopAndError(m, "internal.redis.personal_block")
\* Mutant of ErrorReport13: a type whose policy has no message for the client.
ErrorReport13Mute(m) == StopAndError(m, "internal.redis.get_memory")
ErrorReport13(m) == StopAndError(m, "internal.ai.agent")
ErrorReport18(m) == reports' = reports \cup {Report(m, "internal.redis.buffer")}
\* clients-prod
PromptBufferReport(m) == reports' = reports \cup {Report(m, "internal.redis.buffer")}
ErrorReport21(m) == reports' = reports \cup {Report(m, "internal.redis.get_memory")}
ErrorReport23(m) == reports' = reports \cup {Report(m, "internal.redis.push_memory")}
ErrorReport24(m) == reports' = reports \cup {Report(m, "internal.redis.push_memory")}

End(m, outcome) == IF run[m].late THEN ErrorReport6(m) ELSE GoTo(m, outcome) /\ UNCHANGED reports
Continue(m, pc) == GoTo(m, pc) /\ UNCHANGED reports
Tell(m, what) == told' = [told EXCEPT ![m] = @ \cup {what}]

\* Another execution of the chat is past the gates when this one acts.
Others(m, pcs) == \E e \in Messages \ {m} : run[e].pc \in pcs
Overlaps(m, pcs) == overlap' = (overlap \/ Others(m, pcs))

-----------------------------------------------------------------------------
\* The gates: who is blocked, out of hours or being asked for a name.

PersonalBlockExists == personal_block
FromMe(m) == m \in FromHuman
TimeoutExist == chat_block

GetPersonalBlock(m) ==
    /\ At(m, "get_personal_block")
    /\ \/ /\ Ok
          /\ Continue(m, IF PersonalBlockExists THEN "blocked"
                           ELSE IF FromMe(m) THEN "set_timeout" ELSE "get_timeout")
       \/ Fail /\ ErrorReport4(m)
    /\ UNCHANGED <<buffer, redis, told, overlap>>

SetTimeout(m) ==
    /\ At(m, "set_timeout")
    /\ \/ Ok /\ chat_block' = TRUE /\ Continue(m, "blocked")
       \/ Fail /\ ErrorReport3(m) /\ UNCHANGED chat_block
    /\ UNCHANGED <<buffer, personal_block, pending, named, told, overlap>>

GetTimeout(m) ==
    /\ At(m, "get_timeout")
    /\ \/ Ok /\ Continue(m, IF TimeoutExist THEN "blocked" ELSE "get_token")
       \/ Fail /\ ErrorReport9(m)
    /\ UNCHANGED <<buffer, redis, told, overlap>>

GetToken(m) ==
    /\ At(m, "get_token")
    /\ \/ Ok /\ Continue(m, "business_context")
       \/ Fail /\ ErrorReport(m)
    /\ UNCHANGED <<buffer, redis, told, overlap>>

BusinessContext(m) ==
    /\ At(m, "business_context")
    /\ \/ Ok /\ \E pc \in {"get_pending", "get_outside_pending"} : Continue(m, pc)
       \/ Fail /\ StopAndError(m, "internal.api.get_business")
    /\ UNCHANGED <<buffer, redis, told, overlap>>

\* Out of hours: the client is told, if it was not yet (ChatState says when).
GetOutsideHoursPending(m) ==
    /\ At(m, "get_outside_pending")
    /\ \/ Ok /\ Continue(m, "diverted")
       \/ Ok /\ UNCHANGED reports
             /\ run' = [run EXCEPT ![m].pc = "set_outside_pending", ![m].state = pending]
       \/ Fail /\ ErrorReport2(m)
    /\ UNCHANGED <<buffer, redis, told, overlap>>

PendingStateToWrite(m) == IF run[m].state = "" THEN "outside_business_hours" ELSE run[m].state

\* With the context, which is ChatState's: either write may fail. What is written
\* was read before, and may ask again for a name that was given since.
SetOutsideHoursPending(m) ==
    /\ At(m, "set_outside_pending")
    /\ \/ Ok /\ pending' = PendingStateToWrite(m) /\ Continue(m, "delete_notice_buffer")
       \/ Fail /\ pending' \in {pending, PendingStateToWrite(m)} /\ Unreported(m)
    /\ overlap' = (overlap \/ (named /\ pending' = "awaiting_name"))
    /\ UNCHANGED <<buffer, chat_block, personal_block, named, told>>

\* The notice is sent the way of every answer, which deletes the buffer first.
DeleteNoticeBuffer(m) ==
    /\ At(m, "delete_notice_buffer")
    /\ GoTo(m, "send_notice")
    /\ \/ Ok /\ buffer' = {} /\ overlap' = (overlap \/ buffer # {}) /\ UNCHANGED reports
       \/ Fail /\ ErrorReport18(m) /\ UNCHANGED <<buffer, overlap>>
    /\ UNCHANGED <<redis, told>>

SendNotice(m) ==
    /\ At(m, "send_notice")
    /\ \/ Ok /\ Continue(m, "diverted")
       \/ Fail /\ ErrorReport10(m)
    /\ UNCHANGED <<buffer, redis, told, overlap>>

HasPending == pending # ""
\* pending state-prod: the one question it goes back to.
PendingState == IF pending = "awaiting_name" THEN "call_state" ELSE "dropped"
MessageType(m) ==
    CASE Kind[m] \in {"text", "quoted"} -> "push_buffer"
      [] Kind[m] = "audio" -> "transcribe"
      [] Kind[m] = "sticker" -> "dropped"

GetPending(m) ==
    /\ At(m, "get_pending")
    /\ \/ Ok /\ Continue(m, IF HasPending THEN PendingState ELSE MessageType(m))
             /\ overlap' = IF pending = "awaiting_name"
                           THEN overlap \/ buffer # {} \/ Others(m, Reading \cup Deciding \cup Naming)
                           ELSE overlap
       \/ Fail /\ ErrorReport2(m) /\ UNCHANGED overlap
    /\ UNCHANGED <<buffer, redis, told>>

\* The message answers the question for the name, or the question is asked again.
CallState(m) ==
    /\ At(m, "call_state")
    /\ \/ /\ Ok /\ Tell(m, "reply") /\ UNCHANGED reports
          /\ run' = [run EXCEPT ![m].pc = "delete_prompt_buffer", ![m].text = {m}]
          /\ \/ named' = TRUE /\ pending' = ""
             \/ pending' = "awaiting_name" /\ UNCHANGED named
       \/ Fail /\ StopAndError(m, "internal.api.client_name") /\ UNCHANGED <<pending, named, told>>
    /\ UNCHANGED <<buffer, chat_block, personal_block, overlap>>

DeletePromptBuffer(m) ==
    /\ At(m, "delete_prompt_buffer")
    /\ \/ Ok /\ buffer' = {} /\ End(m, "done")
       \/ /\ Fail /\ PromptBufferReport(m) /\ UNCHANGED buffer
          /\ run' = [run EXCEPT ![m].pc = "done", ![m].kept = TRUE]
    /\ UNCHANGED <<redis, told, overlap>>

-----------------------------------------------------------------------------
\* The buffer.

Transcribe(m) ==
    /\ At(m, "transcribe")
    /\ \/ Ok /\ Continue(m, "push_buffer")
       \/ Fail /\ ErrorReport5(m)
    /\ UNCHANGED <<buffer, redis, told, overlap>>

\* A failed push may have been carried out.
PushBuffer(m) ==
    /\ At(m, "push_buffer")
    /\ \/ /\ Ok /\ buffer' = buffer \cup {m} /\ UNCHANGED reports
          /\ run' = [run EXCEPT ![m].pc = "get_buffer_1", ![m].pushed = TRUE]
       \/ Fail /\ buffer' \in {buffer, buffer \cup {m}} /\ ErrorReport6(m)
    /\ Overlaps(m, {"get_buffer_1"} \cup Deciding \cup Naming)
    /\ UNCHANGED <<redis, told>>

\* A failed read goes on with nothing and is reported when its execution ends.
GetBuffer1(m) ==
    /\ At(m, "get_buffer_1")
    /\ \/ Ok /\ run' = [run EXCEPT ![m].pc = "wait", ![m].seen = buffer]
       \/ Fail /\ run' = [run EXCEPT ![m].pc = "wait", ![m].late = TRUE]
    /\ UNCHANGED <<buffer, redis, told, reports, overlap>>

\* Mutants of CompareBuffers: the own message is still there; it is alone.
StillThere(m) == m \in buffer
Alone(m) == buffer = {m}

CompareBuffers(m) == buffer = run[m].seen

GetBuffer2(m) ==
    /\ At(m, "wait")
    /\ \/ /\ Ok /\ CompareBuffers(m) /\ UNCHANGED reports
          /\ run' = [run EXCEPT ![m].pc = "get_memories", ![m].text = buffer]
       \/ Ok /\ ~CompareBuffers(m) /\ End(m, "superseded")
       \/ Fail /\ ErrorReport6(m)
    /\ UNCHANGED <<buffer, redis, told, overlap>>

-----------------------------------------------------------------------------
\* The answer.

GetMemories1(m) ==
    /\ At(m, "get_memories")
    /\ GoTo(m, "text_classifier")
    /\ \/ Ok /\ UNCHANGED reports
       \/ Fail /\ ErrorReport21(m)
    /\ UNCHANGED <<buffer, redis, told, overlap>>

MessageClassifier(route) ==
    CASE route \in {"spam", "personal"} -> "set_personal_block"
      [] route \in {"agent", "appointments"} -> "client"
      [] route = "list" -> "list"
      [] route = "fixed" -> "push_memory"

\* A failed classification is answered with a question, a fixed text too.
TextClassifier(m) ==
    /\ At(m, "text_classifier")
    /\ \E route \in {"spam", "personal", "agent", "appointments", "list", "fixed"} :
          run' = [run EXCEPT ![m].pc = MessageClassifier(route),
                             ![m].route = IF route \in {"spam", "appointments"} THEN route ELSE ""]
    /\ Ok /\ UNCHANGED <<buffer, redis, told, reports, overlap>>

CommercialSpam(m) == run[m].route = "spam"
HumanHandoffAlert(m) == reports' = reports \cup {Report(m, "business.human_handoff")}

SetPersonalBlock(m) ==
    /\ At(m, "set_personal_block")
    /\ \/ /\ Ok /\ personal_block' = TRUE
          /\ \/ CommercialSpam(m) /\ End(m, "spam")
             \/ ~CommercialSpam(m) /\ HumanHandoffAlert(m) /\ GoTo(m, "push_memory")
       \/ Fail /\ ErrorReport12(m) /\ UNCHANGED personal_block
    /\ UNCHANGED <<buffer, chat_block, pending, named, told, overlap>>

\* The services or the professionals. Without the cache the answer says that they
\* could not be listed; without the API there is none.
ServicesList(m) ==
    /\ At(m, "list")
    /\ \/ Ok /\ Continue(m, "push_memory")
       \/ Fail /\ reports' = reports \cup {Report(m, "internal.redis.context")} /\ GoTo(m, "push_memory")
       \/ Fail /\ StopAndError(m, "internal.api.get_service")
    /\ UNCHANGED <<buffer, redis, told, overlap>>

\* What follows the client: its appointments, or the agent.
AfterClient(m) == IF run[m].route = "appointments" THEN "push_memory" ELSE "get_pending_1"

\* The client is known by name, or is asked for it.
Client(m) ==
    /\ At(m, "client")
    /\ \/ Ok /\ named /\ Continue(m, AfterClient(m)) /\ UNCHANGED <<pending, told>>
       \/ Ok /\ ~named /\ Continue(m, "ask_name") /\ Tell(m, "reply") /\ pending' = "awaiting_name"
       \/ Fail /\ StopAndError(m, "internal.api.get_client") /\ UNCHANGED <<pending, told>>
    /\ UNCHANGED <<buffer, chat_block, personal_block, named, overlap>>

DeleteAskedBuffer(m) ==
    /\ At(m, "ask_name")
    /\ \/ Ok /\ buffer' = {} /\ Continue(m, AfterClient(m))
       \/ /\ Fail /\ PromptBufferReport(m) /\ UNCHANGED buffer
          /\ run' = [run EXCEPT ![m].pc = AfterClient(m), ![m].kept = TRUE]
    /\ UNCHANGED <<redis, told, overlap>>

\* Whatever the chat waits for by now, the agent is not asked.
GetPending1(m) ==
    /\ At(m, "get_pending_1")
    /\ \/ Ok /\ HasPending /\ End(m, "diverted")
             /\ overlap' = (overlap \/ pending # "awaiting_name")
       \/ Ok /\ ~HasPending /\ Continue(m, "ai_agent") /\ UNCHANGED overlap
       \/ Fail /\ ErrorReport11(m) /\ UNCHANGED overlap
    /\ UNCHANGED <<buffer, redis, told>>

\* Mutant of AiAgent: the buffer is taken before the agent is asked.
AiAgentTakesBuffer(m) ==
    /\ At(m, "ai_agent") /\ buffer' = {}
    /\ \/ Ok /\ Continue(m, "delete_buffer")
       \/ Fail /\ ErrorReport13(m)
    /\ UNCHANGED <<redis, told, overlap>>

AiAgent(m) ==
    /\ At(m, "ai_agent")
    /\ \/ Ok /\ Continue(m, "delete_buffer")
       \/ Fail /\ ErrorReport13(m)
    /\ UNCHANGED <<buffer, redis, told, overlap>>

PushMemory(m) ==
    /\ At(m, "push_memory") /\ GoTo(m, "push_memory_1")
    /\ \/ Ok /\ UNCHANGED reports
       \/ Fail /\ ErrorReport23(m)
    /\ UNCHANGED <<buffer, redis, told, overlap>>

PushMemory1(m) ==
    /\ At(m, "push_memory_1") /\ GoTo(m, "delete_buffer")
    /\ \/ Ok /\ UNCHANGED reports
       \/ Fail /\ ErrorReport24(m)
    /\ UNCHANGED <<buffer, redis, told, overlap>>

\* The branch above the sending one: it runs first.
DeleteBuffer(m) ==
    /\ At(m, "delete_buffer")
    /\ \/ Ok /\ buffer' = {} /\ Continue(m, "send_response")
       \/ /\ Fail /\ ErrorReport18(m) /\ UNCHANGED buffer
          /\ run' = [run EXCEPT ![m].pc = "send_response", ![m].kept = TRUE]
    /\ UNCHANGED <<redis, told, overlap>>

SendResponse(m) ==
    /\ At(m, "send_response")
    /\ \/ Ok /\ Tell(m, "reply") /\ End(m, "done")
       \/ Fail /\ ErrorReport10(m) /\ UNCHANGED told
    /\ UNCHANGED <<buffer, redis, overlap>>

-----------------------------------------------------------------------------
\* The error workflow, the panel, and the keys that expire.

ErrorTrigger(r) ==
    /\ r \in reports /\ reports' = reports \ {r}
    /\ IF "client" \in Addressees(r.type, r.named)
       THEN (Ok /\ Tell(r.message, "apology")) \/ (Fail /\ Tell(r.message, "lost"))
       ELSE (Ok \/ Fail) /\ UNCHANGED told
    /\ UNCHANGED <<buffer, redis, run, overlap>>

\* The client is given a name in the panel; nothing tells the chat.
ClientUpdate ==
    /\ ~named /\ named' = TRUE
    /\ overlap' = (overlap \/ pending = "awaiting_name" \/ \E e \in Messages : At(e, "call_state"))
    /\ UNCHANGED <<buffer, chat_block, personal_block, pending, run, told, reports, failures>>

ChatBlockExpires ==
    /\ chat_block /\ chat_block' = FALSE
    /\ UNCHANGED <<buffer, personal_block, pending, named, run, told, reports, failures, overlap>>
PersonalBlockExpires ==
    /\ personal_block /\ personal_block' = FALSE
    /\ UNCHANGED <<buffer, chat_block, pending, named, run, told, reports, failures, overlap>>

Step(m) ==
    \/ GetPersonalBlock(m) \/ SetTimeout(m) \/ GetTimeout(m) \/ GetToken(m) \/ BusinessContext(m)
    \/ GetOutsideHoursPending(m) \/ SetOutsideHoursPending(m) \/ DeleteNoticeBuffer(m) \/ SendNotice(m)
    \/ GetPending(m) \/ CallState(m) \/ DeletePromptBuffer(m) \/ Transcribe(m)
    \/ PushBuffer(m) \/ GetBuffer1(m) \/ GetBuffer2(m) \/ GetMemories1(m) \/ TextClassifier(m)
    \/ SetPersonalBlock(m) \/ ServicesList(m) \/ Client(m) \/ DeleteAskedBuffer(m) \/ GetPending1(m)
    \/ AiAgent(m) \/ PushMemory(m) \/ PushMemory1(m) \/ DeleteBuffer(m) \/ SendResponse(m)

Next ==
    \/ \E m \in Messages : Step(m)
    \/ \E r \in reports : ErrorTrigger(r)
    \/ ClientUpdate \/ ChatBlockExpires \/ PersonalBlockExpires

Spec == Init /\ [][Next]_vars
\* n8n runs every started execution to its end; a message may never come, but
\* then its execution was never started: it is fair once it passed the first node.
FairSpec ==
    /\ Spec
    /\ \A m \in Messages : WF_vars(Step(m) /\ ~At(m, "get_personal_block"))
    /\ WF_vars(\E r \in reports : ErrorTrigger(r))

-----------------------------------------------------------------------------
\* Properties.

Replied(e) == "reply" \in told[e]
Answered(m) == \E e \in Messages : m \in run[e].text /\ Replied(e)

\* A message that was pushed waits in the buffer, or is in the text of an
\* execution that replied, is about to, or failed to send: deleting the buffer
\* takes no other message with it, unless executions were in each other's way
\* (overlap). That a notice out of hours does take what waits is the code's.
NothingLost ==
    \A m \in Messages : run[m].pushed /\ ~overlap =>
        \/ m \in buffer
        \/ \E e \in Messages :
              /\ m \in run[e].text
              /\ Replied(e) \/ At(e, "send_response") \/ run[e].why = "external.evo.send_message"

\* No message is answered by two executions, unless they overlapped or the
\* buffer could not be deleted.
AnsweredOnce ==
    \A e, f \in Messages : e # f /\ Replied(e) /\ Replied(f) =>
        \/ run[e].text \cap run[f].text = {}
        \/ overlap \/ run[e].kept \/ run[f].kept

\* Failures the client is not told of: those without a customer message, and
\* those whose report is unreadable or could not be sent on.
Mute(e) ==
    \/ Kind[e] = "quoted" \/ "lost" \in told[e]
    \/ run[e].why \in {"external.evo.send_message", "internal.api.get_client", "internal.api.client_name",
                       "internal.api.get_service"}

\* At rest, and if executions were not in each other's way, a client whose message
\* was taken and not answered was spam, or has been told of the failure that kept
\* a later execution from answering it.
SilenceExplained ==
    (\A m \in Messages : run[m].pc \in Ended) /\ reports = {} /\ ~overlap =>
        \A m \in Messages : run[m].pushed /\ ~Answered(m) =>
            \E e \in Messages :
                \/ At(e, "spam") /\ m \in run[e].text
                \/ /\ At(e, "failed") /\ (run[e].pushed \/ run[e].why = "internal.redis.buffer")
                   /\ "apology" \in told[e] \/ Mute(e)

\* Of a burst of messages somebody is the last to read the buffer: every message is
\* answered, or judged as spam, unless a call failed or executions were in each
\* other's way (a notice out of hours among them).
EventuallyAnswered ==
    \A m \in Messages \ FromHuman :
        run[m].pushed ~> \/ Answered(m) \/ overlap \/ failures > 0
                        \/ \E e \in Messages : At(e, "spam") /\ m \in run[e].text
=============================================================================
