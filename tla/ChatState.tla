------------------------------ MODULE ChatState ------------------------------
(***************************************************************************)
(* What a chat's key `state` makes of its messages, and who writes it: the  *)
(* notice out of attendance hours (main-prod), the question for the         *)
(* client's name (clients-prod) and the hourly resume (pending state-prod). *)
(* An execution per message, all at once; a step is a call to Redis, to the *)
(* API or to WhatsApp. The messages' buffer is left to MessageBuffer.       *)
(***************************************************************************)
EXTENDS Naturals

CONSTANTS
    Messages, Chats,
    ChatOf,       \* message -> its chat
    GivesName,    \* the messages with a name in them
    NoHours,      \* chats of businesses without opening hours
    None,
    MaxOpenings,  \* bound: times a business opens
    MaxFailures   \* bound: calls that fail

ASSUME ChatAssumption ==
    /\ ChatOf \in [Messages -> Chats]
    /\ GivesName \subseteq Messages /\ NoHours \subseteq Chats
    /\ None \notin Messages \cup Chats \cup Nat
    /\ None \notin {"awaiting_name", "outside_business_hours", "nameless", "named", "panel"}
    /\ {"absent", "nameless", "panel"} \cap Messages = {}
    /\ MaxOpenings \in Nat /\ MaxFailures \in Nat

VARIABLES
    open,      \* chat -> its business's attendance is open
    opened,    \* chat -> how often it opened
    state,     \* chat -> key state: None, "awaiting_name" or "outside_business_hours"
    context,   \* chat -> key outside_hours_context: None or the opening it waits for
    api,       \* chat -> the client in the API: "absent", "nameless", the message that named it,
               \* or "panel" if its name was given there
    panel,     \* chats whose client was stored by the panel and is still cached as it was
    cache,     \* chat -> key client_context: None, "nameless" or "named"
    run,       \* message -> its execution
    resume,    \* the execution of the hourly schedule
    noticed,   \* history: the openings a chat was told to wait for since its context last expired
    stale,     \* history: the executions that have read a state that changed since
    raced,     \* history: the chats of which something was written that had changed since it was read
    failures

keys == <<state, context, cache>>
hours == <<open, opened>>
clients == <<api, panel>>
history == <<noticed, stale, raced>>
vars == <<hours, keys, clients, run, resume, history, failures>>

Never == MaxOpenings + 1
Ended == {"notified", "dropped", "answered", "asked", "named", "failed"}
Idle == [pc |-> "idle", chat |-> None, until |-> None, due |-> {}]

Init ==
    /\ open \in [Chats -> BOOLEAN] /\ \A c \in NoHours : ~open[c]
    /\ opened = [c \in Chats |-> 0]
    /\ state = [c \in Chats |-> None] /\ context = [c \in Chats |-> None]
    /\ api \in [Chats -> {"absent", "nameless"}] /\ panel = {} /\ cache = [c \in Chats |-> None]
    /\ run = [m \in Messages |->
                 [pc |-> "guard", pending |-> None, until |-> 0, client |-> "absent", why |-> ""]]
    /\ resume = Idle
    /\ noticed = [c \in Chats |-> {}] /\ stale = {} /\ raced = {} /\ failures = 0

-----------------------------------------------------------------------------
At(m, pc) == run[m].pc = pc
Fail == failures < MaxFailures /\ failures' = failures + 1
Ok == UNCHANGED failures
GoTo(m, pc) == run' = [run EXCEPT ![m].pc = pc]
StopAndError(m, type) == run' = [run EXCEPT ![m].pc = "failed", ![m].why = type]
CallError(m, type, pc) == run' = [run EXCEPT ![m].pc = pc, ![m].why = type]

\* main-prod
ErrorReport2(m) == StopAndError(m, "internal.redis.get_pending")
Unreported(m) == StopAndError(m, "unknown")
\* clients-prod
ErrorReport(m) == StopAndError(m, "internal.api.post_client")
ErrorReport1(m) == StopAndError(m, "internal.api.get_client")
ErrorReport12(m) == StopAndError(m, "internal.redis.context")
ErrorReport13(m) == StopAndError(m, "internal.api.get_client")
ErrorReport14(m) == StopAndError(m, "internal.api.client_name")
ErrorReport15(m) == StopAndError(m, "external.evo.send_message")
ErrorReport16(m) == StopAndError(m, "internal.redis.set_pending")
ErrorReport17(m) == StopAndError(m, "internal.redis.delete_pending")
ErrorReport18(m) == StopAndError(m, "external.evo.send_message")
ErrorReport19(m) == StopAndError(m, "internal.redis.set_pending")
ErrorReport21(m, pc) == CallError(m, "internal.redis.context", pc)
ErrorReport23(m, pc) == CallError(m, "external.ai.name_extractor", pc)

\* by writes the state of c: others that have read it hold a stale value now.
Readers(c) ==
    {m \in Messages : ChatOf[m] = c /\ run[m].pc \notin Ended \cup {"guard", "get_outside_pending", "get_pending"}}
Put(by, c, value) ==
    /\ state' = [state EXCEPT ![c] = value]
    /\ raced' = IF by \in stale THEN raced \cup {c} ELSE raced
    /\ stale' = IF state[c] = value THEN stale ELSE stale \cup (Readers(c) \ {by})
WriteState(m, value, pc) == Put(m, ChatOf[m], value) /\ GoTo(m, pc)

-----------------------------------------------------------------------------
\* main-prod: a message out of hours is answered with a notice, once.

OutsideBusinessHours(c) == ~open[c]
NextAllowedAt(c) == IF c \in NoHours THEN Never ELSE opened[c] + 1

BusinessHoursGuard(m) ==
    LET c == ChatOf[m] IN
    /\ At(m, "guard") /\ Ok
    /\ run' = [run EXCEPT ![m].pc = IF OutsideBusinessHours(c) THEN "get_outside_pending" ELSE "get_pending",
                          ![m].until = NextAllowedAt(c)]
    /\ UNCHANGED <<hours, keys, clients, resume, history>>

GetOutsideHoursPending(m) ==
    /\ At(m, "get_outside_pending")
    /\ \/ Ok /\ run' = [run EXCEPT ![m].pc = "get_outside_context", ![m].pending = state[ChatOf[m]]]
       \/ Fail /\ ErrorReport2(m)
    /\ UNCHANGED <<hours, keys, clients, resume, history>>

\* Mutant of AlreadyNotified: the chat is not asked.
NeverNotified(m) == FALSE
AlreadyNotified(m) == context[ChatOf[m]] # None

GetOutsideHoursContext(m) ==
    /\ At(m, "get_outside_context")
    /\ \/ Ok /\ GoTo(m, IF AlreadyNotified(m) THEN "notified" ELSE "set_outside_pending")
       \/ Fail /\ ErrorReport2(m)
    /\ UNCHANGED <<hours, keys, clients, resume, history>>

PendingStateToWrite(m) == IF run[m].pending = None THEN "outside_business_hours" ELSE run[m].pending

SetOutsideHoursPending(m) ==
    /\ At(m, "set_outside_pending")
    /\ \/ Ok /\ WriteState(m, PendingStateToWrite(m), "set_outside_context")
       \/ Fail /\ Unreported(m) /\ UNCHANGED <<state, stale, raced>>
    /\ UNCHANGED <<hours, context, cache, clients, resume, noticed>>

\* Mutant of SetOutsideHoursContext: the branch of the notice is not taken.
SetContextOnly(m) ==
    /\ At(m, "set_outside_context") /\ Ok /\ GoTo(m, "notified")
    /\ context' = [context EXCEPT ![ChatOf[m]] = run[m].until]
    /\ UNCHANGED <<hours, state, cache, clients, resume, history>>
SetOutsideHoursContext(m) ==
    /\ At(m, "set_outside_context")
    /\ \/ /\ Ok /\ GoTo(m, "send_notice")
          /\ context' = [context EXCEPT ![ChatOf[m]] = run[m].until]
          /\ raced' = IF AlreadyNotified(m) THEN raced \cup {ChatOf[m]} ELSE raced
       \/ Fail /\ Unreported(m) /\ UNCHANGED <<context, raced>>
    /\ UNCHANGED <<hours, state, cache, clients, resume, noticed, stale>>

SendNotice(m) ==
    /\ At(m, "send_notice")
    /\ \/ /\ Ok /\ GoTo(m, "notified")
          /\ noticed' = [noticed EXCEPT ![ChatOf[m]] = @ \cup {run[m].until}]
       \/ Fail /\ StopAndError(m, "external.evo.send_message") /\ UNCHANGED noticed
    /\ UNCHANGED <<hours, keys, clients, resume, stale, raced>>

-----------------------------------------------------------------------------
\* pending state-prod: only a question for the name has a way on.

BackToGetName == "get_client_1"

PendingState(value) ==
    CASE value = None -> "get_context"
      [] value = "awaiting_name" -> BackToGetName
      [] OTHER -> "dropped"

\* Some answers need no client, the others look it up.
GetPending(m) ==
    /\ At(m, "get_pending")
    /\ \/ /\ Ok
          /\ \E pc \in {PendingState(state[ChatOf[m]])} \cup
                       (IF state[ChatOf[m]] = None THEN {"answered"} ELSE {}) :
                run' = [run EXCEPT ![m].pc = pc, ![m].pending = state[ChatOf[m]]]
       \/ Fail /\ ErrorReport2(m)
    /\ UNCHANGED <<hours, keys, clients, resume, history>>

-----------------------------------------------------------------------------
\* clients-prod, get: the client by name, or the question.

NamePresent(client) == client \notin {"absent", "nameless", None}
KnownOrAsk(client) == IF NamePresent(client) THEN "answered" ELSE "set_pending_1"

HasData(c) == cache[c] # None

GetContext(m) ==
    LET c == ChatOf[m] IN
    /\ At(m, "get_context")
    /\ \/ Ok /\ GoTo(m, IF HasData(c) THEN KnownOrAsk(cache[c]) ELSE "get_client_2")
       \/ Fail /\ ErrorReport12(m)
    /\ UNCHANGED <<hours, keys, clients, resume, history>>

HasClient(client) == client # "absent"

GetClient2(m) ==
    LET c == ChatOf[m] IN
    /\ At(m, "get_client_2")
    /\ \/ Ok /\ run' = [run EXCEPT ![m].pc = IF HasClient(api[c]) THEN "push_context" ELSE "post_client",
                                   ![m].client = api[c]]
       \/ Fail /\ ErrorReport13(m)
    /\ UNCHANGED <<hours, keys, clients, resume, history>>

\* The API refuses a client that another execution just created.
PostClient(m) ==
    LET c == ChatOf[m] IN
    /\ At(m, "post_client")
    /\ \/ /\ Ok /\ api[c] = "absent" /\ GoTo(m, "set_pending_1")
          /\ api' = [api EXCEPT ![c] = "nameless"] /\ cache' = [cache EXCEPT ![c] = None]
       \/ Ok /\ api[c] # "absent" /\ ErrorReport(m) /\ UNCHANGED <<api, cache>>
       \/ Fail /\ ErrorReport(m) /\ UNCHANGED <<api, cache>>
    /\ UNCHANGED <<hours, state, context, panel, resume, history>>

PushContext2(m) ==
    LET c == ChatOf[m] IN
    /\ At(m, "push_context")
    /\ \/ /\ Ok /\ GoTo(m, KnownOrAsk(run[m].client))
          /\ cache' = [cache EXCEPT ![c] = IF NamePresent(run[m].client) THEN "named" ELSE "nameless"]
          /\ raced' = IF api[c] = run[m].client THEN raced ELSE raced \cup {c}
       \/ Fail /\ ErrorReport21(m, KnownOrAsk(run[m].client)) /\ UNCHANGED <<cache, raced>>
    /\ UNCHANGED <<hours, state, context, clients, resume, noticed, stale>>

SetPendingState1(m) ==
    /\ At(m, "set_pending_1")
    /\ \/ Ok /\ WriteState(m, "awaiting_name", "send_question")
       \/ Fail /\ ErrorReport19(m) /\ UNCHANGED <<state, stale, raced>>
    /\ UNCHANGED <<hours, context, cache, clients, resume, noticed>>

SendResponse(m) ==
    /\ At(m, "send_question")
    /\ \/ Ok /\ GoTo(m, "set_pending")
       \/ Fail /\ ErrorReport15(m)
    /\ UNCHANGED <<hours, keys, clients, resume, history>>

SetPendingState(m) ==
    /\ At(m, "set_pending")
    /\ \/ Ok /\ WriteState(m, "awaiting_name", "asked")
       \/ Fail /\ ErrorReport16(m) /\ UNCHANGED <<state, stale, raced>>
    /\ UNCHANGED <<hours, context, cache, clients, resume, noticed>>

-----------------------------------------------------------------------------
\* clients-prod, name: the answer to the question.

GetClient1(m) ==
    /\ At(m, "get_client_1")
    /\ \/ Ok /\ GoTo(m, "name_extractor")
       \/ Fail /\ ErrorReport1(m)
    /\ UNCHANGED <<hours, keys, clients, resume, history>>

NameInMessage(m) == m \in GivesName

NameExtractor(m) ==
    /\ At(m, "name_extractor")
    /\ \/ Ok /\ GoTo(m, IF NameInMessage(m) THEN "add_name" ELSE "send_question")
       \/ Fail /\ ErrorReport23(m, "send_question")
    /\ UNCHANGED <<hours, keys, clients, resume, history>>

\* The API commits the name, then deletes the cached client.
AddName(m) ==
    /\ At(m, "add_name")
    /\ \/ Ok /\ api' = [api EXCEPT ![ChatOf[m]] = m] /\ GoTo(m, "invalidate")
       \/ Fail /\ ErrorReport14(m) /\ UNCHANGED api
    /\ UNCHANGED <<hours, keys, panel, resume, history>>

InvalidateClientContext(m) ==
    /\ At(m, "invalidate") /\ GoTo(m, "send_thanks")
    /\ \/ Ok /\ cache' = [cache EXCEPT ![ChatOf[m]] = None]
       \/ Fail /\ UNCHANGED cache
    /\ UNCHANGED <<hours, state, context, clients, resume, history>>

SendResponse1(m) ==
    /\ At(m, "send_thanks")
    /\ \/ Ok /\ GoTo(m, "delete_pending")
       \/ Fail /\ ErrorReport18(m)
    /\ UNCHANGED <<hours, keys, clients, resume, history>>

\* Mutant of DeletePending: the branch of the state is not taken.
DeleteNothing(m) == At(m, "delete_pending") /\ Ok /\ GoTo(m, "named") /\ UNCHANGED <<hours, keys, clients, resume, history>>
DeletePending(m) ==
    /\ At(m, "delete_pending")
    /\ \/ Ok /\ WriteState(m, None, "named")
       \/ Fail /\ ErrorReport17(m) /\ UNCHANGED <<state, stale, raced>>
    /\ UNCHANGED <<hours, context, cache, clients, resume, noticed>>

-----------------------------------------------------------------------------
\* The panel and the API's other callers: a client is stored, or its name changed;
\* then the cached client is deleted. The chat's state is not theirs.

ClientCreate(c) ==
    /\ api[c] = "absent" /\ \E client \in {"nameless", "panel"} : api' = [api EXCEPT ![c] = client]
    /\ panel' = panel \cup {c}
    /\ UNCHANGED <<hours, keys, run, resume, history, failures>>

ClientUpdate(c) ==
    /\ api[c] \notin {"absent", "panel"} /\ api' = [api EXCEPT ![c] = "panel"]
    /\ panel' = panel \cup {c}
    /\ UNCHANGED <<hours, keys, run, resume, history, failures>>

InvalidateFromPanel(c) ==
    /\ c \in panel /\ panel' = panel \ {c}
    /\ \/ Ok /\ cache' = [cache EXCEPT ![c] = None]
       \/ Fail /\ UNCHANGED cache
    /\ UNCHANGED <<hours, state, context, api, run, resume, history>>

-----------------------------------------------------------------------------
\* pending state-prod: the hourly resume. KEYS finds every waiting chat, in any
\* order, but the next node looks at the first item only: if that chat is not due
\* the resume is over. due is a history: the chats whose opening had come when the
\* keys were read.

Due(c) == context[c] # None /\ opened[c] >= context[c]
EndResume == resume' = Idle

OutsideHoursResumeSchedule(c) ==
    /\ resume.pc = "idle" /\ context[c] # None /\ Ok
    /\ resume' = IF Due(c) THEN [pc |-> "get_state", chat |-> c, until |-> context[c],
                                 due |-> {d \in Chats : Due(d)}]
                           ELSE Idle
    /\ UNCHANGED <<hours, keys, clients, run, history>>

\* Mutant of ShouldResumeOutsideHours: the condition the other way round.
ShouldNotResume(value) == value = None
ShouldResumeOutsideHours(value) == value # None

GetOutsideHoursState ==
    /\ resume.pc = "get_state"
    /\ \/ Ok /\ LET value == state[resume.chat] IN
             resume' = [resume EXCEPT !.pc = IF ShouldResumeOutsideHours(value) THEN "send" ELSE "delete_context"]
       \/ Fail /\ EndResume
    /\ UNCHANGED <<hours, keys, clients, run, history>>

\* The node takes the instance and the recipient from the item before it, which
\* holds the state alone: it always fails, and the nodes behind it are not reached.
SendOutsideHoursResume ==
    /\ resume.pc = "send" /\ Ok /\ EndResume
    /\ UNCHANGED <<hours, keys, clients, run, history>>

\* So it is only the context of a chat without a state that is deleted, and the
\* deletion of the state "outside_business_hours" that would follow never is due.
DeleteOutsideHoursContext ==
    LET c == resume.chat IN
    /\ resume.pc = "delete_context" /\ EndResume
    /\ \/ /\ Ok /\ context' = [context EXCEPT ![c] = None]
          /\ raced' = IF context[c] = resume.until THEN raced ELSE raced \cup {c}
       \/ Fail /\ UNCHANGED <<context, raced>>
    /\ UNCHANGED <<hours, state, cache, clients, run, noticed, stale>>

-----------------------------------------------------------------------------
\* The clock, and the keys that expire: a question after a day, the state out of
\* hours and its context after a week.

Opens(c) ==
    /\ ~open[c] /\ c \notin NoHours /\ opened[c] < MaxOpenings
    /\ open' = [open EXCEPT ![c] = TRUE] /\ opened' = [opened EXCEPT ![c] = @ + 1]
    /\ UNCHANGED <<keys, clients, run, resume, history, failures>>

Closes(c) ==
    /\ open[c] /\ open' = [open EXCEPT ![c] = FALSE]
    /\ UNCHANGED <<opened, keys, clients, run, resume, history, failures>>

StateExpires(c) ==
    /\ state[c] # None /\ state' = [state EXCEPT ![c] = None]
    /\ stale' = stale \cup Readers(c)
    /\ UNCHANGED <<hours, context, cache, clients, run, resume, noticed, raced, failures>>

\* Written after the state and as long-lived, the context outlives it unless a call
\* failed in between; no execution takes the week from its context to its notice.
ContextExpires(c) ==
    /\ context[c] # None /\ context' = [context EXCEPT ![c] = None]
    /\ state[c] # "outside_business_hours" \/ failures > 0
    /\ \A m \in Messages : ChatOf[m] = c => ~At(m, "send_notice")
    /\ noticed' = [noticed EXCEPT ![c] = {}]
    /\ raced' = IF resume.chat = c THEN raced \cup {c} ELSE raced
    /\ UNCHANGED <<hours, state, cache, clients, run, resume, stale, failures>>

Step(m) ==
    \/ BusinessHoursGuard(m) \/ GetOutsideHoursPending(m) \/ GetOutsideHoursContext(m)
    \/ SetOutsideHoursPending(m) \/ SetOutsideHoursContext(m) \/ SendNotice(m)
    \/ GetPending(m) \/ GetContext(m) \/ GetClient2(m) \/ PostClient(m) \/ PushContext2(m)
    \/ SetPendingState1(m) \/ SendResponse(m) \/ SetPendingState(m)
    \/ GetClient1(m) \/ NameExtractor(m) \/ AddName(m) \/ InvalidateClientContext(m)
    \/ SendResponse1(m) \/ DeletePending(m)

Resume ==
    \/ \E c \in Chats : OutsideHoursResumeSchedule(c)
    \/ GetOutsideHoursState \/ SendOutsideHoursResume \/ DeleteOutsideHoursContext

Panel(c) == ClientCreate(c) \/ ClientUpdate(c) \/ InvalidateFromPanel(c)
Clock(c) == Opens(c) \/ Closes(c) \/ StateExpires(c) \/ ContextExpires(c)

Next ==
    \/ \E m \in Messages : Step(m)
    \/ Resume
    \/ \E c \in Chats : Panel(c) \/ Clock(c)

Spec == Init /\ [][Next]_vars

-----------------------------------------------------------------------------
\* Properties.

\* Something failed, or was overwritten that had changed since it was read.
Excused(c) == c \in raced \/ failures > 0
Resting(c) == \A m \in Messages : ChatOf[m] = c => run[m].pc \in Ended \cup {"guard"}

\* Once a client is known by the name one of its messages gave and its executions
\* are over, the chat is not left waiting for a name: its next message would be
\* stored as one. Of a name given in the panel meanwhile this cannot be said:
\* nothing there takes the question back.
QuestionClosed ==
    \A c \in Chats : state[c] = "awaiting_name" /\ api[c] \in Messages /\ Resting(c) => Excused(c)

\* A chat in the state out of hours, whose messages all are dropped when attendance
\* is open, does wait for an opening: it has a context, or someone is about to write
\* it. The hourly resume takes the one from it only without the other.
DroppedChatsWait ==
    \A c \in Chats : state[c] = "outside_business_hours" /\ context[c] = None =>
        \/ Excused(c)
        \/ \E m \in Messages : ChatOf[m] = c /\ At(m, "set_outside_context")

\* A chat that waits for an opening has been told so, or is being told.
WaitingKnows ==
    \A c \in Chats : context[c] # None =>
        \/ context[c] \in noticed[c] \/ Excused(c)
        \/ \E m \in Messages : ChatOf[m] = c /\ At(m, "send_notice") /\ run[m].until = context[c]

\* However many messages a client writes out of hours, it is told once of an
\* opening to come, as long as its context lasts.
NoticedOnce ==
    [][\A c \in Chats, m \in Messages :
          ChatOf[m] = c /\ At(m, "send_notice") /\ run'[m].pc = "notified" =>
             run[m].until \notin noticed[c] \/ opened[c] >= run[m].until \/ Excused(c)]_vars

\* The notice (main-prod:5047) promises that the contact goes on as soon as the
\* attendance is resumed: a resume in which no call failed for want of luck serves
\* every chat whose opening had come when it started.
ResumesAllDue ==
    [][resume.pc # "idle" /\ resume'.pc = "idle" /\ failures' = 0 =>
          \A c \in resume.due : ~Due(c)']_vars
=============================================================================
