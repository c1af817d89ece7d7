--------------------------- MODULE AppointmentTool ---------------------------
(***************************************************************************)
(* The tool with which the assistant books, moves, cancels and reads        *)
(* appointments (the tool branch of appointments-prod): the call to the     *)
(* API, the contexts of the professional and the service, and the e-mail to *)
(* the professional, which a search of the sent mail and a claim in Redis   *)
(* keep from being sent twice. An execution per call, all at once.          *)
(***************************************************************************)
EXTENDS ContextCache

CONSTANTS
    Calls,       \* executions: calls of the tool about the appointment, or other tools' reads
    MessageOf,   \* call -> the client's message it comes from
    Starts,      \* starts the appointment may have
    professional, service   \* whose the appointment is

ASSUME ToolAssumption ==
    /\ Calls = Reads
    /\ professional \in Professionals /\ service \in Services

VARIABLES
    appointment,   \* the row: its status (None before it is created) and start
    call,          \* call -> node it calls next, action, the appointment it read, who is told
    sent,          \* the event keys of the mails in the sent folder
    claims,        \* the event keys claimed in Redis
    told,          \* what the last mail said of the appointment
    mailedTwice,   \* history: a mail was sent whose event key was in the sent folder
    unguarded,     \* history: the search for a sent mail or the claim failed
    overlap,       \* history: a call started while another one was running
    repeated       \* history: a change had the event key of an earlier one

toolVars == <<appointment, call, sent, claims, told, mailedTwice, unguarded, overlap, repeated>>
vars == <<cacheVars, toolVars>>

Actions == {"post", "update", "cancel", "get"}
NotRunning == {"idle", "reading", "returned", "failed"}
Idle == [pc |-> "idle", action |-> "get", start |-> None, seen |-> None, asOf |-> 0,
         email |-> None, service |-> None, unsent |-> FALSE]

Init ==
    /\ CacheInit
    /\ appointment \in [status : {None, "scheduled"}, start : Starts]
    /\ call = [e \in Calls |-> Idle]
    /\ sent = {} /\ claims = {} /\ told = appointment
    /\ mailedTwice = FALSE /\ unguarded = FALSE /\ overlap = FALSE /\ repeated = FALSE

At(e, pc) == call[e].pc = pc
GoTo(e, pc) == call' = [call EXCEPT ![e].pc = pc]
StopAndError(e) == GoTo(e, "failed")

\* Wrong or missing data, a conflict, and a call that fails.
ErrorReport20(e) == StopAndError(e)
ErrorReport19(e) == StopAndError(e)
ErrorReport21(e) == StopAndError(e)
ErrorReport18(e) == StopAndError(e)
ErrorReport16(e) == StopAndError(e)
\* A mail that fails is reported, and the tool answers as if it was sent.
Unsent(e) == call' = [call EXCEPT ![e].pc = "return_context", ![e].unsent = TRUE]
ErrorReport24(e) == Unsent(e)
ErrorReport26(e) == Unsent(e)
ErrorReport(e) == Unsent(e)

-----------------------------------------------------------------------------
\* The call.

\* A delete is a cancel, a missing action a get. (An unknown one matches no output
\* of the switch behind: nothing is called.)
DataHandler(action) ==
    CASE action = "delete" -> "cancel"
      [] action = "" -> "get"
      [] OTHER -> action

Webhook(e) ==
    /\ At(e, "idle") /\ Ok
    /\ \E asked \in Actions \cup {"delete", ""}, start \in Starts, byId \in BOOLEAN :
          LET action == DataHandler(asked) IN
          call' = [call EXCEPT ![e].action = action, ![e].start = IF action \in {"post", "update"} THEN start ELSE None,
             ![e].pc = CASE action = "post" -> "post"
                         [] action = "update" -> "patch"
                         [] action = "cancel" \/ (action = "get" /\ byId) -> "get_by_id"
                         [] OTHER -> "get_by_client"]
    /\ overlap' = (overlap \/ \E f \in Calls \ {e} : call[f].pc \notin NotRunning)
    /\ UNCHANGED <<row, entry, update, read, behind, appointment, sent, claims, told, mailedTwice, unguarded, repeated>>

Seen(e, new) ==
    call' = [call EXCEPT ![e].pc = "professional_context", ![e].seen = new, ![e].asOf = Confirmed(professional)]

\* A call whose answer is lost may have changed the row.
Write(e, allowed, new, report) ==
    /\ \/ Ok /\ allowed /\ appointment' = new /\ Seen(e, new)
       \/ Ok /\ ~allowed /\ report /\ UNCHANGED appointment
       \/ Fail /\ report /\ appointment' \in {appointment} \cup (IF allowed THEN {new} ELSE {})
    /\ UNCHANGED <<row, entry, update, read, behind, sent, claims, told, mailedTwice, unguarded, overlap, repeated>>

Post(e) ==
    /\ At(e, "post")
    /\ Write(e, appointment.status = None, [status |-> "scheduled", start |-> call[e].start], ErrorReport20(e))

Patch(e) ==
    /\ At(e, "patch")
    /\ Write(e, appointment.status = "scheduled", [appointment EXCEPT !.start = call[e].start], ErrorReport19(e))

\* The canceled appointment keeps what was read of it before the contexts.
Cancel(e) ==
    /\ At(e, "cancel")
    /\ \/ /\ Ok /\ appointment.status = "scheduled" /\ appointment' = [appointment EXCEPT !.status = "canceled"]
          /\ call' = [call EXCEPT ![e].pc = "prepare_email", ![e].seen.status = "canceled"]
       \/ Ok /\ appointment.status # "scheduled" /\ ErrorReport21(e) /\ UNCHANGED appointment
       \/ /\ Fail /\ ErrorReport21(e)
          /\ appointment' \in {appointment} \cup
                (IF appointment.status = "scheduled" THEN {[appointment EXCEPT !.status = "canceled"]} ELSE {})
    /\ UNCHANGED <<row, entry, update, read, behind, sent, claims, told, mailedTwice, unguarded, overlap, repeated>>

Read(e, none, report) ==
    /\ \/ Ok /\ appointment.status # None /\ Seen(e, appointment)
       \/ Ok /\ appointment.status = None /\ none
       \/ Fail /\ report
    /\ UNCHANGED <<row, entry, update, read, behind, appointment, sent, claims, told, mailedTwice, unguarded, overlap, repeated>>

GetAppointmentById(e) == At(e, "get_by_id") /\ Read(e, ErrorReport18(e), ErrorReport18(e))
GetByClient(e) == At(e, "get_by_client") /\ Read(e, GoTo(e, "returned"), ErrorReport16(e))

-----------------------------------------------------------------------------
\* The contexts, reads of the other two workflows. The tool stops if they do.

NoChange == UNCHANGED <<appointment, sent, claims, told, mailedTwice, unguarded, overlap, repeated>>

ProfessionalContext(e) ==
    /\ At(e, "professional_context") /\ GoTo(e, "professional")
    /\ StartRead(e, professional, "id", TRUE)
    /\ NoChange /\ UNCHANGED <<row, entry, update, behind>>

ServiceContext(e) ==
    /\ At(e, "professional") /\ read[e].pc \in {"done", "failed"} /\ Ok
    /\ IF ReadAt(e, "failed") THEN StopAndError(e) /\ UNCHANGED read
       ELSE /\ call' = [call EXCEPT ![e].pc = "service", ![e].email = read[e].got]
            /\ read' = [read EXCEPT ![e] = [NotReading EXCEPT
                          !.pc = "get_context_1", !.item = service, !.since = Confirmed(service)]]
    /\ NoChange /\ UNCHANGED <<row, entry, update, behind>>

\* Mutant of Action1: a moved appointment is answered like one that was read.
OnlyNewIsMailed(action) ==
    CASE action = "cancel" -> "cancel"
      [] action = "post" -> "prepare_email"
      [] OTHER -> "return_context"

\* After the contexts a cancel goes on to the API, a get is answered, a change mailed.
Action1(action) ==
    CASE action = "cancel" -> "cancel"
      [] action = "get" -> "return_context"
      [] OTHER -> "prepare_email"

AppointmentContext(e) ==
    /\ At(e, "service") /\ read[e].pc \in {"done", "failed"} /\ Ok
    /\ IF ReadAt(e, "failed") THEN StopAndError(e)
       ELSE call' = [call EXCEPT ![e].pc = Action1(call[e].action), ![e].service = read[e].got]
    /\ NoChange /\ UNCHANGED <<row, entry, update, read, behind>>

-----------------------------------------------------------------------------
\* The mail. Its key names the change, the address and the client's message.

EventKey(e) ==
    [action |-> call[e].action, start |-> call[e].seen.start, recipient |-> call[e].email,
     message |-> MessageOf[e]]

\* Without a professional or a service the mail would have holes.
CanSendEmail(e) == call[e].email # None /\ call[e].service # None

PrepareEmailNotification(e) ==
    /\ At(e, "prepare_email") /\ Ok
    /\ GoTo(e, IF CanSendEmail(e) THEN "find_sent" ELSE "return_context")
    /\ repeated' = (repeated \/ (EventKey(e) \in sent \cup claims /\ told # call[e].seen))
    /\ UNCHANGED <<row, entry, update, read, behind, appointment, sent, claims, told, mailedTwice, unguarded, overlap>>

\* Mutant of EmailAlreadySent: any mail about the appointment.
AnyEmailSent(e) == sent # {}
EmailAlreadySent(e) == EventKey(e) \in sent

FindSentNotification(e) ==
    /\ At(e, "find_sent")
    /\ \/ /\ Ok /\ GoTo(e, IF EmailAlreadySent(e) THEN "return_context" ELSE "claim")
          /\ UNCHANGED unguarded
       \/ Fail /\ GoTo(e, "claim") /\ unguarded' = TRUE
    /\ UNCHANGED <<row, entry, update, read, behind, appointment, sent, claims, told, mailedTwice, overlap, repeated>>

\* Mutant of NotificationClaimed: whoever counts sends.
AlwaysClaimed(e) == TRUE
NotificationClaimed(e) == EventKey(e) \notin claims

\* A claim that cannot be made does not keep the mail back.
ClaimNotification(e) ==
    /\ At(e, "claim")
    /\ \/ /\ Ok /\ claims' = claims \cup {EventKey(e)}
          /\ GoTo(e, IF NotificationClaimed(e) THEN "send" ELSE "return_context")
          /\ UNCHANGED unguarded
       \/ Fail /\ GoTo(e, "send") /\ claims' \in {claims, claims \cup {EventKey(e)}} /\ unguarded' = TRUE
    /\ UNCHANGED <<row, entry, update, read, behind, appointment, sent, told, mailedTwice, overlap, repeated>>

Mails(e) ==
    /\ sent' = sent \cup {EventKey(e)} /\ told' = call[e].seen
    /\ mailedTwice' = (mailedTwice \/ EventKey(e) \in sent)

\* A mail whose answer is lost may have been sent.
SendEmail(e, action, report) ==
    /\ At(e, "send") /\ call[e].action = action
    /\ \/ Ok /\ GoTo(e, "return_context") /\ Mails(e)
       \/ Fail /\ report /\ (Mails(e) \/ UNCHANGED <<sent, told, mailedTwice>>)
    /\ UNCHANGED <<row, entry, update, read, behind, appointment, claims, unguarded, overlap, repeated>>

ConfirmationEmail(e) == SendEmail(e, "post", ErrorReport24(e))
UpdateEmail(e) == SendEmail(e, "update", ErrorReport26(e))
DeleteEmail(e) == SendEmail(e, "cancel", ErrorReport(e))

ReturnContext(e) ==
    /\ At(e, "return_context") /\ Ok /\ GoTo(e, "returned")
    /\ NoChange /\ UNCHANGED <<row, entry, update, read, behind>>

\* A claim lives 300 seconds: longer than the calls between the search for the
\* mail and the mail.
ClaimExpires(key) ==
    /\ key \in claims /\ Ok /\ claims' = claims \ {key}
    /\ \A e \in Calls : call[e].pc \in {"claim", "send"} => EventKey(e) # key
    /\ UNCHANGED <<row, entry, update, read, behind, appointment, call, sent, told, mailedTwice, unguarded, overlap, repeated>>

CallStep(e) ==
    \/ Webhook(e) \/ Post(e) \/ Patch(e) \/ Cancel(e) \/ GetAppointmentById(e) \/ GetByClient(e)
    \/ ProfessionalContext(e) \/ ServiceContext(e) \/ AppointmentContext(e)
    \/ PrepareEmailNotification(e) \/ FindSentNotification(e) \/ ClaimNotification(e)
    \/ ConfirmationEmail(e) \/ UpdateEmail(e) \/ DeleteEmail(e) \/ ReturnContext(e)

\* The assistant's other tools read the same contexts, by name or as a list.
AgentReads(e) ==
    /\ At(e, "idle") /\ GoTo(e, "reading")
    /\ \E i \in Items, by \in {"list", "id", "name"} : StartRead(e, i, by, FALSE)
    /\ NoChange /\ UNCHANGED <<row, entry, update, behind>>

Next ==
    \/ \E e \in Calls : CallStep(e) \/ AgentReads(e)
    \/ \E key \in claims : ClaimExpires(key)
    \/ /\ UNCHANGED toolVars
       /\ \/ \E r \in Reads : ReadStep(r)
          \/ ApiStep

Spec == Init /\ [][Next]_vars

-----------------------------------------------------------------------------
\* Properties.

\* The mail about a change goes to the professional's address of that moment or a
\* later one: no cached address, however old, is used (README.md:270).
RecipientCurrent ==
    \A e \in Calls : At(e, "send") => call[e].email >= call[e].asOf

\* However often the assistant repeats a call for one message, however the calls
\* overlap, and whatever else fails, the professional gets one mail for it: only a
\* search of the sent mail or a claim that failed may lead to a second one.
MailedOnce == mailedTwice => unguarded

\* And none is kept back but for a mail that says the same: whoever returns
\* without having mailed leaves it to another call that still does, or whose mail
\* failed, or could not read the service.
EveryChangeMailed ==
    \A e \in Calls : At(e, "returned") /\ call[e].action # "get" =>
        \/ EventKey(e) \in sent
        \/ \E f \in Calls : (At(f, "send") \/ call[f].unsent) /\ EventKey(f) = EventKey(e)
        \/ call[e].service = None /\ failures > 0

\* At rest the last mail says how the appointment is, unless calls overlapped or
\* one failed, or one message made the same change twice with another between.
LastMailTrue ==
    (\A e \in Calls : call[e].pc \in NotRunning) /\ failures = 0 /\ ~overlap /\ ~repeated =>
        told = appointment
=============================================================================
