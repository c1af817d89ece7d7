------------------------- MODULE EvolutionInstance -------------------------
(***************************************************************************)
(* The WhatsApp instance of one business: EvolutionInstanceService keeping  *)
(* a row of evolution_instances in step with the instance of that name in   *)
(* the Evolution API, an external service that a phone connects to.         *)
(*                                                                         *)
(* A request is an async handler cut at its awaits: between two of its      *)
(* calls other requests run, answers get lost, the phone comes and goes.    *)
(* It reads the row once, holds no lock while it waits, and saves what it   *)
(* made of that reading at the end.  The remote name does not change        *)
(* (slug and prefix are constant); phone, remote id and times are left out. *)
(***************************************************************************)
EXTENDS Integers

CONSTANTS
    Integrations,   \* integrations linked to the business
    Keys,           \* primary keys of evolution_instances
    Requests,       \* requests that can be open at once
    None            \* no row, and no integration

Phases == {"idle", "insert", "state", "create", "webhook", "connect", "logout",
           "recheck", "delete", "remove", "save", "error"}
Operations == {"provision", "status", "qrcode", "logout", "delete"}

RemoteState == {"connecting", "open", "close"}
RowState == RemoteState \cup {"creating", "error", "missing"}

Row == [key: Keys, integration: Integrations, state: RowState]

\* The instance in the Evolution API: whether it is there and connected, posts
\* its messages to the webhook, and has a QR code on somebody's screen.
Remote == [state: RemoteState \cup {"none"}, webhook: BOOLEAN, scannable: BOOLEAN]
NoRemote == [state |-> "none", webhook |-> FALSE, scannable |-> FALSE]

\* An open request: the row as it read it, the state it will save, and
\* whether an answer brought it a QR code.
Request == [pc: Phases, op: Operations, integration: Integrations \cup {None},
            seen: Row \cup {None}, state: RowState, qr: BOOLEAN]

ASSUME NullAssumption == None \notin Row \cup Integrations

VARIABLES
    row,        \* the committed row of the business
    remote,     \* the instance in the Evolution API
    request,    \* the requests
    overlap     \* history: a delete and another request were open together

vars == <<row, remote, request, overlap>>

TypeOK ==
    /\ row \in Row \cup {None}
    /\ remote \in Remote
    /\ request \in [Requests -> Request]
    /\ overlap \in BOOLEAN

Closed == [pc |-> "idle", op |-> "status", integration |-> None, seen |-> None,
           state |-> "creating", qr |-> FALSE]

Open(q) == request[q] # Closed

-----------------------------------------------------------------------------
(* Steps of a request *)

\* The handler starts at phase pc with the row it has read.
Start(q, op, i, pc) ==
    /\ ~Open(q)
    /\ request' = [request EXCEPT ![q] =
           [pc |-> pc, op |-> op, integration |-> i, seen |-> row,
            state |-> IF row = None THEN "creating" ELSE row.state, qr |-> FALSE]]
    /\ overlap' = (overlap \/ \E u \in Requests \ {q} :
                                 Open(u) /\ "delete" \in {op, request[u].op})
    /\ UNCHANGED <<row, remote>>

Goto(q, pc, state, qr) ==
    /\ request' = [request EXCEPT ![q].pc = pc, ![q].state = state, ![q].qr = qr]
    /\ UNCHANGED <<row, overlap>>

Continue(q, pc) == Goto(q, pc, request[q].state, request[q].qr)

\* The answer, an exception, or the death of the worker.
End(q) ==
    /\ request' = [request EXCEPT ![q] = Closed]
    /\ UNCHANGED overlap

\* EvolutionAPIError: the call failed, or only its answer did.
Raise(q) == End(q) /\ UNCHANGED row

\* The row this request read is still there.
SameRow(q) == row # None /\ row.key = request[q].seen.key

\* The UPDATE names the state only if it differs from the one that was read;
\* with the row gone it fails (StaleDataError).
SaveState(q) ==
    row' = IF SameRow(q) /\ request[q].state # request[q].seen.state
           THEN [row EXCEPT !.state = request[q].state] ELSE row

-----------------------------------------------------------------------------
(* Handlers, up to their first await *)

\* Another integration's row is refused (EvolutionInstanceConflictError).
Provision(q, i) ==
    \/ row = None /\ Start(q, "provision", i, "insert")
    \/ row # None /\ row.integration = i /\ Start(q, "provision", i, "state")

Own(i) == row # None /\ row.integration = i

RefreshStatus(q, i) == Own(i) /\ Start(q, "status", i, "state")
RefreshQrCode(q, i) == Own(i) /\ Start(q, "qrcode", i, "webhook")
Logout(q, i) == Own(i) /\ Start(q, "logout", i, "logout")
Delete(q, i) == Own(i) /\ Start(q, "delete", i, "delete")

Fresh(k) == /\ row # None => row.key # k
            /\ \A u \in Requests : request[u].seen # None => request[u].seen.key # k

Adopt(q, r) ==
    /\ request' = [request EXCEPT ![q].pc = "state", ![q].seen = r, ![q].state = r.state]
    /\ UNCHANGED <<remote, overlap>>

\* Mutation of CreateLocalInstance: whoever inserted first is adopted.
CreateOrAdopt(q) ==
    /\ request[q].pc = "insert"
    /\ \/ /\ row = None
          /\ \E k \in Keys :
                /\ Fresh(k)
                /\ row' = [key |-> k, integration |-> request[q].integration,
                           state |-> "creating"]
          /\ Adopt(q, row')
       \/ row # None /\ Adopt(q, row) /\ UNCHANGED row

\* The row is committed before anything is asked of the remote service; the
\* unique constraint tells who was first.
CreateLocalInstance(q) ==
    /\ request[q].pc = "insert"
    /\ \/ /\ row = None
          /\ \E k \in Keys :
                /\ Fresh(k)
                /\ row' = [key |-> k, integration |-> request[q].integration,
                           state |-> "creating"]
          /\ Adopt(q, row')
       \/ Own(request[q].integration) /\ Adopt(q, row) /\ UNCHANGED row
       \/ /\ row # None /\ row.integration # request[q].integration
          /\ Raise(q) /\ UNCHANGED remote

-----------------------------------------------------------------------------
(* Calls of the Evolution API, one per await *)

NotFound(q) ==
    IF request[q].op = "provision" THEN Continue(q, "create")
    ELSE Goto(q, "save", "missing", FALSE)

\* The answer tells the state.  When the call fails, provision saves "error"
\* before it raises.
ConnectionState(q) ==
    /\ request[q].pc = "state"
    /\ \/ remote.state = "none" /\ NotFound(q)
       \/ /\ remote.state # "none"
          /\ Goto(q, IF request[q].op = "provision" THEN "webhook" ELSE "save",
                  remote.state, FALSE)
       \/ request[q].op = "provision" /\ Goto(q, "error", "error", FALSE)
       \/ request[q].op # "provision" /\ Raise(q)
    /\ UNCHANGED remote

CreateInstance(q) ==
    /\ request[q].pc = "create"
    /\ \/ /\ remote.state = "none"
          /\ remote' = [NoRemote EXCEPT !.state = "connecting"]
          /\ Raise(q) \/ \E qr \in BOOLEAN : Goto(q, "webhook", "connecting", qr)
       \/ Raise(q) /\ UNCHANGED remote

AfterWebhook(q) ==
    IF request[q].op = "qrcode" \/ (request[q].state # "open" /\ ~request[q].qr)
    THEN "connect" ELSE "save"

\* Mutation of ConfigureWebhook: a failure is only logged.
ConfigureOrGoOn(q) ==
    /\ request[q].pc = "webhook"
    /\ \/ /\ remote.state # "none"
          /\ remote' = [remote EXCEPT !.webhook = TRUE]
          /\ Continue(q, AfterWebhook(q))
       \/ Continue(q, AfterWebhook(q)) /\ UNCHANGED remote

ConfigureWebhook(q) ==
    /\ request[q].pc = "webhook"
    /\ \/ /\ remote.state # "none"
          /\ remote' = [remote EXCEPT !.webhook = TRUE]
          /\ Raise(q) \/ Continue(q, AfterWebhook(q))
       \/ Raise(q) /\ UNCHANGED remote

\* The answer may name the state; if not, provision keeps the one it had and
\* refresh_qr_code takes "connecting".  An open instance has no QR code.
ConnectInstance(q) ==
    LET default == IF request[q].op = "provision" THEN request[q].state ELSE "connecting" IN
    /\ request[q].pc = "connect"
    /\ \/ /\ remote.state = "open"
          /\ \E s \in {default, "open"} : Goto(q, "save", s, FALSE)
          /\ UNCHANGED remote
       \/ /\ remote.state \in {"connecting", "close"}
          /\ remote' = [remote EXCEPT !.state = "connecting"]
          /\ Raise(q) \/ \E s \in {default, "connecting"} : Goto(q, "save", s, TRUE)
       \/ Raise(q) /\ UNCHANGED remote

LogoutInstance(q) ==
    /\ request[q].pc = "logout"
    /\ \/ /\ remote.state # "none"
          /\ remote' = [remote EXCEPT !.state = "close", !.scannable = FALSE]
          /\ Goto(q, "save", "close", FALSE) \/ Continue(q, "recheck")
       \/ Continue(q, "recheck") /\ UNCHANGED remote

\* A failed logout is taken for done if the instance is found disconnected.
RecheckState(q) ==
    /\ request[q].pc = "recheck"
    /\ \/ remote.state \in {"close", "none"} /\ Goto(q, "save", "close", FALSE)
       \/ Raise(q)
    /\ UNCHANGED remote

\* Mutation of DeleteInstance: the row goes even if the call fails.
DeleteAnyway(q) ==
    /\ request[q].pc = "delete"
    /\ \/ remote' = NoRemote
       \/ UNCHANGED remote
    /\ Continue(q, "remove")

DeleteInstance(q) ==
    /\ request[q].pc = "delete"
    /\ \/ remote' = NoRemote /\ (Continue(q, "remove") \/ Raise(q))
       \/ Raise(q) /\ UNCHANGED remote

-----------------------------------------------------------------------------
(* Commits *)

RemoveInstance(q) ==
    /\ request[q].pc = "remove"
    /\ row' = IF SameRow(q) THEN None ELSE row
    /\ End(q)
    /\ UNCHANGED remote

\* Only the answer after the commit puts the QR code on the screen.
Save(q) ==
    /\ request[q].pc = "save"
    /\ SaveState(q)
    /\ remote' = [remote EXCEPT !.scannable =
                     @ \/ (SameRow(q) /\ request[q].qr /\ remote.state = "connecting")]
    /\ End(q)

SaveError(q) ==
    /\ request[q].pc = "error"
    /\ SaveState(q)
    /\ End(q)
    /\ UNCHANGED remote

Crash(q) == Open(q) /\ Raise(q) /\ UNCHANGED remote

-----------------------------------------------------------------------------
(* The phone *)

Phone(state) ==
    /\ remote' = [remote EXCEPT !.state = state, !.scannable = FALSE]
    /\ UNCHANGED <<row, request, overlap>>

Scan == remote.state = "connecting" /\ remote.scannable /\ Phone("open")
CodeExpires == remote.state = "connecting" /\ Phone("close")
Disconnect == remote.state = "open" /\ Phone("close")

-----------------------------------------------------------------------------

Init ==
    /\ row = None
    /\ remote = NoRemote
    /\ request = [q \in Requests |-> Closed]
    /\ overlap = FALSE

Handle(q) == \E i \in Integrations :
    Provision(q, i) \/ RefreshStatus(q, i) \/ RefreshQrCode(q, i) \/ Logout(q, i) \/ Delete(q, i)

Proceed(q) ==
    \/ CreateLocalInstance(q)
    \/ ConnectionState(q) \/ CreateInstance(q) \/ ConfigureWebhook(q)
    \/ ConnectInstance(q) \/ LogoutInstance(q) \/ RecheckState(q) \/ DeleteInstance(q)
    \/ RemoveInstance(q) \/ Save(q) \/ SaveError(q)

Next ==
    \/ \E q \in Requests : Handle(q) \/ Proceed(q) \/ Crash(q)
    \/ Scan \/ CodeExpires \/ Disconnect

Spec == Init /\ [][Next]_vars

-----------------------------------------------------------------------------
(* Properties *)

\* Without a delete in the way, an instance in the Evolution API always has
\* its row: whatever call fails or loses its answer and wherever the worker
\* dies, the row comes first and goes last.
NoOrphan == ~overlap => (remote.state # "none" => row # None)

\* Without a delete in the way, whoever talks to the instance works on the
\* present row, and for the integration that owns it.
WorksForOwner ==
    ~overlap => \A q \in Requests :
        request[q].pc \notin {"idle", "insert"} =>
            SameRow(q) /\ row.integration = request[q].integration

\* Without a delete in the way, a phone is only ever connected to an instance
\* whose messages reach the workflows: no QR code is shown before the webhook
\* is set, whichever of several requests set it or failed to.
OpenHasWebhook == ~overlap => (remote.state = "open" => remote.webhook)
=============================================================================
