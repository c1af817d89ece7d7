-------------------------- MODULE EvolutionProofs --------------------------
(***************************************************************************)
(* EvolutionInv is inductive: whatever calls fail and wherever a worker     *)
(* dies, no remote instance loses its row, whoever acts owns the row, and   *)
(* no phone is connected before the webhook is set.                         *)
(***************************************************************************)
EXTENDS EvolutionInvariant, TLAPS

-----------------------------------------------------------------------------
(* One request moves on *)

\* A closed request is a request.
LEMMA ClosedType == Closed \in Request
  BY DEF Closed, Request, Phases, Operations, RowState, RemoteState

\* The record a request becomes: closed, or further on in the same operation
\* with the same reading.
FurtherOn(q, r) ==
    \/ r = Closed
    \/ /\ r.pc \notin {"idle", "insert"}
       /\ r.op = request[q].op /\ r.integration = request[q].integration
       /\ r.seen = request[q].seen
       /\ r.pc \in {"delete", "remove"} <=> r.op = "delete"

\* Goto replaces three fields of the request.
LEMMA GotoRecord ==
  ASSUME TypeOK, NEW q \in Requests, NEW pc \in Phases, NEW state \in RowState,
         NEW qr \in BOOLEAN, Goto(q, pc, state, qr)
  PROVE  \E r \in Request :
            /\ request' = [request EXCEPT ![q] = r]
            /\ r.pc = pc /\ r.qr = qr /\ r.op = request[q].op
            /\ r.integration = request[q].integration /\ r.seen = request[q].seen
<1> DEFINE r == [request[q] EXCEPT !.pc = pc, !.state = state, !.qr = qr]
<1>1. r \in Request /\ request' = [request EXCEPT ![q] = r]
  BY DEF TypeOK, Goto, Request
<1>2. /\ r.pc = pc /\ r.qr = qr /\ r.op = request[q].op
      /\ r.integration = request[q].integration /\ r.seen = request[q].seen
  BY DEF TypeOK, Request
<1> QED
  BY <1>1, <1>2

\* A request that has got past the insert moves on and the row keeps its key
\* and owner: what is left to show concerns the remote instance.
LEMMA AdvanceKeeps ==
  ASSUME EvolutionInv, NEW q \in Requests, request[q].pc \notin {"idle", "insert"},
         NEW r \in Request, request' = [request EXCEPT ![q] = r], FurtherOn(q, r),
         row' \in Row \cup {None}, row' = None <=> row = None,
         row # None => row'.key = row.key /\ row'.integration = row.integration,
         overlap' = overlap, remote' \in Remote,
         ~overlap => RemovesLast' /\ ScannedAfterWebhook' /\ OpenHasWebhook'
  PROVE  EvolutionInv'
<1>1. TypeOK'
  BY DEF EvolutionInv, TypeOK
<1>2. /\ request'[q] = r
      /\ \A u \in Requests \ {q} : request'[u] = request[u]
  BY DEF EvolutionInv, TypeOK
<1>3. Open(q)
  BY DEF Open, Closed
<1>4. OperationsFit'
  <2> SUFFICES ASSUME NEW u \in Requests
               PROVE  /\ request'[u].pc = "idle" => request'[u] = Closed
                      /\ request'[u].pc # "idle" => request'[u].integration \in Integrations
                      /\ request'[u].pc \in {"delete", "remove"}
                           <=> request'[u] # Closed /\ request'[u].op = "delete"
    BY DEF OperationsFit, Open, Closed
  <2>1. CASE u # q
    BY <1>2, <2>1 DEF EvolutionInv, OperationsFit, Open
  <2>2. CASE u = q /\ r = Closed
    BY <1>2, <2>2 DEF Closed
  <2>3. CASE u = q /\ r # Closed
    BY <1>2, <2>3 DEF FurtherOn, EvolutionInv, OperationsFit
  <2> QED
    BY <2>1, <2>2, <2>3
<1>5. ~overlap => DeletesAlone'
  BY <1>2, <1>3 DEF EvolutionInv, DeletesAlone, FurtherOn, Open, Closed
<1>6. ~overlap => SameRow(q) /\ row.integration = request[q].integration
  BY DEF EvolutionInv, WorksForOwner
<1>7. NoOrphan'
  BY <1>6 DEF NoOrphan, SameRow
<1>8. WorksForOwner'
  BY <1>2, <1>6 DEF EvolutionInv, WorksForOwner, SameRow, FurtherOn, Closed
<1>9. OpenHasWebhook'
  BY DEF OpenHasWebhook
<1> QED
  BY <1>1, <1>4, <1>5, <1>7, <1>8, <1>9 DEF EvolutionInv

\* The same when the remote instance is left alone, and nothing is about to be
\* shown or forgotten.
LEMMA QuietAdvanceKeeps ==
  ASSUME EvolutionInv, NEW q \in Requests, request[q].pc \notin {"idle", "insert"},
         NEW r \in Request, request' = [request EXCEPT ![q] = r], FurtherOn(q, r),
         r.pc # "remove",
         r.pc = "connect" \/ (r.pc = "save" /\ r.qr) => remote.webhook,
         row' \in Row \cup {None}, row' = None <=> row = None,
         row # None => row'.key = row.key /\ row'.integration = row.integration,
         overlap' = overlap, remote' = remote
  PROVE  EvolutionInv'
<1>1. \A u \in Requests : request'[u] = IF u = q THEN r ELSE request[u]
  BY DEF EvolutionInv, TypeOK
<1>2. ~overlap => RemovesLast'
  BY <1>1 DEF EvolutionInv, RemovesLast
<1>3. ~overlap => ScannedAfterWebhook'
  BY <1>1 DEF EvolutionInv, ScannedAfterWebhook
<1>4. ~overlap => OpenHasWebhook'
  BY DEF EvolutionInv, OpenHasWebhook
<1>5. remote' \in Remote
  BY DEF EvolutionInv, TypeOK
<1> QED
  BY <1>2, <1>3, <1>4, <1>5, AdvanceKeeps

\* A request that ends before it commits anything leaves everything else as it was.
LEMMA RaiseKeeps ==
  ASSUME EvolutionInv, NEW q \in Requests, Raise(q), UNCHANGED remote
  PROVE  EvolutionInv'
<1>1. /\ request' = [request EXCEPT ![q] = Closed]
      /\ row' = row /\ overlap' = overlap /\ remote' = remote
  BY DEF Raise, End
<1>2. \A u \in Requests : request'[u] = IF u = q THEN Closed ELSE request[u]
  BY <1>1 DEF EvolutionInv, TypeOK
<1>3. TypeOK'
  BY <1>1, ClosedType DEF EvolutionInv, TypeOK
<1>4. Closed.pc = "idle"
  BY DEF Closed
<1>5. OperationsFit'
  <2> SUFFICES ASSUME NEW u \in Requests
               PROVE  /\ request'[u].pc = "idle" => request'[u] = Closed
                      /\ request'[u].pc # "idle" => request'[u].integration \in Integrations
                      /\ request'[u].pc \in {"delete", "remove"}
                           <=> request'[u] # Closed /\ request'[u].op = "delete"
    BY DEF OperationsFit, Open, Closed
  <2>1. CASE u # q
    BY <1>2, <2>1 DEF EvolutionInv, OperationsFit, Open
  <2>2. CASE u = q
    BY <1>2, <1>4, <2>2
  <2> QED
    BY <2>1, <2>2
<1>6. ~overlap => DeletesAlone'
  <2> SUFFICES ASSUME ~overlap, NEW u \in Requests, NEW v \in Requests, u # v,
                      request'[u] # Closed, request'[v] # Closed
               PROVE  request'[u].op # "delete"
    BY DEF DeletesAlone, Open, Closed
  <2> QED
    BY <1>2 DEF EvolutionInv, DeletesAlone, Open
<1>7. ~overlap => RemovesLast' /\ ScannedAfterWebhook'
  BY <1>1, <1>2, <1>4 DEF EvolutionInv, RemovesLast, ScannedAfterWebhook
<1>8. NoOrphan' /\ OpenHasWebhook'
  BY <1>1 DEF EvolutionInv, NoOrphan, OpenHasWebhook
<1>9. WorksForOwner'
  BY <1>1, <1>2, <1>4 DEF EvolutionInv, WorksForOwner, SameRow
<1> QED
  BY <1>1, <1>3, <1>5, <1>6, <1>7, <1>8, <1>9 DEF EvolutionInv

\* The remote service did not change: a request goes on to its next call.
LEMMA GotoKeeps ==
  ASSUME EvolutionInv, NEW q \in Requests, request[q].pc \notin {"idle", "insert"},
         NEW pc \in Phases \ {"idle", "insert", "delete", "remove"},
         NEW state \in RowState, NEW qr \in BOOLEAN,
         Goto(q, pc, state, qr), UNCHANGED remote,
         request[q].pc # "delete", request[q].pc # "remove",
         pc = "connect" \/ (pc = "save" /\ qr) => remote.webhook
  PROVE  EvolutionInv'
<1>1. PICK r \in Request :
        /\ request' = [request EXCEPT ![q] = r]
        /\ r.pc = pc /\ r.qr = qr /\ r.op = request[q].op
        /\ r.integration = request[q].integration /\ r.seen = request[q].seen
  BY GotoRecord DEF EvolutionInv
<1>2. request[q].op # "delete"
  BY DEF EvolutionInv, OperationsFit, Open, Closed
<1>3. FurtherOn(q, r)
  BY <1>1, <1>2 DEF FurtherOn
<1>4. row' \in Row \cup {None} /\ row' = row /\ overlap' = overlap
  BY DEF EvolutionInv, TypeOK, Goto
<1> QED
  BY <1>1, <1>3, <1>4, QuietAdvanceKeeps

-----------------------------------------------------------------------------
(* The calls that change nothing in the remote service *)

\* Evolution's answer to connectionState keeps the invariant.
LEMMA ConnectionStateKeeps ==
  ASSUME EvolutionInv, NEW q \in Requests, ConnectionState(q)
  PROVE  EvolutionInv'
<1>1. request[q].pc = "state" /\ UNCHANGED remote
  BY DEF ConnectionState
<1>2. CASE Raise(q)
  BY <1>1, <1>2, RaiseKeeps
<1>3. CASE Continue(q, "create")
  <2>1. request[q].state \in RowState /\ request[q].qr \in BOOLEAN
    BY DEF EvolutionInv, TypeOK, Request
  <2> QED
    BY <1>1, <1>3, <2>1, GotoKeeps DEF Continue, Phases
<1>4. CASE \E pc \in {"save", "error", "webhook"}, state \in RowState : Goto(q, pc, state, FALSE)
  BY <1>1, <1>4, GotoKeeps DEF Phases
<1>5. remote.state # "none" => remote.state \in RowState
  BY DEF EvolutionInv, TypeOK, Remote, RowState
<1> QED
  BY <1>2, <1>3, <1>4, <1>5 DEF ConnectionState, NotFound, RowState

\* So does the second read of the state.
LEMMA RecheckStateKeeps ==
  ASSUME EvolutionInv, NEW q \in Requests, RecheckState(q)
  PROVE  EvolutionInv'
<1>1. request[q].pc = "recheck" /\ UNCHANGED remote
  BY DEF RecheckState
<1>2. CASE Raise(q)
  BY <1>1, <1>2, RaiseKeeps
<1>3. CASE Goto(q, "save", "close", FALSE)
  BY <1>1, <1>3, GotoKeeps DEF Phases, RowState, RemoteState
<1> QED
  BY <1>2, <1>3 DEF RecheckState

-----------------------------------------------------------------------------
(* The calls that change the remote service *)

\* A call may change the remote instance like this: a webhook is lost only with
\* a delete, and what is connected or can be scanned has one.
RemoteFits(q) ==
    /\ remote' \in Remote
    /\ ~overlap =>
          /\ remote'.state = "none" => ~remote'.webhook /\ ~remote'.scannable
          /\ remote'.scannable \/ remote'.state = "open" => remote'.webhook
          /\ remote.webhook /\ request[q].op # "delete" => remote'.webhook

\* Any call to Evolution that keeps the remote instance fitting and goes further on.
LEMMA CallKeeps ==
  ASSUME EvolutionInv, NEW q \in Requests, request[q].pc \notin {"idle", "insert"},
         RemoteFits(q), NEW r \in Request, request' = [request EXCEPT ![q] = r],
         FurtherOn(q, r), row' = row, overlap' = overlap,
         r.pc = "remove" => remote'.state = "none",
         ~overlap => (r.pc = "connect" \/ (r.pc = "save" /\ r.qr) => remote'.webhook)
  PROVE  EvolutionInv'
<1>1. \A u \in Requests : request'[u] = IF u = q THEN r ELSE request[u]
  BY DEF EvolutionInv, TypeOK
<1>2. Open(q)
  BY DEF Open, Closed
<1>3. \A u \in Requests \ {q} : ~overlap /\ Open(u) =>
         request[u].op # "delete" /\ request[q].op # "delete"
  BY <1>2 DEF EvolutionInv, DeletesAlone
<1>4. ~overlap => RemovesLast'
  <2> SUFFICES ASSUME ~overlap, NEW u \in Requests \ {q}, request[u].pc = "remove"
               PROVE  FALSE
    BY <1>1 DEF RemovesLast
  <2>1. Open(u) /\ request[u].op = "delete"
    BY DEF EvolutionInv, OperationsFit
  <2> QED
    BY <1>3, <2>1
<1>5. ~overlap => ScannedAfterWebhook'
  <2> SUFFICES ASSUME ~overlap, NEW u \in Requests \ {q},
                      request[u].pc = "connect" \/ (request[u].pc = "save" /\ request[u].qr)
               PROVE  remote'.webhook
    BY <1>1 DEF ScannedAfterWebhook, RemoteFits
  <2>1. Open(u) /\ remote.webhook
    BY DEF EvolutionInv, ScannedAfterWebhook, Open, Closed
  <2> QED
    BY <1>3, <2>1 DEF RemoteFits
<1>6. ~overlap => OpenHasWebhook'
  BY DEF OpenHasWebhook, RemoteFits
<1>7. row' \in Row \cup {None} /\ remote' \in Remote
  BY DEF EvolutionInv, TypeOK, RemoteFits
<1> QED
  BY <1>4, <1>5, <1>6, <1>7, AdvanceKeeps

\* The call fails, or only its answer does.
LEMMA CallRaises ==
  ASSUME EvolutionInv, NEW q \in Requests, request[q].pc \notin {"idle", "insert"},
         RemoteFits(q), Raise(q)
  PROVE  EvolutionInv'
<1>1. FurtherOn(q, Closed)
  BY DEF FurtherOn
<1>2. /\ Closed.pc # "remove"
      /\ ~(Closed.pc = "connect" \/ (Closed.pc = "save" /\ Closed.qr))
  BY DEF Closed
<1>3. row' = row /\ overlap' = overlap /\ request' = [request EXCEPT ![q] = Closed]
  BY DEF Raise, End
<1> QED
  BY <1>1, <1>2, <1>3, ClosedType, CallKeeps

\* The call is answered.
LEMMA CallAnswered ==
  ASSUME EvolutionInv, NEW q \in Requests, request[q].pc \notin {"idle", "insert"},
         RemoteFits(q),
         NEW pc \in Phases \ {"idle", "insert"}, NEW state \in RowState, NEW qr \in BOOLEAN,
         Goto(q, pc, state, qr),
         pc \in {"delete", "remove"} <=> request[q].pc \in {"delete", "remove"},
         pc = "remove" => remote'.state = "none",
         ~overlap => (pc = "connect" \/ (pc = "save" /\ qr) => remote'.webhook)
  PROVE  EvolutionInv'
<1>1. PICK r \in Request :
        /\ request' = [request EXCEPT ![q] = r]
        /\ r.pc = pc /\ r.qr = qr /\ r.op = request[q].op
        /\ r.integration = request[q].integration /\ r.seen = request[q].seen
  BY GotoRecord DEF EvolutionInv
<1>2. request[q].pc \in {"delete", "remove"} <=> request[q].op = "delete"
  BY DEF EvolutionInv, OperationsFit, Open, Closed
<1>3. FurtherOn(q, r)
  BY <1>1, <1>2 DEF FurtherOn
<1>4. row' = row /\ overlap' = overlap
  BY DEF Goto
<1> QED
  BY <1>1, <1>3, <1>4, CallKeeps

\* The types of the fields of a request.
LEMMA RequestFields ==
  ASSUME EvolutionInv, NEW q \in Requests
  PROVE  request[q].state \in RowState /\ request[q].qr \in BOOLEAN /\ request[q] \in Request
  BY DEF EvolutionInv, TypeOK, Request

\* What EvolutionInv says of the remote instance alone.
LEMMA RemoteNow ==
  ASSUME EvolutionInv
  PROVE  /\ remote \in Remote
         /\ ~overlap =>
               /\ remote.state = "none" => ~remote.webhook /\ ~remote.scannable
               /\ remote.scannable \/ remote.state = "open" => remote.webhook
  BY DEF EvolutionInv, TypeOK, ScannedAfterWebhook, OpenHasWebhook

\* The create call keeps the invariant.
LEMMA CreateInstanceKeeps ==
  ASSUME EvolutionInv, NEW q \in Requests, CreateInstance(q)
  PROVE  EvolutionInv'
<1>1. request[q].pc = "create"
  BY DEF CreateInstance
<1>2. RemoteFits(q)
  BY RemoteNow DEF CreateInstance, RemoteFits, Remote, NoRemote, RemoteState
<1>3. CASE Raise(q)
  BY <1>1, <1>2, <1>3, CallRaises
<1>4. CASE \E qr \in BOOLEAN : Goto(q, "webhook", "connecting", qr)
  BY <1>1, <1>2, <1>4, CallAnswered DEF Phases, RowState, RemoteState
<1> QED
  BY <1>3, <1>4 DEF CreateInstance

\* So does the call that sets the webhook,
LEMMA ConfigureWebhookKeeps ==
  ASSUME EvolutionInv, NEW q \in Requests, ConfigureWebhook(q)
  PROVE  EvolutionInv'
<1>1. request[q].pc = "webhook"
  BY DEF ConfigureWebhook
<1>2. RemoteFits(q)
  BY RemoteNow DEF ConfigureWebhook, RemoteFits, Remote
<1>3. CASE Raise(q)
  BY <1>1, <1>2, <1>3, CallRaises
<1>4. CASE remote' = [remote EXCEPT !.webhook = TRUE] /\ Continue(q, AfterWebhook(q))
  <2>1. remote'.webhook
    BY <1>4, RemoteNow DEF Remote
  <2>2. AfterWebhook(q) \in {"connect", "save"}
    BY DEF AfterWebhook
  <2> QED
    BY <1>1, <1>2, <1>4, <2>1, <2>2, RequestFields, CallAnswered DEF Continue, Phases
<1> QED
  BY <1>3, <1>4 DEF ConfigureWebhook

\* the one that asks for a QR code,
LEMMA ConnectInstanceKeeps ==
  ASSUME EvolutionInv, NEW q \in Requests, ConnectInstance(q)
  PROVE  EvolutionInv'
<1>1. request[q].pc = "connect"
  BY DEF ConnectInstance
<1>2. RemoteFits(q)
  BY RemoteNow DEF ConnectInstance, RemoteFits, Remote, RemoteState
<1>3. ~overlap => remote.webhook
  BY <1>1 DEF EvolutionInv, ScannedAfterWebhook
<1>4. ~overlap => remote'.webhook
  BY <1>3, RemoteNow DEF ConnectInstance, Remote
<1>5. CASE Raise(q)
  BY <1>1, <1>2, <1>5, CallRaises
<1>6. CASE \E s \in {request[q].state, "connecting", "open"}, qr \in BOOLEAN :
             Goto(q, "save", s, qr)
  <2>1. \A s \in {request[q].state, "connecting", "open"} : s \in RowState
    BY RequestFields DEF RowState, RemoteState
  <2> QED
    BY <1>1, <1>2, <1>4, <1>6, <2>1, CallAnswered DEF Phases
<1> QED
  BY <1>5, <1>6 DEF ConnectInstance

\* the logout,
LEMMA LogoutInstanceKeeps ==
  ASSUME EvolutionInv, NEW q \in Requests, LogoutInstance(q)
  PROVE  EvolutionInv'
<1>1. request[q].pc = "logout"
  BY DEF LogoutInstance
<1>2. RemoteFits(q)
  BY RemoteNow DEF LogoutInstance, RemoteFits, Remote, RemoteState
<1>3. CASE Goto(q, "save", "close", FALSE)
  BY <1>1, <1>2, <1>3, CallAnswered DEF Phases, RowState, RemoteState
<1>4. CASE Continue(q, "recheck")
  BY <1>1, <1>2, <1>4, RequestFields, CallAnswered DEF Continue, Phases
<1> QED
  BY <1>3, <1>4 DEF LogoutInstance

\* and the delete.
LEMMA DeleteInstanceKeeps ==
  ASSUME EvolutionInv, NEW q \in Requests, DeleteInstance(q)
  PROVE  EvolutionInv'
<1>1. request[q].pc = "delete"
  BY DEF DeleteInstance
<1>2. request[q].op = "delete"
  BY <1>1 DEF EvolutionInv, OperationsFit
<1>3. RemoteFits(q)
  <2>1. CASE remote' = NoRemote
    <3>1. /\ NoRemote \in Remote
          /\ NoRemote.state = "none" /\ ~NoRemote.webhook /\ ~NoRemote.scannable
      BY DEF Remote, NoRemote
    <3> QED
      BY <1>2, <2>1, <3>1 DEF RemoteFits
  <2>2. CASE remote' = remote
    BY <2>2, RemoteNow DEF RemoteFits
  <2> QED
    BY <2>1, <2>2 DEF DeleteInstance
<1>4. CASE Raise(q)
  BY <1>1, <1>3, <1>4, CallRaises
<1>5. CASE remote' = NoRemote /\ Continue(q, "remove")
  <2>1. remote'.state = "none"
    BY <1>5 DEF NoRemote
  <2> QED
    BY <1>1, <1>3, <1>5, <2>1, RequestFields, CallAnswered DEF Continue, Phases
<1> QED
  BY <1>4, <1>5 DEF DeleteInstance

-----------------------------------------------------------------------------
(* Commits *)

\* The UPDATE of a save leaves the key and the owner of the row.
LEMMA SaveRow ==
  ASSUME EvolutionInv, NEW q \in Requests, SaveState(q)
  PROVE  /\ row' \in Row \cup {None}
         /\ row' = None <=> row = None
         /\ row # None => row'.key = row.key /\ row'.integration = row.integration
<1>1. row \in Row \cup {None} /\ request[q].state \in RowState /\ None \notin Row
  BY NullAssumption, RequestFields DEF EvolutionInv, TypeOK
<1>2. CASE row' = row
  BY <1>1, <1>2
<1>3. CASE row # None /\ row' = [row EXCEPT !.state = request[q].state]
  <2>1. row' \in Row /\ row'.key = row.key /\ row'.integration = row.integration
    BY <1>1, <1>3 DEF Row
  <2> QED
    BY <1>1, <1>3, <2>1
<1> QED
  BY <1>2, <1>3 DEF SaveState, SameRow

\* The error state is saved.
LEMMA SaveErrorKeeps ==
  ASSUME EvolutionInv, NEW q \in Requests, SaveError(q)
  PROVE  EvolutionInv'
<1>1. request[q].pc = "error" /\ SaveState(q) /\ remote' = remote
      /\ overlap' = overlap /\ request' = [request EXCEPT ![q] = Closed]
  BY DEF SaveError, End
<1>2. FurtherOn(q, Closed)
  BY DEF FurtherOn
<1>3. /\ Closed.pc # "remove"
      /\ ~(Closed.pc = "connect" \/ (Closed.pc = "save" /\ Closed.qr))
  BY DEF Closed
<1> QED
  BY <1>1, <1>2, <1>3, SaveRow, ClosedType, QuietAdvanceKeeps

\* The QR code goes on the screen: its request found the webhook set.
LEMMA SaveKeeps ==
  ASSUME EvolutionInv, NEW q \in Requests, Save(q)
  PROVE  EvolutionInv'
<1>1. request[q].pc = "save" /\ SaveState(q)
      /\ overlap' = overlap /\ request' = [request EXCEPT ![q] = Closed]
  BY DEF Save, End
<1> DEFINE shown == remote.scannable \/ (SameRow(q) /\ request[q].qr /\ remote.state = "connecting")
<1>8. shown \in BOOLEAN /\ remote' = [remote EXCEPT !.scannable = shown]
  BY DEF Save
<1>9. shown => remote.scannable \/ (request[q].qr /\ remote.state = "connecting")
  OBVIOUS
<1> HIDE DEF shown
<1>2. /\ remote' \in Remote
      /\ remote'.state = remote.state
      /\ remote'.webhook = remote.webhook
      /\ remote'.scannable = shown
  BY <1>8, RemoteNow DEF Remote
<1>10. /\ remote.state = "connecting" => remote.state # "none"
       /\ Closed.pc = "idle"
  BY DEF Closed
<1>3. \A u \in Requests : request'[u] = IF u = q THEN Closed ELSE request[u]
  BY <1>1 DEF EvolutionInv, TypeOK
<1>4. ~overlap => RemovesLast'
  BY <1>2, <1>3, <1>10 DEF EvolutionInv, RemovesLast
<1>5. ~overlap => ScannedAfterWebhook'
  BY <1>1, <1>2, <1>3, <1>9, <1>10 DEF EvolutionInv, ScannedAfterWebhook
<1>6. ~overlap => OpenHasWebhook'
  BY <1>2 DEF EvolutionInv, OpenHasWebhook
<1>7. FurtherOn(q, Closed)
  BY DEF FurtherOn
<1> QED
  BY <1>1, <1>2, <1>4, <1>5, <1>6, <1>7, SaveRow, ClosedType, AdvanceKeeps

\* A delete is alone: with its row gone nobody is left to work on it.
LEMMA RemoveInstanceKeeps ==
  ASSUME EvolutionInv, NEW q \in Requests, RemoveInstance(q)
  PROVE  EvolutionInv'
<1>1. request[q].pc = "remove" /\ remote' = remote
      /\ overlap' = overlap /\ request' = [request EXCEPT ![q] = Closed]
      /\ row' = IF SameRow(q) THEN None ELSE row
  BY DEF RemoveInstance, End
<1>2. \A u \in Requests : request'[u] = IF u = q THEN Closed ELSE request[u]
  BY <1>1 DEF EvolutionInv, TypeOK
<1>3. Open(q) /\ request[q].op = "delete"
  BY <1>1 DEF EvolutionInv, OperationsFit
<1>4. ~overlap => /\ remote.state = "none"
                  /\ \A u \in Requests : request'[u] = Closed
  BY <1>1, <1>2, <1>3 DEF EvolutionInv, DeletesAlone, RemovesLast, Open
<1>5. TypeOK'
  BY <1>1, ClosedType DEF EvolutionInv, TypeOK
<1>6. OperationsFit'
  <2> SUFFICES ASSUME NEW u \in Requests
               PROVE  /\ request'[u].pc = "idle" => request'[u] = Closed
                      /\ request'[u].pc # "idle" => request'[u].integration \in Integrations
                      /\ request'[u].pc \in {"delete", "remove"}
                           <=> request'[u] # Closed /\ request'[u].op = "delete"
    BY DEF OperationsFit, Open, Closed
  <2>1. CASE u # q
    BY <1>2, <2>1 DEF EvolutionInv, OperationsFit, Open
  <2>2. CASE u = q
    <3>1. request'[u] = Closed /\ Closed.pc = "idle"
      BY <1>2, <2>2 DEF Closed
    <3> QED
      BY <3>1
  <2> QED
    BY <2>1, <2>2
<1>7. ~overlap => DeletesAlone' /\ RemovesLast' /\ ScannedAfterWebhook'
  BY <1>1, <1>4 DEF EvolutionInv, DeletesAlone, RemovesLast, ScannedAfterWebhook, Closed, Open
<1>8. NoOrphan' /\ WorksForOwner' /\ OpenHasWebhook'
  BY <1>1, <1>4 DEF EvolutionInv, NoOrphan, WorksForOwner, OpenHasWebhook, Closed
<1> QED
  BY <1>1, <1>5, <1>6, <1>7, <1>8 DEF EvolutionInv

-----------------------------------------------------------------------------
(* Handlers up to their first await *)

\* A handler starts with the present row, if it owns it, and a delete that meets
\* another open request is recorded in overlap.
LEMMA StartKeeps ==
  ASSUME EvolutionInv, NEW q \in Requests, NEW i \in Integrations,
         NEW op \in Operations, NEW pc \in {"insert", "state", "webhook", "logout", "delete"},
         Start(q, op, i, pc), pc # "insert" => Own(i), pc = "delete" <=> op = "delete"
  PROVE  EvolutionInv'
<1>1. PICK r \in Request :
        /\ request' = [request EXCEPT ![q] = r]
        /\ r.pc = pc /\ r.op = op /\ r.integration = i /\ r.seen = row
  <2> DEFINE s == IF row = None THEN "creating" ELSE row.state
             r == [pc |-> pc, op |-> op, integration |-> i, seen |-> row,
                   state |-> s, qr |-> FALSE]
  <2>1. s \in RowState
    BY DEF EvolutionInv, TypeOK, Row, RowState
  <2>2. request' = [request EXCEPT ![q] = r]
    BY DEF Start
  <2> HIDE DEF s
  <2>3. r \in Request
    BY <2>1 DEF EvolutionInv, TypeOK, Request, Phases
  <2> QED
    BY <2>2, <2>3
<1>2. ~Open(q) /\ UNCHANGED <<row, remote>>
  BY DEF Start
<1>3. \A u \in Requests : request'[u] = IF u = q THEN r ELSE request[u]
  BY <1>1 DEF EvolutionInv, TypeOK
<1>4. TypeOK'
  BY <1>1, <1>2 DEF EvolutionInv, TypeOK, Start
<1>5. r.pc # "idle" /\ r # Closed
  BY <1>1 DEF Closed
<1>6. OperationsFit'
  <2> SUFFICES ASSUME NEW u \in Requests
               PROVE  /\ request'[u].pc = "idle" => request'[u] = Closed
                      /\ request'[u].pc # "idle" => request'[u].integration \in Integrations
                      /\ request'[u].pc \in {"delete", "remove"}
                           <=> request'[u] # Closed /\ request'[u].op = "delete"
    BY DEF OperationsFit, Open, Closed
  <2>1. CASE u # q
    BY <1>3, <2>1 DEF EvolutionInv, OperationsFit, Open
  <2>2. CASE u = q
    BY <1>1, <1>3, <1>5, <2>2
  <2> QED
    BY <2>1, <2>2
<1>7. ~overlap' => /\ ~overlap
                   /\ \A u \in Requests \ {q} : Open(u) => op # "delete" /\ request[u].op # "delete"
  BY DEF Start
<1>8. \A u \in Requests \ {q} : request'[u] # Closed <=> Open(u)
  BY <1>3 DEF Open
<1>9. ~overlap' => DeletesAlone'
  <2> SUFFICES ASSUME ~overlap', NEW u \in Requests, NEW v \in Requests, u # v,
                      request'[u] # Closed, request'[v] # Closed
               PROVE  request'[u].op # "delete"
    BY DEF DeletesAlone, Open, Closed
  <2>1. CASE u = q
    BY <1>1, <1>3, <1>7, <1>8, <2>1
  <2>2. CASE v = q
    BY <1>3, <1>7, <1>8, <2>2
  <2>3. CASE u # q /\ v # q
    BY <1>3, <1>7, <1>8, <2>3 DEF EvolutionInv, DeletesAlone
  <2> QED
    BY <2>1, <2>2, <2>3
<1>10. ~overlap' => RemovesLast' /\ ScannedAfterWebhook'
  BY <1>1, <1>2, <1>3, <1>7 DEF EvolutionInv, RemovesLast, ScannedAfterWebhook
<1>11. NoOrphan' /\ OpenHasWebhook'
  BY <1>2, <1>7 DEF EvolutionInv, NoOrphan, OpenHasWebhook
<1>12. WorksForOwner'
  BY <1>1, <1>2, <1>3, <1>7 DEF EvolutionInv, WorksForOwner, SameRow, Own
<1> QED
  BY <1>4, <1>6, <1>9, <1>10, <1>11, <1>12 DEF EvolutionInv

\* A request is received and reads the row.
LEMMA HandleKeeps ==
  ASSUME EvolutionInv, NEW q \in Requests, Handle(q)
  PROVE  EvolutionInv'
<1> PICK i \in Integrations :
      Provision(q, i) \/ RefreshStatus(q, i) \/ RefreshQrCode(q, i) \/ Logout(q, i) \/ Delete(q, i)
  BY DEF Handle
<1>1. CASE Provision(q, i)
  BY <1>1, StartKeeps DEF Provision, Operations, Own
<1>2. CASE RefreshStatus(q, i)
  BY <1>2, StartKeeps DEF RefreshStatus, Operations
<1>3. CASE RefreshQrCode(q, i)
  BY <1>3, StartKeeps DEF RefreshQrCode, Operations
<1>4. CASE Logout(q, i)
  BY <1>4, StartKeeps DEF Logout, Operations
<1>5. CASE Delete(q, i)
  BY <1>5, StartKeeps DEF Delete, Operations
<1> QED
  BY <1>1, <1>2, <1>3, <1>4, <1>5

\* The request goes on with the row it inserted, or with the one that was there
\* first if its integration owns it.  Nobody else works on a row that is not there.
LEMMA CreateLocalInstanceKeeps ==
  ASSUME EvolutionInv, NEW q \in Requests, CreateLocalInstance(q)
  PROVE  EvolutionInv'
<1>1. request[q].pc = "insert"
  BY DEF CreateLocalInstance
<1>2. /\ Open(q) /\ request[q].op # "delete"
      /\ request[q].integration \in Integrations
  BY <1>1 DEF EvolutionInv, OperationsFit, Open, Closed
<1>3. \A u \in Requests : ~overlap /\ row = None => request[u].pc \in {"idle", "insert"}
  BY DEF EvolutionInv, WorksForOwner, SameRow
<1>4. CASE Raise(q) /\ UNCHANGED remote
  BY <1>4, RaiseKeeps
<1>5. CASE \E x \in Row :
             /\ x.integration = request[q].integration
             /\ row' = x /\ (row = None \/ row = x)
             /\ Adopt(q, x)
  <2> PICK x \in Row : /\ x.integration = request[q].integration
                       /\ row' = x /\ (row = None \/ row = x)
                       /\ Adopt(q, x)
    BY <1>5
  <2>1. PICK r \in Request :
          /\ request' = [request EXCEPT ![q] = r]
          /\ r.pc = "state" /\ r.op = request[q].op
          /\ r.integration = request[q].integration /\ r.seen = x
    <3> DEFINE r == [request[q] EXCEPT !.pc = "state", !.seen = x, !.state = x.state]
    <3>1. r \in Request /\ request' = [request EXCEPT ![q] = r]
      BY DEF EvolutionInv, TypeOK, Adopt, Request, Row, Phases
    <3>2. /\ r.pc = "state" /\ r.op = request[q].op
          /\ r.integration = request[q].integration /\ r.seen = x
      BY DEF EvolutionInv, TypeOK, Request
    <3> QED
      BY <3>1, <3>2
  <2>2. remote' = remote /\ overlap' = overlap
    BY DEF Adopt
  <2>3. \A u \in Requests : request'[u] = IF u = q THEN r ELSE request[u]
    BY <2>1 DEF EvolutionInv, TypeOK
  <2>4. TypeOK'
    BY <2>1, <2>2 DEF EvolutionInv, TypeOK
  <2>5. r.pc # "idle" /\ r # Closed
    BY <2>1 DEF Closed
  <2>6. OperationsFit'
    <3> SUFFICES ASSUME NEW u \in Requests
                 PROVE  /\ request'[u].pc = "idle" => request'[u] = Closed
                        /\ request'[u].pc # "idle" => request'[u].integration \in Integrations
                        /\ request'[u].pc \in {"delete", "remove"}
                             <=> request'[u] # Closed /\ request'[u].op = "delete"
      BY DEF OperationsFit, Open, Closed
    <3>1. CASE u # q
      BY <2>3, <3>1 DEF EvolutionInv, OperationsFit, Open
    <3>2. CASE u = q
      BY <1>2, <2>1, <2>3, <2>5, <3>2
    <3> QED
      BY <3>1, <3>2
  <2>7. ~overlap => DeletesAlone'
    <3> SUFFICES ASSUME ~overlap, NEW u \in Requests, NEW v \in Requests, u # v,
                        request'[u] # Closed, request'[v] # Closed
                 PROVE  request'[u].op # "delete"
      BY DEF DeletesAlone, Open, Closed
    <3> QED
      BY <1>2, <2>1, <2>3 DEF EvolutionInv, DeletesAlone, Open
  <2>8. ~overlap => RemovesLast' /\ ScannedAfterWebhook'
    BY <2>1, <2>2, <2>3 DEF EvolutionInv, RemovesLast, ScannedAfterWebhook
  <2>9. row' # None
    BY NullAssumption
  <2>10. NoOrphan' /\ OpenHasWebhook'
    BY <2>2, <2>9 DEF EvolutionInv, NoOrphan, OpenHasWebhook
  <2>11. WorksForOwner'
    BY <1>3, <2>1, <2>2, <2>3, <2>9 DEF EvolutionInv, WorksForOwner, SameRow
  <2> QED
    BY <2>2, <2>4, <2>6, <2>7, <2>8, <2>10, <2>11 DEF EvolutionInv
<1>7. row \in Row \cup {None}
  BY DEF EvolutionInv, TypeOK
<1>8. CASE Own(request[q].integration) /\ Adopt(q, row) /\ UNCHANGED row
  BY <1>5, <1>7, <1>8 DEF Own
<1>9. CASE /\ row = None
           /\ \E k \in Keys : row' = [key |-> k, integration |-> request[q].integration,
                                     state |-> "creating"]
           /\ Adopt(q, row')
  <2>1. row' \in Row /\ row'.integration = request[q].integration
    BY <1>2, <1>9 DEF Row, RowState
  <2> QED
    BY <1>5, <1>9, <2>1
<1> QED
  BY <1>4, <1>8, <1>9 DEF CreateLocalInstance

-----------------------------------------------------------------------------
(* The phone, and the worker that dies *)

\* The phone opens or closes the connection on its own.
LEMMA PhoneKeeps ==
  ASSUME EvolutionInv, NEW state \in {"open", "close"}, Phone(state),
         remote.state # "none", state = "open" => remote.scannable
  PROVE  EvolutionInv'
<1>1. /\ remote' \in Remote /\ remote'.state = state
      /\ remote'.webhook = remote.webhook /\ ~remote'.scannable
      /\ row' = row /\ request' = request /\ overlap' = overlap
  BY RemoteNow DEF Phone, Remote, RemoteState
<1>2. TypeOK' /\ OperationsFit'
  BY <1>1 DEF EvolutionInv, TypeOK, OperationsFit, Open, Closed
<1>3. ~overlap => DeletesAlone'
  BY <1>1 DEF EvolutionInv, DeletesAlone, Open, Closed
<1>4. ~overlap => RemovesLast'
  BY <1>1 DEF EvolutionInv, RemovesLast
<1>5. ~overlap => ScannedAfterWebhook' /\ OpenHasWebhook'
  BY <1>1, RemoteNow DEF EvolutionInv, ScannedAfterWebhook, OpenHasWebhook
<1>6. NoOrphan' /\ WorksForOwner'
  BY <1>1 DEF EvolutionInv, NoOrphan, WorksForOwner, SameRow
<1> QED
  BY <1>1, <1>2, <1>3, <1>4, <1>5, <1>6 DEF EvolutionInv, OpenHasWebhook

\* A request that dies leaves what it wrote.
LEMMA CrashKeeps ==
  ASSUME EvolutionInv, NEW q \in Requests, Crash(q)
  PROVE  EvolutionInv'
  BY RaiseKeeps DEF Crash

-----------------------------------------------------------------------------
(* The invariant *)

\* The invariant holds at first.
LEMMA InitEvolution == Init => EvolutionInv
<1> SUFFICES ASSUME Init PROVE EvolutionInv
  OBVIOUS
<1>1. \A q \in Requests : request[q] = Closed /\ ~Open(q) /\ Closed.pc = "idle"
  BY DEF Init, Open, Closed
<1>2. TypeOK
  BY ClosedType DEF Init, TypeOK, NoRemote, Remote
<1>3. OperationsFit /\ DeletesAlone
  BY <1>1 DEF OperationsFit, DeletesAlone
<1>4. RemovesLast /\ ScannedAfterWebhook
  BY <1>1 DEF Init, RemovesLast, ScannedAfterWebhook, NoRemote
<1>5. NoOrphan /\ WorksForOwner /\ OpenHasWebhook
  BY <1>1 DEF Init, NoOrphan, WorksForOwner, OpenHasWebhook, NoRemote
<1> QED
  BY <1>2, <1>3, <1>4, <1>5 DEF EvolutionInv

\* Every step of a request keeps it.
LEMMA ProceedKeeps ==
  ASSUME EvolutionInv, NEW q \in Requests, Proceed(q)
  PROVE  EvolutionInv'
<1>1. CASE CreateLocalInstance(q)
  BY <1>1, CreateLocalInstanceKeeps
<1>2. CASE ConnectionState(q) \/ RecheckState(q)
  BY <1>2, ConnectionStateKeeps, RecheckStateKeeps
<1>3. CASE CreateInstance(q) \/ ConfigureWebhook(q) \/ ConnectInstance(q)
  BY <1>3, CreateInstanceKeeps, ConfigureWebhookKeeps, ConnectInstanceKeeps
<1>4. CASE LogoutInstance(q) \/ DeleteInstance(q)
  BY <1>4, LogoutInstanceKeeps, DeleteInstanceKeeps
<1>5. CASE Save(q) \/ SaveError(q) \/ RemoveInstance(q)
  BY <1>5, SaveKeeps, SaveErrorKeeps, RemoveInstanceKeeps
<1> QED
  BY <1>1, <1>2, <1>3, <1>4, <1>5 DEF Proceed

\* The invariant is inductive.
LEMMA NextEvolution == EvolutionInv /\ [Next]_vars => EvolutionInv'
<1> SUFFICES ASSUME EvolutionInv, [Next]_vars PROVE EvolutionInv'
  OBVIOUS
<1>1. CASE \E q \in Requests : Handle(q) \/ Proceed(q) \/ Crash(q)
  BY <1>1, HandleKeeps, ProceedKeeps, CrashKeeps
<1>2. CASE Scan
  BY <1>2, PhoneKeeps DEF Scan
<1>3. CASE CodeExpires \/ Disconnect
  BY <1>3, PhoneKeeps DEF CodeExpires, Disconnect
<1>4. CASE UNCHANGED vars
  BY <1>4 DEF vars, EvolutionInv, TypeOK, OperationsFit, DeletesAlone, RemovesLast,
     ScannedAfterWebhook, NoOrphan, WorksForOwner, OpenHasWebhook, SameRow, Open, Closed
<1> QED
  BY <1>1, <1>2, <1>3, <1>4 DEF Next

-----------------------------------------------------------------------------

\* What open requests keep true of the row and the remote instance while no
\* delete is in their way: the inductive invariant.
THEOREM InstanceSafe == Spec => []EvolutionInv
<1> QED
  BY InitEvolution, NextEvolution, PTL DEF Spec

\* However many requests are open, fail or die: without a delete in the way an
\* instance in the Evolution API always has its row.
THEOREM NeverOrphaned == Spec => []NoOrphan
<1>1. EvolutionInv => NoOrphan
  BY DEF EvolutionInv
<1> QED
  BY InstanceSafe, <1>1, PTL

\* However many integrations provision at once: without a delete in the way
\* whoever talks to the instance works on the present row and owns it.
THEOREM OwnerWorks == Spec => []WorksForOwner
<1>1. EvolutionInv => WorksForOwner
  BY DEF EvolutionInv
<1> QED
  BY InstanceSafe, <1>1, PTL

\* Without a delete in the way a connected instance posts its messages to the
\* webhook, whichever of many requests set it or failed to.
THEOREM ConnectedWithWebhook == Spec => []OpenHasWebhook
<1>1. EvolutionInv => OpenHasWebhook
  BY DEF EvolutionInv
<1> QED
  BY InstanceSafe, <1>1, PTL
=============================================================================
