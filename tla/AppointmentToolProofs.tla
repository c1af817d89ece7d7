------------------------ MODULE AppointmentToolProofs ------------------------
(***************************************************************************)
(* What holds of AppointmentTool for any number of calls, professionals and *)
(* services, and any number of updates and failures: one mail a change, to  *)
(* an address no older than the change.                                     *)
(***************************************************************************)
EXTENDS AppointmentToolInvariant, TLAPS

\* A call is a record of these fields.
IsCall(r) ==
    r = [pc |-> r.pc, action |-> r.action, start |-> r.start, seen |-> r.seen, asOf |-> r.asOf,
         email |-> r.email, service |-> r.service, unsent |-> r.unsent]
CallShape == call = [e \in Calls |-> call[e]] /\ \A e \in Calls : IsCall(call[e])
Others(e) == \A d \in Calls \ {e} : call'[d] = call[d]

-----------------------------------------------------------------------------
(* What the writes of a call's record do to it, and that they leave the others. *)

\* A record in the place of the record of a call.
LEMMA Replace ==
    ASSUME CallShape, NEW e \in Calls, Others(e), call' = [d \in Calls |-> call'[d]], IsCall(call'[e])
    PROVE  CallShape'
BY DEF CallShape, Others

\* A call that only goes to another node.
LEMMA GoToShape ==
    ASSUME CallShape, NEW e \in Calls, NEW pc, GoTo(e, pc)
    PROVE  /\ CallShape' /\ Others(e) /\ call'[e].pc = pc
           /\ call'[e].action = call[e].action /\ call'[e].seen = call[e].seen
           /\ call'[e].email = call[e].email /\ call'[e].asOf = call[e].asOf
          
           /\ call'[e].service = call[e].service /\ call'[e].unsent = call[e].unsent
<1> DEFINE r == [pc |-> pc, action |-> call[e].action, start |-> call[e].start, seen |-> call[e].seen,
               asOf |-> call[e].asOf, email |-> call[e].email, service |-> call[e].service,
               unsent |-> call[e].unsent]
<1>1. call' = [call EXCEPT ![e] = [call[e] EXCEPT !.pc = pc]] BY DEF CallShape, GoTo
<1>2. IsCall(call[e]) BY DEF CallShape
<1>3. /\ call'[e] = [call[e] EXCEPT !.pc = pc] /\ Others(e)
      /\ call' = [d \in Calls |-> call'[d]]
  BY <1>1 DEF CallShape, Others
<1>4. call'[e] = r BY <1>2, <1>3 DEF IsCall
<1>5. IsCall(r) /\ r.pc = pc /\ r.action = call[e].action /\ r.seen = call[e].seen
      /\ r.email = call[e].email /\ r.asOf = call[e].asOf
     
      /\ r.service = call[e].service /\ r.unsent = call[e].unsent
  BY DEF IsCall
<1> HIDE DEF r
<1> QED BY <1>3, <1>4, <1>5, Replace

\* A call whose mail failed.
LEMMA UnsentShape ==
    ASSUME CallShape, NEW e \in Calls, Unsent(e)
    PROVE  /\ CallShape' /\ Others(e) /\ call'[e].pc = "return_context" /\ call'[e].asOf = call[e].asOf
           /\ call'[e].action = call[e].action /\ call'[e].seen = call[e].seen /\ call'[e].email = call[e].email
           /\ call'[e].service = call[e].service /\ call'[e].unsent = TRUE
<1> DEFINE r == [pc |-> "return_context", action |-> call[e].action, start |-> call[e].start, seen |-> call[e].seen,
               asOf |-> call[e].asOf, email |-> call[e].email, service |-> call[e].service, unsent |-> TRUE]
<1>1. call' = [call EXCEPT ![e] = [call[e] EXCEPT !.pc = "return_context", !.unsent = TRUE]] BY DEF CallShape, Unsent
<1>2. IsCall(call[e]) BY DEF CallShape
<1>3. /\ call'[e] = [call[e] EXCEPT !.pc = "return_context", !.unsent = TRUE] /\ Others(e)
      /\ call' = [d \in Calls |-> call'[d]]
  BY <1>1 DEF CallShape, Others
<1>4. call'[e] = r BY <1>2, <1>3 DEF IsCall
<1>5. IsCall(r) /\ r.pc = "return_context" /\ r.asOf = call[e].asOf
      /\ r.action = call[e].action /\ r.seen = call[e].seen /\ r.email = call[e].email
     
      /\ r.service = call[e].service /\ r.unsent = TRUE
  BY DEF IsCall
<1> HIDE DEF r
<1> QED BY <1>3, <1>4, <1>5, Replace

\* A call that has read or written the appointment.
LEMMA SeenShape ==
    ASSUME CallShape, NEW e \in Calls, NEW new, Seen(e, new)
    PROVE  /\ CallShape' /\ Others(e) /\ call'[e].pc = "professional_context"
           /\ call'[e].asOf = Confirmed(professional)
           /\ call'[e].seen = new /\ call'[e].action = call[e].action /\ call'[e].unsent = call[e].unsent
<1> DEFINE r == [pc |-> "professional_context", action |-> call[e].action, start |-> call[e].start, seen |-> new,
               asOf |-> Confirmed(professional), email |-> call[e].email, service |-> call[e].service,
               unsent |-> call[e].unsent]
<1>1. call' = [call EXCEPT ![e] = [call[e] EXCEPT !.pc = "professional_context", !.seen = new, !.asOf = Confirmed(professional)]]
  BY DEF CallShape, Seen
<1>2. IsCall(call[e]) BY DEF CallShape
<1>3. /\ call'[e] = [call[e] EXCEPT !.pc = "professional_context", !.seen = new, !.asOf = Confirmed(professional)]
      /\ Others(e)
      /\ call' = [d \in Calls |-> call'[d]]
  BY <1>1 DEF CallShape, Others
<1>4. call'[e] = r BY <1>2, <1>3 DEF IsCall
<1>5. IsCall(r) /\ r.pc = "professional_context" /\ r.asOf = Confirmed(professional)
      /\ r.seen = new /\ r.action = call[e].action /\ r.unsent = call[e].unsent
  BY DEF IsCall
<1> HIDE DEF r
<1> QED BY <1>3, <1>4, <1>5, Replace

\* A call that takes the professional's address.
TakesEmail(e, pc, email) == call' = [call EXCEPT ![e].pc = pc, ![e].email = email]

\* What it knows but the address.
LEMMA EmailShape ==
    ASSUME CallShape, NEW e \in Calls, NEW pc, NEW email, TakesEmail(e, pc, email)
    PROVE  /\ CallShape' /\ Others(e) /\ call'[e].pc = pc
           /\ call'[e].email = email /\ call'[e].asOf = call[e].asOf
           /\ call'[e].action = call[e].action /\ call'[e].seen = call[e].seen
           /\ call'[e].service = call[e].service /\ call'[e].unsent = call[e].unsent
<1> DEFINE r == [pc |-> pc, action |-> call[e].action, start |-> call[e].start, seen |-> call[e].seen,
               asOf |-> call[e].asOf, email |-> email, service |-> call[e].service,
               unsent |-> call[e].unsent]
<1>1. call' = [call EXCEPT ![e] = [call[e] EXCEPT !.pc = pc, !.email = email]] BY DEF CallShape, TakesEmail
<1>2. IsCall(call[e]) BY DEF CallShape
<1>3. /\ call'[e] = [call[e] EXCEPT !.pc = pc, !.email = email] /\ Others(e)
      /\ call' = [d \in Calls |-> call'[d]]
  BY <1>1 DEF CallShape, Others
<1>4. call'[e] = r BY <1>2, <1>3 DEF IsCall
<1>5. IsCall(r) /\ r.pc = pc /\ r.email = email /\ r.asOf = call[e].asOf
      /\ r.action = call[e].action /\ r.seen = call[e].seen
      /\ r.service = call[e].service /\ r.unsent = call[e].unsent
  BY DEF IsCall
<1> HIDE DEF r
<1> QED BY <1>3, <1>4, <1>5, Replace

\* A call that takes the service.
TakesService(e, pc, about) == call' = [call EXCEPT ![e].pc = pc, ![e].service = about]

\* What it knows but the service.
LEMMA ServiceShape ==
    ASSUME CallShape, NEW e \in Calls, NEW pc, NEW about, TakesService(e, pc, about)
    PROVE  /\ CallShape' /\ Others(e) /\ call'[e].pc = pc
           /\ call'[e].email = call[e].email /\ call'[e].asOf = call[e].asOf
           /\ call'[e].service = about /\ call'[e].action = call[e].action
           /\ call'[e].seen = call[e].seen /\ call'[e].unsent = call[e].unsent
<1> DEFINE r == [pc |-> pc, action |-> call[e].action, start |-> call[e].start, seen |-> call[e].seen,
               asOf |-> call[e].asOf, email |-> call[e].email, service |-> about, unsent |-> call[e].unsent]
<1>1. call' = [call EXCEPT ![e] = [call[e] EXCEPT !.pc = pc, !.service = about]] BY DEF CallShape, TakesService
<1>2. IsCall(call[e]) BY DEF CallShape
<1>3. /\ call'[e] = [call[e] EXCEPT !.pc = pc, !.service = about] /\ Others(e)
      /\ call' = [d \in Calls |-> call'[d]]
  BY <1>1 DEF CallShape, Others
<1>4. call'[e] = r BY <1>2, <1>3 DEF IsCall
<1>5. IsCall(r) /\ r.pc = pc /\ r.email = call[e].email /\ r.asOf = call[e].asOf
      /\ r.service = about /\ r.action = call[e].action /\ r.seen = call[e].seen /\ r.unsent = call[e].unsent
  BY DEF IsCall
<1> HIDE DEF r
<1> QED BY <1>3, <1>4, <1>5, Replace

\* A call that has canceled the appointment.
Canceled(e) == call' = [call EXCEPT ![e].pc = "prepare_email", ![e].seen.status = "canceled"]

\* What it knows but the new status.
LEMMA CanceledShape ==
    ASSUME CallShape, NEW e \in Calls, Canceled(e)
    PROVE  /\ CallShape' /\ Others(e) /\ call'[e].pc = "prepare_email"
           /\ call'[e].email = call[e].email /\ call'[e].asOf = call[e].asOf
           /\ call'[e].action = call[e].action
           /\ call'[e].service = call[e].service /\ call'[e].unsent = call[e].unsent
<1> DEFINE r == [pc |-> "prepare_email", action |-> call[e].action, start |-> call[e].start, 
               seen |-> [call[e].seen EXCEPT !.status = "canceled"],
               asOf |-> call[e].asOf, email |-> call[e].email, service |-> call[e].service,
               unsent |-> call[e].unsent]
<1>1. call' = [call EXCEPT ![e] = [call[e] EXCEPT !.pc = "prepare_email", !.seen.status = "canceled"]]
  BY DEF CallShape, Canceled
<1>2. IsCall(call[e]) BY DEF CallShape
<1>3. /\ call'[e] = [call[e] EXCEPT !.pc = "prepare_email", !.seen.status = "canceled"] /\ Others(e)
      /\ call' = [d \in Calls |-> call'[d]]
  BY <1>1 DEF CallShape, Others
<1>4. call'[e] = r BY <1>2, <1>3 DEF IsCall
<1>5. IsCall(r) /\ r.pc = "prepare_email" /\ r.email = call[e].email /\ r.asOf = call[e].asOf
      /\ r.action = call[e].action
      /\ r.service = call[e].service /\ r.unsent = call[e].unsent
  BY DEF IsCall
<1> HIDE DEF r
<1> QED BY <1>3, <1>4, <1>5, Replace

\* A call that takes up what the client asks for.
Starting(e, action, start, pc) == call' = [call EXCEPT ![e].action = action, ![e].start = start, ![e].pc = pc]

\* Where the action belongs.
Fits(action, pc) ==
    /\ action \in Actions /\ pc \in {"post", "patch", "get_by_id", "get_by_client"}
    /\ pc = "post" => action = "post"
    /\ pc = "patch" => action = "update"
    /\ pc = "get_by_client" => action = "get"

\* What a webhook makes of a call: the action and the start are the client's.
LEMMA WebhookForm ==
    ASSUME NEW e \in Calls, Webhook(e)
    PROVE  \E action, start, pc : Fits(action, pc) /\ Starting(e, action, start, pc)
<1>1. PICK asked \in Actions \cup {"delete", ""}, start \in Starts, byId \in BOOLEAN :
        LET action == DataHandler(asked) IN
        call' = [call EXCEPT ![e].action = action, ![e].start = IF action \in {"post", "update"} THEN start ELSE None,
             ![e].pc = CASE action = "post" -> "post"
                         [] action = "update" -> "patch"
                         [] action = "cancel" \/ (action = "get" /\ byId) -> "get_by_id"
                         [] OTHER -> "get_by_client"]
  BY DEF Webhook
<1> DEFINE action == DataHandler(asked)
<1> DEFINE begin == IF action \in {"post", "update"} THEN start ELSE None
<1> DEFINE pc == CASE action = "post" -> "post"
                   [] action = "update" -> "patch"
                   [] action = "cancel" \/ (action = "get" /\ byId) -> "get_by_id"
                   [] OTHER -> "get_by_client"
<1>2. action \in Actions BY DEF DataHandler, Actions
<1>3. Starting(e, action, begin, pc) BY <1>1 DEF Starting
<1> HIDE DEF action, begin
<1>4. Fits(action, pc) BY <1>2 DEF Fits, Actions
<1> HIDE DEF pc
<1> QED BY <1>3, <1>4

\* A call that starts.
LEMMA WebhookShape ==
    ASSUME CallShape, NEW e \in Calls, Webhook(e)
    PROVE  /\ CallShape' /\ Others(e) /\ call'[e].asOf = call[e].asOf
           /\ call'[e].unsent = call[e].unsent /\ Fits(call'[e].action, call'[e].pc)
           /\ call'[e].pc \in {"post", "patch", "get_by_id", "get_by_client"}
<1> PICK action, start, pc : Fits(action, pc) /\ Starting(e, action, start, pc) BY WebhookForm
<1> DEFINE r == [pc |-> pc, action |-> action, start |-> start, seen |-> call[e].seen,
               asOf |-> call[e].asOf, email |-> call[e].email, service |-> call[e].service,
               unsent |-> call[e].unsent]
<1>1. call' = [call EXCEPT ![e] = [call[e] EXCEPT !.action = action, !.start = start, !.pc = pc]]
  BY DEF CallShape, Starting
<1>2. IsCall(call[e]) BY DEF CallShape
<1>3. /\ call'[e] = [call[e] EXCEPT !.action = action, !.start = start, !.pc = pc] /\ Others(e)
      /\ call' = [d \in Calls |-> call'[d]]
  BY <1>1 DEF CallShape, Others
<1>4. call'[e] = r BY <1>2, <1>3 DEF IsCall
<1>5. IsCall(r) /\ r.pc = pc /\ r.action = action /\ r.asOf = call[e].asOf /\ r.unsent = call[e].unsent
  BY DEF IsCall
<1>6. pc \in {"post", "patch", "get_by_id", "get_by_client"} BY DEF Fits
<1> HIDE DEF r
<1> QED BY <1>3, <1>4, <1>5, <1>6, Replace

\* A call between the search of the sent mail and the mail.
InMail(e) == call[e].pc \in {"claim", "send"}
Keeps(e) == /\ call'[e].action = call[e].action /\ call'[e].seen = call[e].seen
            /\ call'[e].email = call[e].email

-----------------------------------------------------------------------------
\* MailedOnce. As long as neither the search nor the claim failed, a call that
\* sends holds the claim of its key, alone, and no mail of that key was sent; a
\* call about to claim a key that was sent meanwhile finds it claimed.
MailInv ==
    /\ CallShape
    /\ mailedTwice => unguarded
    /\ unguarded \in BOOLEAN
    /\ ~unguarded =>
         /\ \A e \in Calls : At(e, "send") => EventKey(e) \in claims /\ EventKey(e) \notin sent
         /\ \A e \in Calls : At(e, "claim") /\ EventKey(e) \in sent => EventKey(e) \in claims
         /\ \A e, f \in Calls : At(e, "send") /\ At(f, "send") /\ e # f => EventKey(e) # EventKey(f)

\* Any step of a call that does not end between the search and the mail, and
\* leaves the mails, the claims and the other calls.
LEMMA OutsideMail ==
    ASSUME MailInv, NEW e \in Calls, CallShape', Others(e), ~InMail(e)',
           UNCHANGED <<sent, claims, mailedTwice, unguarded>>
    PROVE  MailInv'
<1>1. \A d \in Calls \ {e} : EventKey(d)' = EventKey(d) /\ \A pc : At(d, pc)' = At(d, pc)
  BY DEF Others, EventKey, At
<1>2. ~At(e, "send")' /\ ~At(e, "claim")' BY DEF InMail, At
<1> QED BY <1>1, <1>2 DEF MailInv

\* A step of the mail: the call keeps what its key is made of.
LEMMA SameKeys ==
    ASSUME NEW e \in Calls, Others(e), Keeps(e)
    PROVE  /\ \A d \in Calls : EventKey(d)' = EventKey(d)
           /\ \A d \in Calls \ {e} : \A pc : At(d, pc)' = At(d, pc)
<1>1. EventKey(e)' = EventKey(e) BY DEF Keeps, EventKey
<1>2. \A d \in Calls \ {e} : EventKey(d)' = EventKey(d) BY DEF Others, EventKey
<1> QED BY <1>1, <1>2 DEF Others, At

\* The search for a sent mail.
LEMMA SearchKeepsMail ==
    ASSUME MailInv, NEW e \in Calls, FindSentNotification(e)
    PROVE  MailInv'
<1>1. CallShape BY DEF MailInv
<1>2. CASE GoTo(e, "return_context") /\ UNCHANGED unguarded
  <2>1. CallShape' /\ Others(e) /\ ~InMail(e)' BY <1>1, <1>2, GoToShape DEF InMail
  <2> QED BY <1>2, <2>1, OutsideMail DEF FindSentNotification
<1>3. CASE GoTo(e, "claim")
  <2>1. CallShape' /\ Others(e) /\ Keeps(e) /\ At(e, "claim")' BY <1>1, <1>3, GoToShape DEF Keeps, At
  <2>2. UNCHANGED <<sent, claims, mailedTwice>> BY DEF FindSentNotification
  <2>3. ~At(e, "send")' BY <2>1 DEF At
  <2>4. CASE unguarded' = TRUE BY <2>1, <2>2, <2>4 DEF MailInv
  <2>5. CASE UNCHANGED unguarded /\ EventKey(e) \notin sent
    BY <2>1, <2>2, <2>3, <2>5, SameKeys DEF MailInv
  <2>6. unguarded' = TRUE \/ (UNCHANGED unguarded /\ EventKey(e) \notin sent)
    <3>1. CASE At(e, "find_sent") /\ GoTo(e, "return_context")
      <4>1. At(e, "return_context")' BY <1>1, <3>1, GoToShape DEF At
      <4> QED BY <2>1, <4>1 DEF At
    <3> QED BY <3>1 DEF FindSentNotification, EmailAlreadySent
  <2> QED BY <2>4, <2>5, <2>6
<1> QED BY <1>2, <1>3 DEF FindSentNotification

\* The claim in Redis: the first to count the key goes on.
LEMMA ClaimKeepsMail ==
    ASSUME MailInv, NEW e \in Calls, ClaimNotification(e)
    PROVE  MailInv'
<1>1. CallShape BY DEF MailInv
<1>2. At(e, "claim") /\ UNCHANGED <<sent, mailedTwice>> BY DEF ClaimNotification
<1>3. CASE unguarded' = TRUE
  <2>1. \E pc : GoTo(e, pc) BY DEF ClaimNotification
  <2>2. CallShape' BY <1>1, <2>1, GoToShape
  <2> QED BY <1>2, <1>3, <2>2 DEF MailInv
<1>4. CASE UNCHANGED unguarded /\ claims' = claims \cup {EventKey(e)} /\ EventKey(e) \notin claims /\ GoTo(e, "send")
  <2>1. CallShape' /\ Others(e) /\ Keeps(e) /\ At(e, "send")' /\ ~At(e, "claim")'
    BY <1>1, <1>4, GoToShape DEF Keeps, At
  <2>2. CASE unguarded BY <1>2, <1>4, <2>1, <2>2 DEF MailInv
  <2>3. CASE ~unguarded
    <3>1. EventKey(e) \notin sent BY <1>2, <1>4, <2>3 DEF MailInv
    <3>2. \A d \in Calls \ {e} : At(d, "send") => EventKey(d) # EventKey(e) BY <1>4, <2>3 DEF MailInv
    <3> DEFINE key == EventKey(e)
    <3>3. \A d \in Calls : EventKey(d)' = EventKey(d) BY <2>1, SameKeys
    <3>4. \A d \in Calls \ {e} : \A pc : At(d, pc)' = At(d, pc) BY <2>1, SameKeys
    <3>5. \A d \in Calls : At(d, "send")' => EventKey(d)' \in claims' /\ EventKey(d)' \notin sent'
      BY <1>2, <1>4, <2>3, <3>1, <3>3, <3>4 DEF MailInv
    <3>6. \A d \in Calls : At(d, "claim")' /\ EventKey(d)' \in sent' => EventKey(d)' \in claims'
      BY <1>2, <1>4, <2>1, <2>3, <3>3, <3>4 DEF MailInv
    <3>7. \A d, f \in Calls : At(d, "send")' /\ At(f, "send")' /\ d # f => EventKey(d)' # EventKey(f)'
      BY <2>3, <3>2, <3>3, <3>4 DEF MailInv
    <3> QED BY <1>2, <1>4, <2>1, <3>5, <3>6, <3>7 DEF MailInv
  <2> QED BY <2>2, <2>3
<1>5. CASE UNCHANGED unguarded /\ claims' = claims \cup {EventKey(e)} /\ EventKey(e) \in claims /\ GoTo(e, "return_context")
  <2>1. CallShape' /\ Others(e) /\ ~InMail(e)' BY <1>1, <1>5, GoToShape DEF InMail
  <2>2. UNCHANGED claims BY <1>5
  <2> QED BY <1>2, <1>5, <2>1, <2>2, OutsideMail
<1> QED BY <1>3, <1>4, <1>5 DEF ClaimNotification, NotificationClaimed

\* The mail: nobody else holds the claim of its key.
LEMMA SendKeepsMail ==
    ASSUME MailInv, NEW e \in Calls, NEW action, SendEmail(e, action, Unsent(e))
    PROVE  MailInv'
<1>1. CallShape BY DEF MailInv
<1>2. At(e, "send") /\ UNCHANGED <<claims, unguarded>> BY DEF SendEmail
<1>3. CASE Unsent(e) /\ UNCHANGED <<sent, mailedTwice>>
  <2>1. CallShape' /\ Others(e) /\ ~InMail(e)' BY <1>1, <1>3, UnsentShape DEF InMail
  <2> QED BY <1>2, <1>3, <2>1, OutsideMail
<1>4. CASE /\ GoTo(e, "return_context") \/ Unsent(e)
           /\ sent' = sent \cup {EventKey(e)} /\ mailedTwice' = (mailedTwice \/ EventKey(e) \in sent)
  <2>1. CallShape' /\ Others(e) /\ Keeps(e) /\ ~At(e, "send")' /\ ~At(e, "claim")'
    <3>1. CASE GoTo(e, "return_context") BY <1>1, <3>1, GoToShape DEF Keeps, At
    <3>2. CASE Unsent(e) BY <1>1, <3>2, UnsentShape DEF Keeps, At
    <3> QED BY <1>4, <3>1, <3>2
  <2>2. CASE unguarded BY <1>2, <2>1, <2>2 DEF MailInv
  <2>3. CASE ~unguarded
    <3>1. EventKey(e) \in claims /\ EventKey(e) \notin sent BY <1>2, <2>3 DEF MailInv
    <3>2. \A d \in Calls \ {e} : At(d, "send") => EventKey(d) # EventKey(e) BY <1>2, <2>3 DEF MailInv
    <3>3. \A d \in Calls : EventKey(d)' = EventKey(d) BY <2>1, SameKeys
    <3>4. \A d \in Calls \ {e} : \A pc : At(d, pc)' = At(d, pc) BY <2>1, SameKeys
    <3>5. \A d \in Calls : At(d, "send")' => EventKey(d)' \in claims' /\ EventKey(d)' \notin sent'
      BY <1>2, <1>4, <2>1, <2>3, <3>2, <3>3, <3>4 DEF MailInv
    <3>6. \A d \in Calls : At(d, "claim")' /\ EventKey(d)' \in sent' => EventKey(d)' \in claims'
      BY <1>2, <1>4, <2>1, <2>3, <3>1, <3>3, <3>4 DEF MailInv
    <3>7. \A d, f \in Calls : At(d, "send")' /\ At(f, "send")' /\ d # f => EventKey(d)' # EventKey(f)'
      BY <2>1, <2>3, <3>3, <3>4 DEF MailInv
    <3>8. mailedTwice' => unguarded' BY <1>2, <1>4, <2>3, <3>1 DEF MailInv
    <3> QED BY <1>2, <2>1, <3>5, <3>6, <3>7, <3>8 DEF MailInv
  <2> QED BY <2>2, <2>3
<1> QED BY <1>3, <1>4 DEF SendEmail, Mails

\* A step of the calls that is not one of the mail's ends outside of it.
LEMMA CallKeepsMail ==
    ASSUME MailInv, NEW e \in Calls, CallStep(e)
    PROVE  MailInv'
<1>1. CallShape BY DEF MailInv
<1>2. CASE Webhook(e)
  <2>1. CallShape' /\ Others(e) /\ ~InMail(e)' BY <1>1, <1>2, WebhookShape DEF InMail
  <2> QED BY <1>2, <2>1, OutsideMail DEF Webhook
<1>3. CASE Post(e) \/ Patch(e)
  <2>1. GoTo(e, "failed") \/ \E new : Seen(e, new)
    BY <1>3 DEF Post, Patch, Write, ErrorReport20, ErrorReport19, StopAndError
  <2>2. CallShape' /\ Others(e) /\ ~InMail(e)' BY <1>1, <2>1, GoToShape, SeenShape DEF InMail
  <2>3. UNCHANGED <<sent, claims, mailedTwice, unguarded>> BY <1>3 DEF Post, Patch, Write
  <2> QED BY <2>2, <2>3, OutsideMail
<1>4. CASE Cancel(e)
  <2>1. \/ GoTo(e, "failed")
        \/ Canceled(e)
    BY <1>4 DEF Cancel, Canceled, ErrorReport21, StopAndError
  <2>2. CallShape' /\ Others(e) /\ ~InMail(e)' BY <1>1, <2>1, GoToShape, CanceledShape DEF InMail
  <2> QED BY <1>4, <2>2, OutsideMail DEF Cancel
<1>5. CASE GetAppointmentById(e) \/ GetByClient(e)
  <2>1. GoTo(e, "failed") \/ GoTo(e, "returned") \/ \E new : Seen(e, new)
    BY <1>5 DEF GetAppointmentById, GetByClient, Read, ErrorReport18, ErrorReport16, StopAndError
  <2>2. CallShape' /\ Others(e) /\ ~InMail(e)' BY <1>1, <2>1, GoToShape, SeenShape DEF InMail
  <2>3. UNCHANGED <<sent, claims, mailedTwice, unguarded>>
    BY <1>5 DEF GetAppointmentById, GetByClient, Read
  <2> QED BY <2>2, <2>3, OutsideMail
<1>6. CASE ProfessionalContext(e)
  <2>1. CallShape' /\ Others(e) /\ ~InMail(e)' BY <1>1, <1>6, GoToShape DEF InMail, ProfessionalContext
  <2> QED BY <1>6, <2>1, OutsideMail DEF ProfessionalContext, NoChange
<1>7. CASE ServiceContext(e)
  <2>1. GoTo(e, "failed") \/ TakesEmail(e, "service", read[e].got)
    BY <1>7 DEF ServiceContext, StopAndError, TakesEmail
  <2>2. CallShape' /\ Others(e) /\ ~InMail(e)' BY <1>1, <2>1, GoToShape, EmailShape DEF InMail
  <2> QED BY <1>7, <2>2, OutsideMail DEF ServiceContext, NoChange
<1>8. CASE AppointmentContext(e)
  <2> DEFINE pc == Action1(call[e].action)
  <2> DEFINE got == read[e].got
  <2>1. GoTo(e, "failed") \/ TakesService(e, pc, got)
    BY <1>8 DEF AppointmentContext, StopAndError, TakesService
  <2>2. pc \notin {"claim", "send"} BY DEF Action1
  <2> HIDE DEF pc, got
  <2>3. CallShape' /\ Others(e) /\ ~InMail(e)'
    <3>1. CASE GoTo(e, "failed") BY <1>1, <3>1, GoToShape DEF InMail
    <3>2. CASE TakesService(e, pc, got)
      BY <1>1, <2>2, <3>2, ServiceShape DEF InMail
    <3> QED BY <2>1, <3>1, <3>2
  <2> QED BY <1>8, <2>3, OutsideMail DEF AppointmentContext, NoChange
<1>9. CASE PrepareEmailNotification(e)
  <2>1. GoTo(e, "find_sent") \/ GoTo(e, "return_context") BY <1>9 DEF PrepareEmailNotification
  <2>2. CallShape' /\ Others(e) /\ ~InMail(e)' BY <1>1, <2>1, GoToShape DEF InMail
  <2> QED BY <1>9, <2>2, OutsideMail DEF PrepareEmailNotification
<1>10. CASE FindSentNotification(e) BY <1>10, SearchKeepsMail
<1>11. CASE ClaimNotification(e) BY <1>11, ClaimKeepsMail
<1>12. CASE ConfirmationEmail(e) \/ UpdateEmail(e) \/ DeleteEmail(e)
  <2>1. CASE ConfirmationEmail(e) BY <2>1, SendKeepsMail DEF ConfirmationEmail, ErrorReport24
  <2>2. CASE UpdateEmail(e) BY <2>2, SendKeepsMail DEF UpdateEmail, ErrorReport26
  <2>3. CASE DeleteEmail(e) BY <2>3, SendKeepsMail DEF DeleteEmail, ErrorReport
  <2> QED BY <1>12, <2>1, <2>2, <2>3
<1>13. CASE ReturnContext(e)
  <2>1. CallShape' /\ Others(e) /\ ~InMail(e)' BY <1>1, <1>13, GoToShape DEF InMail, ReturnContext
  <2> QED BY <1>13, <2>1, OutsideMail DEF ReturnContext, NoChange
<1> QED BY <1>2, <1>3, <1>4, <1>5, <1>6, <1>7, <1>8, <1>9, <1>10, <1>11, <1>12, <1>13 DEF CallStep

\* However many calls repeat a change at once, and whatever else fails, one mail
\* tells it, unless the search for a sent mail or a claim failed.
THEOREM ToolMailedOnce == Spec => []MailedOnce
<1>1. Init => MailInv
  <2> SUFFICES ASSUME Init PROVE MailInv
    OBVIOUS
  <2>1. call = [e \in Calls |-> Idle] BY DEF Init
  <2>2. IsCall(Idle) /\ Idle.pc = "idle" BY DEF IsCall, Idle
  <2>3. CallShape /\ \A e \in Calls : call[e].pc = "idle" BY <2>1, <2>2 DEF CallShape
  <2> QED BY <2>3 DEF Init, MailInv, At
<1>2. MailInv /\ [Next]_vars => MailInv'
  <2> SUFFICES ASSUME MailInv, [Next]_vars PROVE MailInv'
    OBVIOUS
  <2>1. ASSUME NEW e \in Calls, CallStep(e) PROVE MailInv' BY <2>1, CallKeepsMail
  <2>2. ASSUME NEW e \in Calls, AgentReads(e) PROVE MailInv'
    <3>1. CallShape' /\ Others(e) /\ ~InMail(e)' BY <2>2, GoToShape DEF InMail, AgentReads, MailInv
    <3> QED BY <2>2, <3>1, OutsideMail DEF AgentReads, NoChange
  <2>3. ASSUME NEW key \in claims, ClaimExpires(key) PROVE MailInv'
    <3>1. \A e \in Calls : At(e, "claim") \/ At(e, "send") => EventKey(e) # key
      BY <2>3 DEF ClaimExpires, At
    <3>2. claims' = claims \ {key} /\ UNCHANGED <<call, sent, mailedTwice, unguarded>>
      BY <2>3 DEF ClaimExpires
    <3>3. \A e \in Calls : EventKey(e)' = EventKey(e) /\ \A pc : At(e, pc)' = At(e, pc)
      BY <3>2 DEF EventKey, At
    <3> QED BY <3>1, <3>2, <3>3 DEF MailInv, CallShape
  <2>4. CASE UNCHANGED toolVars
    <3>1. UNCHANGED <<call, sent, claims, mailedTwice, unguarded>> BY <2>4 DEF toolVars
    <3>2. \A e \in Calls : EventKey(e)' = EventKey(e) /\ \A pc : At(e, pc)' = At(e, pc)
      BY <3>1 DEF EventKey, At
    <3> QED BY <3>1, <3>2 DEF MailInv, CallShape
  <2> QED BY <2>1, <2>2, <2>3, <2>4 DEF Next, vars
<1>3. MailInv => MailedOnce BY DEF MailInv, MailedOnce
<1> QED BY <1>1, <1>2, <1>3, PTL DEF Spec

-----------------------------------------------------------------------------
\* RecipientCurrent. The version a call holds of the professional's row, and the
\* one that its read of the row itself holds, are not older than what was
\* confirmed when the appointment was read or written.
WithEmail == {"service", "cancel", "prepare_email", "find_sent", "claim", "send"}

IsRead(r) ==
    r = [pc |-> r.pc, item |-> r.item, fresh |-> r.fresh, since |-> r.since, got |-> r.got,
         rows |-> r.rows, left |-> r.left]

Fetching(e) ==
    /\ IsRead(read[e]) /\ read[e].item = professional
    /\ read[e].pc \in {"get_by_id", "push_context_1", "done", "failed"}
    /\ read[e].pc \in {"push_context_1", "done"} =>
          read[e].got \in Int /\ read[e].got >= call[e].asOf

CallCurrent(e) ==
    /\ call[e].asOf \in Int /\ call[e].asOf <= row[professional]
    /\ At(e, "professional") => Fetching(e)
    /\ call[e].pc \in WithEmail => call[e].email \in Int /\ call[e].email >= call[e].asOf

CurrentInv ==
    /\ CallShape /\ read = [r \in Reads |-> read[r]] /\ row \in [Items -> Nat]
    /\ \A e \in Calls : CallCurrent(e)

\* What was confirmed of the professional is no newer than the row.
LEMMA ConfirmedBound ==
    ASSUME CurrentInv
    PROVE  Confirmed(professional) \in Int /\ Confirmed(professional) <= row[professional]
<1>1. professional \in Items BY ToolAssumption DEF Items
<1>2. row[professional] \in Int BY <1>1 DEF CurrentInv
<1> QED BY <1>2 DEF Confirmed

\* A step of one call that reads nothing of the contexts.
LEMMA CallAlone ==
    ASSUME CurrentInv, NEW e \in Calls, CallShape', Others(e), UNCHANGED <<row, read>>,
           call'[e].pc # "professional",
           call'[e].asOf = call[e].asOf \/ call'[e].asOf = Confirmed(professional),
           call'[e].pc \in WithEmail => call'[e].email \in Int /\ call'[e].email >= call'[e].asOf
    PROVE  CurrentInv'
<1>1. call'[e].asOf \in Int /\ call'[e].asOf <= row'[professional]
  BY ConfirmedBound DEF CurrentInv, CallCurrent
<1>2. CallCurrent(e)' BY <1>1 DEF CallCurrent, At
<1>3. \A d \in Calls \ {e} : CallCurrent(d)' BY DEF CurrentInv, CallCurrent, Fetching, Others, At
<1>4. \A d \in Calls : CallCurrent(d)' BY <1>2, <1>3
<1> QED BY <1>4 DEF CurrentInv

\* A call that goes on with the address it has, or to where it needs none.
LEMMA CallGoesOn ==
    ASSUME CurrentInv, NEW e \in Calls, NEW pc, GoTo(e, pc), UNCHANGED <<row, read>>,
           pc # "professional", pc \in WithEmail => call[e].pc \in WithEmail
    PROVE  CurrentInv'
<1>1. CallShape BY DEF CurrentInv
<1>2. /\ CallShape' /\ Others(e) /\ call'[e].pc = pc
      /\ call'[e].email = call[e].email /\ call'[e].asOf = call[e].asOf
  BY <1>1, GoToShape
<1>3. call'[e].pc \in WithEmail => call'[e].email \in Int /\ call'[e].email >= call'[e].asOf
  BY <1>2 DEF CurrentInv, CallCurrent
<1> QED BY <1>2, <1>3, CallAlone

\* A call whose mail failed needs no address.
LEMMA CallUnsent ==
    ASSUME CurrentInv, NEW e \in Calls, Unsent(e), UNCHANGED <<row, read>>
    PROVE  CurrentInv'
<1>1. CallShape' /\ Others(e) /\ call'[e].pc = "return_context" /\ call'[e].asOf = call[e].asOf
  BY UnsentShape DEF CurrentInv
<1>2. call'[e].pc # "professional" /\ call'[e].pc \notin WithEmail BY <1>1 DEF WithEmail
<1> QED BY <1>1, <1>2, CallAlone

\* A call that reads or writes the appointment remembers what was confirmed by then.
LEMMA CallSees ==
    ASSUME CurrentInv, NEW e \in Calls, NEW new, Seen(e, new), UNCHANGED <<row, read>>
    PROVE  CurrentInv'
<1>1. /\ CallShape' /\ Others(e) /\ call'[e].pc = "professional_context"
      /\ call'[e].asOf = Confirmed(professional)
  BY SeenShape DEF CurrentInv
<1>2. call'[e].pc # "professional" /\ call'[e].pc \notin WithEmail BY <1>1 DEF WithEmail
<1> QED BY <1>1, <1>2, CallAlone

\* Of a new read of the professional's row itself.
LEMMA FreshRead ==
    ASSUME CurrentInv, NEW e \in Calls, StartRead(e, professional, "id", TRUE)
    PROVE  /\ read' = [r \in Reads |-> read'[r]] /\ \A d \in Calls \ {e} : read'[d] = read[d]
           /\ IsRead(read'[e]) /\ read'[e].item = professional /\ read'[e].pc = "get_by_id"
<1>1. e \in Reads BY ToolAssumption
<1> DEFINE r == [pc |-> "get_by_id", item |-> professional, fresh |-> TRUE,
                 since |-> Confirmed(professional), got |-> None, rows |-> None, left |-> {}]
<1>2. read' = [read EXCEPT ![e] = [NotReading EXCEPT
                  !.item = professional, !.fresh = TRUE, !.since = Confirmed(professional),
                  !.pc = "get_by_id"]]
  BY DEF StartRead, FreshId
<1>3. /\ read'[e] = [NotReading EXCEPT
                  !.item = professional, !.fresh = TRUE, !.since = Confirmed(professional),
                  !.pc = "get_by_id"]
      /\ read' = [d \in Reads |-> read'[d]] /\ \A d \in Calls \ {e} : read'[d] = read[d]
  BY <1>1, <1>2, ToolAssumption DEF CurrentInv
<1>4. read'[e] = r BY <1>3 DEF NotReading
<1>5. IsRead(r) BY DEF IsRead
<1> QED BY <1>3, <1>4, <1>5

\* The read of the professional starts at the row itself.
LEMMA ContextOfProfessional ==
    ASSUME CurrentInv, NEW e \in Calls, ProfessionalContext(e)
    PROVE  CurrentInv'
<1>1. CallShape' /\ Others(e) /\ call'[e].pc = "professional" /\ call'[e].asOf = call[e].asOf
  BY GoToShape DEF CurrentInv, ProfessionalContext
<1>2. /\ read' = [r \in Reads |-> read'[r]] /\ \A d \in Calls \ {e} : read'[d] = read[d]
      /\ IsRead(read'[e]) /\ read'[e].item = professional /\ read'[e].pc = "get_by_id"
  BY FreshRead DEF ProfessionalContext
<1>3. UNCHANGED row BY DEF ProfessionalContext
<1>4. Fetching(e)' BY <1>2 DEF Fetching
<1>5. CallCurrent(e)' BY <1>1, <1>3, <1>4 DEF CurrentInv, CallCurrent, WithEmail
<1>6. \A d \in Calls \ {e} : CallCurrent(d)'
  BY <1>1, <1>2, <1>3 DEF CurrentInv, CallCurrent, Fetching, Others, At
<1>7. \A d \in Calls : CallCurrent(d)' BY <1>5, <1>6
<1> QED BY <1>1, <1>2, <1>3, <1>7 DEF CurrentInv

\* The address is the one that this read got.
LEMMA ContextOfService ==
    ASSUME CurrentInv, NEW e \in Calls, ServiceContext(e)
    PROVE  CurrentInv'
<1>1. CallShape /\ UNCHANGED row BY DEF CurrentInv, ServiceContext
<1>2. Fetching(e) BY DEF CurrentInv, CallCurrent, ServiceContext
<1>3. CASE GoTo(e, "failed") /\ UNCHANGED read BY <1>1, <1>3, CallGoesOn DEF WithEmail
<1>4. CASE /\ read[e].pc = "done" /\ TakesEmail(e, "service", read[e].got)
           /\ read' = [read EXCEPT ![e] = [NotReading EXCEPT
                          !.pc = "get_context_1", !.item = service, !.since = Confirmed(service)]]
  <2> DEFINE got == read[e].got
  <2>1. got \in Int /\ got >= call[e].asOf BY <1>2, <1>4 DEF Fetching
  <2>2. TakesEmail(e, "service", got) BY <1>4
  <2> HIDE DEF got
  <2>3. /\ CallShape' /\ Others(e) /\ call'[e].pc = "service"
        /\ call'[e].email = got /\ call'[e].asOf = call[e].asOf
    BY <1>1, <2>2, EmailShape
  <2>4. /\ read' = [d \in Reads |-> read'[d]] /\ \A d \in Calls \ {e} : read'[d] = read[d]
    BY <1>4, ToolAssumption DEF CurrentInv
  <2>5. CallCurrent(e)' BY <1>1, <2>1, <2>3 DEF CurrentInv, CallCurrent, At
  <2>6. \A d \in Calls \ {e} : CallCurrent(d)'
    BY <1>1, <2>3, <2>4 DEF CurrentInv, CallCurrent, Fetching, Others, At
  <2>7. \A d \in Calls : CallCurrent(d)' BY <2>5, <2>6
  <2> QED BY <1>1, <2>3, <2>4, <2>7 DEF CurrentInv
<1>5. read[e].pc = "done" \/ ReadAt(e, "failed") BY DEF ServiceContext, ReadAt
<1> QED BY <1>3, <1>4, <1>5 DEF ServiceContext, StopAndError, ReadAt, TakesEmail

\* The service does not touch the address.
LEMMA ContextOfAppointment ==
    ASSUME CurrentInv, NEW e \in Calls, AppointmentContext(e)
    PROVE  CurrentInv'
<1>1. CallShape /\ UNCHANGED <<row, read>> /\ call[e].pc = "service"
  BY DEF CurrentInv, AppointmentContext, At
<1>2. CASE GoTo(e, "failed") BY <1>1, <1>2, CallGoesOn DEF WithEmail
<1> DEFINE pc == Action1(call[e].action)
<1> DEFINE got == read[e].got
<1>3. CASE TakesService(e, pc, got)
  <2>1. pc # "professional" BY DEF Action1
  <2> HIDE DEF pc, got
  <2>2. /\ CallShape' /\ Others(e) /\ call'[e].pc = pc
        /\ call'[e].email = call[e].email /\ call'[e].asOf = call[e].asOf
    BY <1>1, <1>3, ServiceShape
  <2>3. call[e].email \in Int /\ call[e].email >= call[e].asOf
    BY <1>1 DEF CurrentInv, CallCurrent, WithEmail
  <2> QED BY <1>1, <2>1, <2>2, <2>3, CallAlone
<1> QED BY <1>2, <1>3 DEF AppointmentContext, StopAndError, TakesService

\* The cancellation comes after the address.
LEMMA CancelKeepsCurrent ==
    ASSUME CurrentInv, NEW e \in Calls, Cancel(e)
    PROVE  CurrentInv'
<1>1. CallShape /\ UNCHANGED <<row, read>> /\ call[e].pc = "cancel" BY DEF CurrentInv, Cancel, At
<1>2. CASE GoTo(e, "failed") BY <1>1, <1>2, CallGoesOn DEF WithEmail
<1>3. CASE Canceled(e)
  <2>1. /\ CallShape' /\ Others(e) /\ call'[e].pc = "prepare_email"
        /\ call'[e].email = call[e].email /\ call'[e].asOf = call[e].asOf
    BY <1>1, <1>3, CanceledShape
  <2>2. call[e].email \in Int /\ call[e].email >= call[e].asOf
    BY <1>1 DEF CurrentInv, CallCurrent, WithEmail
  <2>3. call'[e].pc # "professional" BY <2>1
  <2> QED BY <1>1, <2>1, <2>2, <2>3, CallAlone
<1> QED BY <1>2, <1>3 DEF Cancel, Canceled, ErrorReport21, StopAndError

\* Every step of a call keeps the address current.
LEMMA CallKeepsCurrent ==
    ASSUME CurrentInv, NEW e \in Calls, CallStep(e)
    PROVE  CurrentInv'
<1>1. CallShape BY DEF CurrentInv
<1>2. CASE Webhook(e)
  <2>1. /\ CallShape' /\ Others(e) /\ call'[e].asOf = call[e].asOf
        /\ call'[e].pc \in {"post", "patch", "get_by_id", "get_by_client"}
    BY <1>1, <1>2, WebhookShape
  <2>2. call'[e].pc # "professional" /\ call'[e].pc \notin WithEmail BY <2>1 DEF WithEmail
  <2> QED BY <1>2, <2>1, <2>2, CallAlone DEF Webhook
<1>3. CASE Post(e) \/ Patch(e)
  <2>1. GoTo(e, "failed") \/ \E new : Seen(e, new)
    BY <1>3 DEF Post, Patch, Write, ErrorReport20, ErrorReport19, StopAndError
  <2>2. UNCHANGED <<row, read>> BY <1>3 DEF Post, Patch, Write
  <2> QED BY <2>1, <2>2, CallGoesOn, CallSees DEF WithEmail
<1>4. CASE GetAppointmentById(e) \/ GetByClient(e)
  <2>1. GoTo(e, "failed") \/ GoTo(e, "returned") \/ \E new : Seen(e, new)
    BY <1>4 DEF GetAppointmentById, GetByClient, Read, ErrorReport18, ErrorReport16, StopAndError
  <2>2. UNCHANGED <<row, read>> BY <1>4 DEF GetAppointmentById, GetByClient, Read
  <2> QED BY <2>1, <2>2, CallGoesOn, CallSees DEF WithEmail
<1>5. CASE PrepareEmailNotification(e)
  <2>1. (GoTo(e, "find_sent") \/ GoTo(e, "return_context")) /\ UNCHANGED <<row, read>> /\ call[e].pc \in WithEmail
    BY <1>5 DEF PrepareEmailNotification, WithEmail, At
  <2> QED BY <2>1, CallGoesOn DEF WithEmail
<1>6. CASE FindSentNotification(e)
  <2>1. (GoTo(e, "claim") \/ GoTo(e, "return_context")) /\ UNCHANGED <<row, read>> /\ call[e].pc \in WithEmail
    BY <1>6 DEF FindSentNotification, WithEmail, At
  <2> QED BY <2>1, CallGoesOn DEF WithEmail
<1>7. CASE ClaimNotification(e)
  <2>1. (GoTo(e, "send") \/ GoTo(e, "return_context")) /\ UNCHANGED <<row, read>> /\ call[e].pc \in WithEmail
    BY <1>7 DEF ClaimNotification, WithEmail, At
  <2> QED BY <2>1, CallGoesOn DEF WithEmail
<1>8. CASE ConfirmationEmail(e) \/ UpdateEmail(e) \/ DeleteEmail(e)
  <2>1. (GoTo(e, "return_context") \/ Unsent(e)) /\ UNCHANGED <<row, read>>
    BY <1>8 DEF ConfirmationEmail, UpdateEmail, DeleteEmail, SendEmail, ErrorReport24, ErrorReport26, ErrorReport
  <2> QED BY <2>1, CallGoesOn, CallUnsent DEF WithEmail
<1>9. CASE ReturnContext(e)
  BY <1>9, CallGoesOn DEF ReturnContext, WithEmail
<1> QED BY <1>2, <1>3, <1>4, <1>5, <1>6, <1>7, <1>8, <1>9, CancelKeepsCurrent, ContextOfProfessional,
           ContextOfService, ContextOfAppointment DEF CallStep

\* A step of one read leaves the others.
Elsewhere(r) == read' = [d \in Reads |-> read'[d]] /\ \A d \in Reads \ {r} : read'[d] = read[d]

\* A step of a read writes that read alone, and no row.
LEMMA ReadAlone ==
    ASSUME CurrentInv, NEW r \in Reads, ReadStep(r)
    PROVE  Elsewhere(r) /\ UNCHANGED row
<1>1. read = [d \in Reads |-> read[d]] BY DEF CurrentInv
<1>2. ASSUME NEW pc, ReadGoes(r, pc) PROVE Elsewhere(r) BY <1>1, <1>2 DEF ReadGoes, Elsewhere
<1>3. ASSUME NEW version, Answer(r, version) PROVE Elsewhere(r) BY <1>1, <1>3 DEF Answer, Elsewhere
<1> USE DEF Report, StopRead
<1>4. CASE GetAll(r)
  BY <1>1, <1>2, <1>4 DEF GetAll, Elsewhere, ProfessionalsErrorReport2, ServicesErrorReport2
<1>5. CASE GetContext(r)
  BY <1>1, <1>2, <1>3, <1>5 DEF GetContext, Elsewhere, ProfessionalsErrorReport18, ServicesErrorReport
<1>6. CASE PushContext(r)
  BY <1>1, <1>3, <1>6 DEF PushContext, Elsewhere, ProfessionalsErrorReport27, ServicesErrorReport1
<1>7. CASE GetContext1(r)
  BY <1>2, <1>3, <1>7 DEF GetContext1, ProfessionalsErrorReport25, ServicesErrorReport23
<1>8. CASE GetById(r)
  BY <1>1, <1>2, <1>8 DEF GetById, Elsewhere, ProfessionalsErrorReport1, ServicesErrorReport12
<1>9. CASE PushContext1(r)
  BY <1>2, <1>9 DEF PushContext1, ProfessionalsErrorReport26, ServicesErrorReport24
<1>10. CASE GetContext2(r)
  BY <1>2, <1>3, <1>10 DEF GetContext2, ProfessionalsErrorReport23, ServicesErrorReport21
<1>11. CASE GetByName(r)
  BY <1>1, <1>2, <1>11 DEF GetByName, Elsewhere, ProfessionalsErrorReport, ServicesErrorReport11
<1>12. CASE PushContext2(r)
  BY <1>2, <1>12 DEF PushContext2, ProfessionalsErrorReport24, ServicesErrorReport22
<1>13. UNCHANGED row
  BY DEF ReadStep, GetAll, GetContext, PushContext, GetContext1, GetById, PushContext1,
     GetContext2, GetByName, PushContext2
<1> QED BY <1>4, <1>5, <1>6, <1>7, <1>8, <1>9, <1>10, <1>11, <1>12, <1>13 DEF ReadStep

\* The read of a call that waits for the professional is at the row itself, and
\* gets a version of this moment.
LEMMA FetchingGoesOn ==
    ASSUME CurrentInv, NEW e \in Calls, At(e, "professional"), ReadStep(e), UNCHANGED <<call, row>>
    PROVE  Fetching(e)'
<1>1. /\ e \in Reads /\ read = [d \in Reads |-> read[d]] /\ Fetching(e)
      /\ call[e].asOf \in Int /\ call[e].asOf <= row[professional] /\ row[professional] \in Int
  BY ToolAssumption DEF CurrentInv, CallCurrent, Items
<1>2. GetById(e) \/ PushContext1(e)
  BY <1>1 DEF ReadStep, GetAll, GetContext, PushContext, GetContext1, GetContext2, GetByName, PushContext2,
     ReadAt, Fetching
<1>3. ASSUME NEW pc, ReadGoes(e, pc)
      PROVE  IsRead(read'[e]) /\ read'[e].pc = pc /\ read'[e].item = read[e].item /\ read'[e].got = read[e].got
  <2> DEFINE r == [pc |-> pc, item |-> read[e].item, fresh |-> read[e].fresh, since |-> read[e].since,
                   got |-> read[e].got, rows |-> read[e].rows, left |-> read[e].left]
  <2>1. read' = [read EXCEPT ![e] = [read[e] EXCEPT !.pc = pc]] BY <1>1, <1>3 DEF ReadGoes
  <2>2. read'[e] = [read[e] EXCEPT !.pc = pc] BY <1>1, <2>1
  <2>3. read'[e] = r BY <1>1, <2>2 DEF Fetching, IsRead
  <2>4. IsRead(r) BY DEF IsRead
  <2> QED BY <2>3, <2>4
<1>4. CASE PushContext1(e) /\ ReadGoes(e, "done")
  <2>1. read[e].pc = "push_context_1" BY <1>4 DEF PushContext1, ReadAt
  <2> QED BY <1>1, <1>3, <1>4, <2>1 DEF Fetching
<1>5. CASE GetById(e) /\ ReadGoes(e, "failed") BY <1>1, <1>3, <1>5 DEF Fetching
<1>6. CASE read' = [read EXCEPT ![e].pc = "push_context_1", ![e].got = row[read[e].item]]
  <2> DEFINE got == row[professional]
  <2> DEFINE r == [pc |-> "push_context_1", item |-> read[e].item, fresh |-> read[e].fresh,
                   since |-> read[e].since, got |-> got, rows |-> read[e].rows, left |-> read[e].left]
  <2>1. read' = [read EXCEPT ![e] = [read[e] EXCEPT !.pc = "push_context_1", !.got = got]]
    BY <1>1, <1>6 DEF Fetching
  <2>2. read'[e] = [read[e] EXCEPT !.pc = "push_context_1", !.got = got] BY <1>1, <2>1
  <2>3. read'[e] = r BY <1>1, <2>2 DEF Fetching, IsRead
  <2>4. IsRead(r) BY DEF IsRead
  <2>5. /\ IsRead(read'[e]) /\ read'[e].item = professional /\ read'[e].pc = "push_context_1"
        /\ read'[e].got = got
    BY <1>1, <2>3, <2>4 DEF Fetching
  <2> QED BY <1>1, <2>5 DEF Fetching
<1>7. \/ PushContext1(e) /\ ReadGoes(e, "done")
      \/ GetById(e) /\ ReadGoes(e, "failed")
      \/ read' = [read EXCEPT ![e].pc = "push_context_1", ![e].got = row[read[e].item]]
  BY <1>2 DEF GetById, PushContext1, Report, StopRead, ProfessionalsErrorReport26, ServicesErrorReport24,
     ProfessionalsErrorReport1, ServicesErrorReport12
<1> QED BY <1>4, <1>5, <1>6, <1>7

\* Every step of a read keeps the address current.
LEMMA ReadKeepsCurrent ==
    ASSUME CurrentInv, NEW r \in Reads, ReadStep(r), UNCHANGED call
    PROVE  CurrentInv'
<1>1. r \in Calls /\ Elsewhere(r) /\ UNCHANGED row BY ToolAssumption, ReadAlone
<1>2. At(r, "professional") => Fetching(r)' BY <1>1, FetchingGoesOn
<1>3. CallCurrent(r)' BY <1>1, <1>2 DEF CurrentInv, CallCurrent, At
<1>4. \A d \in Calls \ {r} : CallCurrent(d)'
  BY <1>1, ToolAssumption DEF CurrentInv, CallCurrent, Fetching, Elsewhere, At
<1>5. \A d \in Calls : CallCurrent(d)' BY <1>3, <1>4
<1> QED BY <1>1, <1>5 DEF CurrentInv, CallShape, Elsewhere

\* The rows only grow.
LEMMA ApiKeepsCurrent ==
    ASSUME CurrentInv, ApiStep, UNCHANGED call
    PROVE  CurrentInv'
<1>1. UNCHANGED read BY DEF ApiStep, CommitUpdate, InvalidatePatterns, Expires
<1>2. row' \in [Items -> Nat] /\ \A i \in Items : row[i] <= row'[i]
  <2>1. CASE UNCHANGED row BY <2>1 DEF CurrentInv
  <2>2. ASSUME NEW i \in Items, row' = [row EXCEPT ![i] = @ + 1]
        PROVE  row' \in [Items -> Nat] /\ \A j \in Items : row[j] <= row'[j]
    BY <2>2 DEF CurrentInv
  <2> QED BY <2>1, <2>2 DEF ApiStep, CommitUpdate, InvalidatePatterns, Expires
<1>3. row[professional] \in Int /\ row'[professional] \in Int /\ row[professional] <= row'[professional]
  BY <1>2, ToolAssumption DEF CurrentInv, Items
<1>4. \A d \in Calls : CallCurrent(d)'
  BY <1>1, <1>3 DEF CurrentInv, CallCurrent, Fetching, At
<1> QED BY <1>1, <1>2, <1>4 DEF CurrentInv, CallShape

\* The address stays current.
LEMMA CurrentInvariant == Spec => []CurrentInv
<1>1. Init => CurrentInv
  <2> SUFFICES ASSUME Init PROVE CurrentInv
    OBVIOUS
  <2>1. call = [e \in Calls |-> Idle] /\ row = [i \in Items |-> 0] /\ read = [r \in Reads |-> NotReading]
    BY DEF Init, CacheInit
  <2>2. IsCall(Idle) /\ Idle.pc = "idle" /\ Idle.asOf = 0 BY DEF IsCall, Idle
  <2>3. row[professional] = 0 /\ row \in [Items -> Nat] BY <2>1, ToolAssumption DEF Items
  <2>4. CallShape /\ \A e \in Calls : call[e].pc = "idle" /\ call[e].asOf = 0 BY <2>1, <2>2 DEF CallShape
  <2>5. \A e \in Calls : CallCurrent(e) BY <2>3, <2>4 DEF CallCurrent, At, WithEmail
  <2> QED BY <2>1, <2>3, <2>4, <2>5 DEF CurrentInv
<1>2. CurrentInv /\ [Next]_vars => CurrentInv'
  <2> SUFFICES ASSUME CurrentInv, [Next]_vars PROVE CurrentInv'
    OBVIOUS
  <2>1. ASSUME NEW e \in Calls, CallStep(e) PROVE CurrentInv' BY <2>1, CallKeepsCurrent
  <2>2. ASSUME NEW e \in Calls, AgentReads(e) PROVE CurrentInv'
    <3>1. CallShape' /\ Others(e) /\ call'[e].pc = "reading" /\ call'[e].asOf = call[e].asOf
      BY <2>2, GoToShape DEF AgentReads, CurrentInv
    <3>2. /\ read' = [d \in Reads |-> read'[d]] /\ \A d \in Calls \ {e} : read'[d] = read[d]
          /\ UNCHANGED row
      BY <2>2, ToolAssumption DEF AgentReads, StartRead, CurrentInv
    <3>3. CallCurrent(e)' BY <3>1, <3>2 DEF CurrentInv, CallCurrent, WithEmail, At
    <3>4. \A d \in Calls \ {e} : CallCurrent(d)'
      BY <3>1, <3>2 DEF CurrentInv, CallCurrent, Fetching, Others, At
    <3>5. \A d \in Calls : CallCurrent(d)' BY <3>3, <3>4
    <3> QED BY <3>1, <3>2, <3>5 DEF CurrentInv
  <2>3. ASSUME NEW key \in claims, ClaimExpires(key) PROVE CurrentInv'
    BY <2>3 DEF ClaimExpires, CurrentInv, CallShape, CallCurrent, Fetching, At
  <2>4. ASSUME UNCHANGED toolVars, NEW r \in Reads, ReadStep(r) PROVE CurrentInv'
    BY <2>4, ReadKeepsCurrent DEF toolVars
  <2>5. CASE UNCHANGED toolVars /\ ApiStep BY <2>5, ApiKeepsCurrent DEF toolVars
  <2>6. CASE UNCHANGED vars
    BY <2>6 DEF vars, cacheVars, toolVars, CurrentInv, CallShape, CallCurrent, Fetching, At
  <2> QED BY <2>1, <2>2, <2>3, <2>4, <2>5, <2>6 DEF Next
<1> QED BY <1>1, <1>2, PTL DEF Spec

\* No mail goes to an address that an update had already replaced when the
\* appointment was read or written, however old the cached contexts are and
\* whatever fails.
THEOREM ToolRecipientCurrent == Spec => []RecipientCurrent
<1>1. CurrentInv => RecipientCurrent BY DEF CurrentInv, CallCurrent, RecipientCurrent, At, WithEmail
<1> QED BY <1>1, CurrentInvariant, PTL

-----------------------------------------------------------------------------
\* ReadsSeeUpdates.
ReadsShape ==
    /\ read = [r \in Reads |-> read[r]] /\ \A r \in Reads : IsRead(read[r])
    /\ entry = [i \in Items |-> entry[i]]

\* What was confirmed is a version of the row or the one before.
LEMMA ConfirmedType ==
    ASSUME ReadsInv, NEW i \in Items
    PROVE  Confirmed(i) \in Int /\ Confirmed(i) <= row[i] /\ row[i] \in Int /\ row[i] # None
<1>1. row[i] \in Nat BY DEF ReadsInv
<1>2. row[i] # None BY <1>1, CacheAssumption
<1> QED BY <1>1, <1>2 DEF Confirmed

\* A step of a read: it changes the node it calls next, and perhaps what it got
\* and what it has to compare.
LEMMA ReadFields ==
    ASSUME ReadsShape, NEW r \in Reads, NEW pc, NEW got, NEW rows, NEW left,
           entry' = [i \in Items |-> entry'[i]], Elsewhere(r),
           read'[r] = [pc |-> pc, item |-> read[r].item, fresh |-> read[r].fresh, since |-> read[r].since,
                       got |-> got, rows |-> rows, left |-> left]
    PROVE  /\ ReadsShape' /\ Elsewhere(r) /\ read'[r].pc = pc /\ read'[r].got = got
           /\ read'[r].item = read[r].item /\ read'[r].since = read[r].since
<1> DEFINE new == [pc |-> pc, item |-> read[r].item, fresh |-> read[r].fresh, since |-> read[r].since,
                   got |-> got, rows |-> rows, left |-> left]
<1>1. IsRead(new) /\ new.pc = pc /\ new.got = got /\ new.item = read[r].item /\ new.since = read[r].since
  BY DEF IsRead
<1>2. read'[r] = new OBVIOUS
<1> HIDE DEF new
<1> QED BY <1>1, <1>2 DEF ReadsShape, Elsewhere

\* The writes of a read's record but for the model's own ReadGoes and Answer.
Asks(r, pc, got) == read' = [read EXCEPT ![r].pc = pc, ![r].got = got]
Lists(r, pc, got, rows) == read' = [read EXCEPT ![r].pc = pc, ![r].rows = rows, ![r].got = got]
Compares(r, left, pc) == read' = [read EXCEPT ![r].left = left, ![r].pc = pc]

\* A read that only goes to another node.
LEMMA GoesFields ==
    ASSUME ReadsShape, NEW r \in Reads, entry' = [i \in Items |-> entry'[i]], NEW pc,
           ReadGoes(r, pc)
    PROVE  /\ ReadsShape' /\ Elsewhere(r) /\ read'[r].pc = pc /\ read'[r].got = read[r].got
           /\ read'[r].item = read[r].item /\ read'[r].since = read[r].since
<1>1. IsRead(read[r]) /\ read = [d \in Reads |-> read[d]] BY DEF ReadsShape
<1>2. read' = [read EXCEPT ![r] = [read[r] EXCEPT !.pc = pc]] BY <1>1 DEF ReadGoes
<1>3. read'[r] = [read[r] EXCEPT !.pc = pc] /\ Elsewhere(r) BY <1>1, <1>2 DEF Elsewhere
<1>4. read'[r] = [pc |-> pc, item |-> read[r].item, fresh |-> read[r].fresh, since |-> read[r].since,
                  got |-> read[r].got, rows |-> read[r].rows, left |-> read[r].left]
  BY <1>1, <1>3 DEF IsRead
<1>5. Elsewhere(r) BY <1>3
<1> QED BY <1>4, <1>5, ReadFields

\* A read that is answered.
LEMMA AnswerFields ==
    ASSUME ReadsShape, NEW r \in Reads, entry' = [i \in Items |-> entry'[i]], NEW got,
           Answer(r, got)
    PROVE  /\ ReadsShape' /\ Elsewhere(r) /\ read'[r].pc = "done" /\ read'[r].got = got
           /\ read'[r].item = read[r].item /\ read'[r].since = read[r].since
<1>1. IsRead(read[r]) /\ read = [d \in Reads |-> read[d]] BY DEF ReadsShape
<1>2. read' = [read EXCEPT ![r] = [read[r] EXCEPT !.pc = "done", !.got = got]] BY <1>1 DEF Answer
<1>3. read'[r] = [read[r] EXCEPT !.pc = "done", !.got = got] /\ Elsewhere(r) BY <1>1, <1>2 DEF Elsewhere
<1>4. read'[r] = [pc |-> "done", item |-> read[r].item, fresh |-> read[r].fresh, since |-> read[r].since,
                  got |-> got, rows |-> read[r].rows, left |-> read[r].left]
  BY <1>1, <1>3 DEF IsRead
<1>5. Elsewhere(r) BY <1>3
<1> QED BY <1>4, <1>5, ReadFields

\* A read that asked the API for a row.
LEMMA AskFields ==
    ASSUME ReadsShape, NEW r \in Reads, entry' = [i \in Items |-> entry'[i]], NEW pc, NEW got,
           Asks(r, pc, got)
    PROVE  /\ ReadsShape' /\ Elsewhere(r) /\ read'[r].pc = pc /\ read'[r].got = got
           /\ read'[r].item = read[r].item /\ read'[r].since = read[r].since
<1>1. IsRead(read[r]) /\ read = [d \in Reads |-> read[d]] BY DEF ReadsShape
<1>2. read' = [read EXCEPT ![r] = [read[r] EXCEPT !.pc = pc, !.got = got]] BY <1>1 DEF Asks
<1>3. read'[r] = [read[r] EXCEPT !.pc = pc, !.got = got] /\ Elsewhere(r) BY <1>1, <1>2 DEF Elsewhere
<1>4. read'[r] = [pc |-> pc, item |-> read[r].item, fresh |-> read[r].fresh, since |-> read[r].since,
                  got |-> got, rows |-> read[r].rows, left |-> read[r].left]
  BY <1>1, <1>3 DEF IsRead
<1>5. Elsewhere(r) BY <1>3
<1> QED BY <1>4, <1>5, ReadFields

\* A read that asked the API for the list.
LEMMA ListFields ==
    ASSUME ReadsShape, NEW r \in Reads, entry' = [i \in Items |-> entry'[i]], NEW pc, NEW got, NEW rows,
           Lists(r, pc, got, rows)
    PROVE  /\ ReadsShape' /\ Elsewhere(r) /\ read'[r].pc = pc /\ read'[r].got = got
           /\ read'[r].item = read[r].item /\ read'[r].since = read[r].since
<1>1. IsRead(read[r]) /\ read = [d \in Reads |-> read[d]] BY DEF ReadsShape
<1>2. read' = [read EXCEPT ![r] = [read[r] EXCEPT !.pc = pc, !.rows = rows, !.got = got]] BY <1>1 DEF Lists
<1>3. read'[r] = [read[r] EXCEPT !.pc = pc, !.rows = rows, !.got = got] /\ Elsewhere(r) BY <1>1, <1>2 DEF Elsewhere
<1>4. read'[r] = [pc |-> pc, item |-> read[r].item, fresh |-> read[r].fresh, since |-> read[r].since,
                  got |-> got, rows |-> rows, left |-> read[r].left]
  BY <1>1, <1>3 DEF IsRead
<1>5. Elsewhere(r) BY <1>3
<1> QED BY <1>4, <1>5, ReadFields

\* A read that knows what is left to write.
LEMMA CompareFields ==
    ASSUME ReadsShape, NEW r \in Reads, entry' = [i \in Items |-> entry'[i]], NEW pc, NEW left,
           Compares(r, left, pc)
    PROVE  /\ ReadsShape' /\ Elsewhere(r) /\ read'[r].pc = pc /\ read'[r].got = read[r].got
           /\ read'[r].item = read[r].item /\ read'[r].since = read[r].since
<1>1. IsRead(read[r]) /\ read = [d \in Reads |-> read[d]] BY DEF ReadsShape
<1>2. read' = [read EXCEPT ![r] = [read[r] EXCEPT !.left = left, !.pc = pc]] BY <1>1 DEF Compares
<1>3. read'[r] = [read[r] EXCEPT !.left = left, !.pc = pc] /\ Elsewhere(r) BY <1>1, <1>2 DEF Elsewhere
<1>4. read'[r] = [pc |-> pc, item |-> read[r].item, fresh |-> read[r].fresh, since |-> read[r].since,
                  got |-> read[r].got, rows |-> read[r].rows, left |-> left]
  BY <1>1, <1>3 DEF IsRead
<1>5. Elsewhere(r) BY <1>3
<1> QED BY <1>4, <1>5, ReadFields

\* A key written, or left as it is.
Written(r) == UNCHANGED <<entry, behind>> \/ \E i, version : Push(r, i, version)

\* A read that got something, or goes on to.
LEMMA ReadGoesOn ==
    ASSUME ReadsInv, ReadsShape, NEW r \in Reads, NEW pc, NEW got, Ok, UNCHANGED <<row, update>>,
           Written(r), Elsewhere(r), read'[r].pc = pc, read'[r].got = got,
           read'[r].item = read[r].item, read'[r].since = read[r].since, read[r].pc # "idle",
           \/ got = row[read[r].item] /\ pc \in Holding
           \/ got = entry[read[r].item] /\ got # None /\ pc = "done"
           \/ pc \in {"get_by_id", "get_by_name"}
           \/ read[r].pc \in Holding /\ got = read[r].got /\ pc \in Holding \cup {"done"}
    PROVE  ReadsInv'
<1> SUFFICES ASSUME failures = 0
             PROVE  (\A i \in Items : EntryCurrent(i)') /\ (\A d \in Reads : ReadCurrent(d)')
    BY DEF ReadsInv, Ok
<1>1. \A i \in Items : Confirmed(i)' = Confirmed(i) /\ Confirmed(i) \in Int /\ Confirmed(i) <= row[i]
                       /\ row[i] \in Int /\ row[i] # None
  BY ConfirmedType DEF Confirmed
<1>2. behind \subseteq behind' /\ \A i \in Items : EntryCurrent(i)'
  <2>1. CASE UNCHANGED <<entry, behind>> BY <1>1, <2>1 DEF ReadsInv, EntryCurrent
  <2>2. ASSUME NEW i, NEW version, Push(r, i, version)
        PROVE  behind \subseteq behind' /\ \A j \in Items : EntryCurrent(j)'
    <3>1. behind \subseteq behind' BY <2>2 DEF Push
    <3>2. ASSUME NEW j \in Items \ {i} PROVE EntryCurrent(j)'
      <4>1. entry'[j] = entry[j] BY <2>2, <3>2 DEF Push, ReadsShape
      <4> QED BY <4>1, <3>1, <1>1 DEF ReadsInv, EntryCurrent
    <3>3. ASSUME i \in Items PROVE EntryCurrent(i)'
      <4>1. entry'[i] = version BY <2>2, <3>3 DEF Push, ReadsShape
      <4> QED BY <4>1, <2>2, <3>3, <1>1 DEF Push, EntryCurrent
    <3> QED BY <3>1, <3>2, <3>3
  <2> QED BY <2>1, <2>2 DEF Written
<1>3. ASSUME NEW d \in Reads \ {r} PROVE ReadCurrent(d)'
  BY <1>1, <1>2 DEF ReadsInv, ReadCurrent, Elsewhere
<1>4. ReadCurrent(r) BY DEF ReadsInv
<1>5. read[r].item \in Items BY <1>4 DEF ReadCurrent
<1>6. ReadCurrent(r)'
  <2>1. CASE got = row[read[r].item] /\ pc \in Holding
    BY <1>1, <1>4, <1>5, <2>1 DEF ReadCurrent, Holding
  <2>2. CASE got = entry[read[r].item] /\ got # None /\ pc = "done"
    BY <1>1, <1>2, <1>4, <1>5, <2>2 DEF ReadCurrent, Holding, ReadsInv, EntryCurrent
  <2>3. CASE pc \in {"get_by_id", "get_by_name"}
    BY <1>1, <1>4, <1>5, <2>3 DEF ReadCurrent, Holding
  <2>4. CASE read[r].pc \in Holding /\ got = read[r].got /\ pc \in Holding \cup {"done"}
    BY <1>1, <1>4, <1>5, <2>4, CacheAssumption DEF ReadCurrent, Holding
  <2> QED BY <2>1, <2>2, <2>3, <2>4
<1> QED BY <1>2, <1>3, <1>6

\* A read whose call failed: nothing is promised from then on.
LEMMA ReadFails ==
    ASSUME ReadsInv, ReadsShape, NEW r \in Reads, Fail, UNCHANGED <<row, entry, update>>,
           (\E pc : ReadGoes(r, pc)) \/ (\E version : Answer(r, version))
    PROVE  ReadsInv' /\ ReadsShape'
<1>1. failures' \in Nat /\ failures' # 0 BY DEF ReadsInv, Fail
<1>2. entry' = [i \in Items |-> entry'[i]] BY DEF ReadsShape
<1>3. ReadsShape' BY <1>2, GoesFields, AnswerFields
<1> QED BY <1>1, <1>3 DEF ReadsInv

\* The steps of a list.
LEMMA ListKeepsReads ==
    ASSUME ReadsInv, ReadsShape, NEW r \in Reads, GetAll(r) \/ GetContext(r) \/ PushContext(r)
    PROVE  ReadsInv' /\ ReadsShape'
<1> USE DEF Report, StopRead
<1>1. CASE Fail /\ UNCHANGED <<row, entry, update>> /\ ((\E pc : ReadGoes(r, pc)) \/ Answer(r, None))
  BY <1>1, ReadFails
<1>2. CASE GetAll(r)
  <2> DEFINE got == row[read[r].item]
  <2>1. read[r].pc = "get_all" /\ UNCHANGED <<row, entry, update, behind>> BY <1>2 DEF GetAll, ReadAt
  <2>2. CASE Ok /\ read' = [read EXCEPT ![r].pc = "get_context", ![r].rows = row, ![r].got = row[read[r].item]]
    <3>1. got = row[read[r].item] /\ Lists(r, "get_context", got, row)
      BY <2>2 DEF Lists
    <3> HIDE DEF got
    <3>2. entry' = [i \in Items |-> entry'[i]] BY <2>1 DEF ReadsShape
    <3>3. /\ ReadsShape' /\ Elsewhere(r) /\ read'[r].pc = "get_context" /\ read'[r].got = got
          /\ read'[r].item = read[r].item /\ read'[r].since = read[r].since
      BY <3>1, <3>2, ListFields
    <3> QED BY <2>1, <2>2, <3>1, <3>3, ReadGoesOn DEF Written, Holding
  <2>3. \/ Fail /\ \E pc : ReadGoes(r, pc)
        \/ Ok /\ read' = [read EXCEPT ![r].pc = "get_context", ![r].rows = row, ![r].got = row[read[r].item]]
    BY <1>2 DEF GetAll, ProfessionalsErrorReport2, ServicesErrorReport2
  <2> QED BY <1>1, <2>1, <2>2, <2>3
<1>3. CASE GetContext(r)
  <2> DEFINE left == Compare(r)
  <2> DEFINE pc == IF left = {} THEN "done" ELSE "push_context"
  <2>1. read[r].pc = "get_context" /\ UNCHANGED <<row, entry, update, behind>> BY <1>3 DEF GetContext, ReadAt
  <2>2. CASE Ok /\ Compares(r, left, pc)
    <3>1. pc \in Holding \cup {"done"} BY DEF Holding
    <3> HIDE DEF left, pc
    <3>2. entry' = [i \in Items |-> entry'[i]] BY <2>1 DEF ReadsShape
    <3>3. /\ ReadsShape' /\ Elsewhere(r) /\ read'[r].pc = pc /\ read'[r].got = read[r].got
          /\ read'[r].item = read[r].item /\ read'[r].since = read[r].since
      BY <2>2, <3>2, CompareFields
    <3> QED BY <2>1, <2>2, <3>1, <3>3, ReadGoesOn DEF Written, Holding
  <2>3. (Fail /\ Answer(r, None)) \/ (Ok /\ Compares(r, left, pc))
    BY <1>3 DEF Compares, GetContext, ProfessionalsErrorReport18, ServicesErrorReport
  <2> QED BY <1>1, <2>1, <2>2, <2>3
<1>4. CASE PushContext(r)
  <2>1. read[r].pc = "push_context" /\ UNCHANGED <<row, update>> BY <1>4 DEF PushContext, ReadAt
  <2>2. ASSUME Ok, NEW i \in read[r].left, Push(r, i, read[r].rows[i]),
               read' = [read EXCEPT ![r].left = @ \ {i},
                                    ![r].pc = IF read[r].left = {i} THEN "done" ELSE "push_context"]
        PROVE  ReadsInv' /\ ReadsShape'
    <3> DEFINE left == read[r].left \ {i}
    <3> DEFINE pc == IF read[r].left = {i} THEN "done" ELSE "push_context"
    <3>1. pc \in Holding \cup {"done"} BY DEF Holding
    <3>2. Compares(r, left, pc) BY <2>2 DEF Compares
    <3> HIDE DEF left, pc
    <3>3. entry' = [j \in Items |-> entry'[j]] BY <2>2 DEF ReadsShape, Push
    <3>4. /\ ReadsShape' /\ Elsewhere(r) /\ read'[r].pc = pc /\ read'[r].got = read[r].got
          /\ read'[r].item = read[r].item /\ read'[r].since = read[r].since
      BY <3>2, <3>3, CompareFields
    <3>5. Written(r) BY <2>2 DEF Written
    <3> QED BY <2>1, <2>2, <3>1, <3>4, <3>5, ReadGoesOn DEF Holding
  <2>3. CASE Fail /\ UNCHANGED <<entry, behind>> /\ Answer(r, None) BY <1>1, <2>1, <2>3
  <2>4. \/ Fail /\ UNCHANGED <<entry, behind>> /\ Answer(r, None)
        \/ Ok /\ \E i \in read[r].left :
                    /\ Push(r, i, read[r].rows[i])
                    /\ read' = [read EXCEPT ![r].left = @ \ {i},
                                            ![r].pc = IF read[r].left = {i} THEN "done" ELSE "push_context"]
    BY <1>4 DEF PushContext, ProfessionalsErrorReport27, ServicesErrorReport1
  <2> QED BY <2>2, <2>3, <2>4
<1> QED BY <1>2, <1>3, <1>4

\* The look into the cache, by id or by name.
LEMMA LookKeepsReads ==
    ASSUME ReadsInv, ReadsShape, NEW r \in Reads, GetContext1(r) \/ GetContext2(r)
    PROVE  ReadsInv' /\ ReadsShape'
<1>1. /\ read[r].pc # "idle" /\ UNCHANGED <<row, entry, update, behind>> /\ Written(r)
      /\ entry' = [i \in Items |-> entry'[i]]
  BY DEF GetContext1, GetContext2, ReadAt, Written, ReadsShape
<1>2. CASE Fail /\ ((\E pc : ReadGoes(r, pc)) \/ \E version : Answer(r, version)) BY <1>1, <1>2, ReadFails
<1>3. CASE Ok /\ HasData(r) /\ Answer(r, entry[read[r].item])
  <2> DEFINE got == entry[read[r].item]
  <2>1. got = entry[read[r].item] /\ got # None /\ Answer(r, got) BY <1>3 DEF HasData
  <2> HIDE DEF got
  <2>2. /\ ReadsShape' /\ Elsewhere(r) /\ read'[r].pc = "done" /\ read'[r].got = got
        /\ read'[r].item = read[r].item /\ read'[r].since = read[r].since
    BY <1>1, <2>1, AnswerFields
  <2> QED BY <1>1, <1>3, <2>1, <2>2, ReadGoesOn
<1>4. ASSUME Ok, NEW pc \in {"get_by_id", "get_by_name"}, ReadGoes(r, pc) PROVE ReadsInv' /\ ReadsShape'
  <2>1. /\ ReadsShape' /\ Elsewhere(r) /\ read'[r].pc = pc /\ read'[r].got = read[r].got
        /\ read'[r].item = read[r].item /\ read'[r].since = read[r].since
    BY <1>1, <1>4, GoesFields
  <2> QED BY <1>1, <1>4, <2>1, ReadGoesOn
<1>5. \/ Fail /\ ((\E pc : ReadGoes(r, pc)) \/ \E version : Answer(r, version))
      \/ Ok /\ HasData(r) /\ Answer(r, entry[read[r].item])
      \/ Ok /\ \E pc \in {"get_by_id", "get_by_name"} : ReadGoes(r, pc)
  BY DEF GetContext1, GetContext2, Report, ProfessionalsErrorReport25, ServicesErrorReport23,
     ProfessionalsErrorReport23, ServicesErrorReport21
<1> QED BY <1>2, <1>3, <1>4, <1>5

\* The question to the API, by id or by name.
LEMMA AskKeepsReads ==
    ASSUME ReadsInv, ReadsShape, NEW r \in Reads, GetById(r) \/ GetByName(r)
    PROVE  ReadsInv' /\ ReadsShape'
<1>1. /\ read[r].pc # "idle" /\ UNCHANGED <<row, entry, update, behind>> /\ Written(r)
      /\ entry' = [i \in Items |-> entry'[i]]
  BY DEF GetById, GetByName, ReadAt, Written, ReadsShape
<1>2. CASE Fail /\ \E pc : ReadGoes(r, pc) BY <1>1, <1>2, ReadFails
<1>3. ASSUME Ok, NEW pc \in {"push_context_1", "push_context_2"},
             read' = [read EXCEPT ![r].pc = pc, ![r].got = row[read[r].item]]
      PROVE  ReadsInv' /\ ReadsShape'
  <2> DEFINE got == row[read[r].item]
  <2>1. got = row[read[r].item] /\ Asks(r, pc, got) BY <1>3 DEF Asks
  <2> HIDE DEF got
  <2>2. /\ ReadsShape' /\ Elsewhere(r) /\ read'[r].pc = pc /\ read'[r].got = got
        /\ read'[r].item = read[r].item /\ read'[r].since = read[r].since
    BY <1>1, <2>1, AskFields
  <2> QED BY <1>1, <1>3, <2>1, <2>2, ReadGoesOn DEF Holding
<1>4. \/ Fail /\ \E pc : ReadGoes(r, pc)
      \/ Ok /\ \E pc \in {"push_context_1", "push_context_2"} :
                  read' = [read EXCEPT ![r].pc = pc, ![r].got = row[read[r].item]]
  BY DEF GetById, GetByName, Report, StopRead, ProfessionalsErrorReport1, ServicesErrorReport12,
     ProfessionalsErrorReport, ServicesErrorReport11
<1> QED BY <1>2, <1>3, <1>4

\* The write of what was got, by id or by name.
LEMMA PushKeepsReads ==
    ASSUME ReadsInv, ReadsShape, NEW r \in Reads, PushContext1(r) \/ PushContext2(r)
    PROVE  ReadsInv' /\ ReadsShape'
<1>1. read[r].pc \in Holding /\ read[r].pc # "idle" /\ UNCHANGED <<row, update>>
  BY DEF PushContext1, PushContext2, ReadAt, Holding
<1>2. CASE Fail /\ UNCHANGED <<entry, behind>> /\ ReadGoes(r, "done") BY <1>1, <1>2, ReadFails
<1>3. CASE Ok /\ Push(r, read[r].item, read[r].got) /\ ReadGoes(r, "done")
  <2>1. entry' = [i \in Items |-> entry'[i]] /\ Written(r) BY <1>3 DEF Push, Written, ReadsShape
  <2>2. /\ ReadsShape' /\ Elsewhere(r) /\ read'[r].pc = "done" /\ read'[r].got = read[r].got
        /\ read'[r].item = read[r].item /\ read'[r].since = read[r].since
    BY <1>3, <2>1, GoesFields
  <2> QED BY <1>1, <1>3, <2>1, <2>2, ReadGoesOn
<1>4. \/ Fail /\ UNCHANGED <<entry, behind>> /\ ReadGoes(r, "done")
      \/ Ok /\ Push(r, read[r].item, read[r].got) /\ ReadGoes(r, "done")
  BY DEF PushContext1, PushContext2, Report, ProfessionalsErrorReport26, ServicesErrorReport24,
     ProfessionalsErrorReport24, ServicesErrorReport22
<1> QED BY <1>2, <1>3, <1>4

\* A read that starts knows what is confirmed.
LEMMA NewRead ==
    ASSUME ReadsInv, ReadsShape, NEW r \in Reads, NEW i \in Items, Ok, UNCHANGED <<row, entry, update, behind>>,
           Elsewhere(r), IsRead(read'[r]), read'[r].item = i, read'[r].since = Confirmed(i),
           read'[r].pc \in {"get_all", "get_context_1", "get_context_2", "get_by_id"}
    PROVE  ReadsInv' /\ ReadsShape'
<1>1. ReadsShape' BY DEF ReadsShape, Elsewhere
<1> SUFFICES ASSUME failures = 0
             PROVE  (\A j \in Items : EntryCurrent(j)') /\ (\A d \in Reads : ReadCurrent(d)')
    BY <1>1 DEF ReadsInv, Ok
<1>2. \A j \in Items : Confirmed(j)' = Confirmed(j) BY DEF Confirmed
<1>3. Confirmed(i) \in Int BY ConfirmedType
<1>4. ASSUME NEW d \in Reads \ {r} PROVE ReadCurrent(d)' BY <1>2 DEF ReadsInv, ReadCurrent, Elsewhere
<1>5. ReadCurrent(r)' BY <1>2, <1>3 DEF ReadCurrent, Holding
<1>6. \A j \in Items : EntryCurrent(j)' BY <1>2 DEF ReadsInv, EntryCurrent
<1> QED BY <1>4, <1>5, <1>6

\* What the start of a read makes of it.
LEMMA StartFields ==
    ASSUME ReadsShape, NEW r \in Reads, NEW i, NEW by, NEW fresh, StartRead(r, i, by, fresh)
    PROVE  /\ Ok /\ Elsewhere(r) /\ IsRead(read'[r]) /\ read'[r].item = i /\ read'[r].since = Confirmed(i)
           /\ read'[r].pc \in {"get_all", "get_context_1", "get_context_2", "get_by_id"}
<1> DEFINE pc == CASE by = "list" -> "get_all"
                   [] by = "name" -> "get_context_2"
                   [] by = "id" /\ FreshId(r, fresh) -> "get_by_id"
                   [] OTHER -> "get_context_1"
<1> DEFINE since == Confirmed(i)
<1>1. pc \in {"get_all", "get_context_1", "get_context_2", "get_by_id"} OBVIOUS
<1>2. Ok /\ read' = [read EXCEPT ![r] = [NotReading EXCEPT
                  !.item = i, !.fresh = fresh, !.since = since, !.pc = pc]]
  BY DEF StartRead
<1>3. since = Confirmed(i) OBVIOUS
<1> HIDE DEF pc, since
<1> DEFINE new == [pc |-> pc, item |-> i, fresh |-> fresh, since |-> since, got |-> None,
                   rows |-> None, left |-> {}]
<1>4. /\ read'[r] = [NotReading EXCEPT !.item = i, !.fresh = fresh, !.since = since, !.pc = pc]
      /\ Elsewhere(r)
  BY <1>2 DEF ReadsShape, Elsewhere
<1>5. read'[r] = new BY <1>4 DEF NotReading
<1>6. IsRead(new) /\ new.item = i /\ new.since = since /\ new.pc = pc BY DEF IsRead
<1> HIDE DEF new
<1> QED BY <1>1, <1>2, <1>3, <1>4, <1>5, <1>6

\* The read of the service that a call starts when it has the professional.
AsksForService(r) ==
    read' = [read EXCEPT ![r] = [NotReading EXCEPT
                 !.pc = "get_context_1", !.item = service, !.since = Confirmed(service)]]

\* The service asked for is the one the execution then holds.
LEMMA ServiceRead ==
    ASSUME ReadsShape, NEW r \in Reads, AsksForService(r)
    PROVE  /\ Elsewhere(r) /\ IsRead(read'[r]) /\ read'[r].item = service
           /\ read'[r].since = Confirmed(service) /\ read'[r].pc = "get_context_1"
<1> DEFINE since == Confirmed(service)
<1> DEFINE new == [pc |-> "get_context_1", item |-> service, fresh |-> FALSE, since |-> since, got |-> None,
                   rows |-> None, left |-> {}]
<1>1. since = Confirmed(service) OBVIOUS
<1>2. /\ read'[r] = [NotReading EXCEPT !.pc = "get_context_1", !.item = service, !.since = since]
      /\ Elsewhere(r)
  BY DEF ReadsShape, Elsewhere, AsksForService
<1> HIDE DEF since
<1>3. read'[r] = new BY <1>2 DEF NotReading
<1>4. IsRead(new) /\ new.item = service /\ new.since = since /\ new.pc = "get_context_1" BY DEF IsRead
<1> HIDE DEF new
<1> QED BY <1>1, <1>2, <1>3, <1>4

\* An update that commits is confirmed with its answer, after its key is gone.
LEMMA ApiKeepsReads ==
    ASSUME ReadsInv, ReadsShape, ApiStep
    PROVE  ReadsInv' /\ ReadsShape'
<1> PICK i \in Items : CommitUpdate(i) \/ InvalidatePatterns(i) \/ Expires(i) BY DEF ApiStep
<1>1. UNCHANGED <<read, behind>> /\ failures' \in Nat /\ (failures' = 0 => failures = 0)
  BY DEF ReadsInv, CommitUpdate, InvalidatePatterns, Expires, Ok, Fail
<1>2. ReadsShape'
  BY <1>1 DEF ReadsShape, CommitUpdate, InvalidatePatterns, Expires
<1>3. row' \in [Items -> Nat] /\ update' \subseteq Items
  BY DEF ReadsInv, CommitUpdate, InvalidatePatterns, Expires
<1> SUFFICES ASSUME failures' = 0
             PROVE  (\A j \in Items : EntryCurrent(j)') /\ (\A d \in Reads : ReadCurrent(d)')
    BY <1>1, <1>2, <1>3 DEF ReadsInv
<1>4. /\ \A j \in Items : EntryCurrent(j)
      /\ \A d \in Reads : ReadCurrent(d)
  BY <1>1 DEF ReadsInv
<1>5. \A j \in Items : row[j] \in Int /\ row'[j] \in Int BY <1>3 DEF ReadsInv
<1>6. CASE CommitUpdate(i)
  <2>1. \A j \in Items : Confirmed(j)' = Confirmed(j)
    <3>1. row'[i] = row[i] + 1 /\ i \notin update /\ i \in update' BY <1>6 DEF CommitUpdate, ReadsInv
    <3>2. Confirmed(i)' = Confirmed(i) BY <1>5, <3>1 DEF Confirmed
    <3>3. ASSUME NEW j \in Items \ {i} PROVE Confirmed(j)' = Confirmed(j)
      BY <1>6, <3>3 DEF CommitUpdate, Confirmed, ReadsInv
    <3> QED BY <3>2, <3>3
  <2>2. UNCHANGED entry BY <1>6 DEF CommitUpdate
  <2> QED BY <1>1, <1>4, <2>1, <2>2 DEF EntryCurrent, ReadCurrent
<1>7. CASE Expires(i)
  <2>1. \A j \in Items : Confirmed(j)' = Confirmed(j) BY <1>7 DEF Expires, Confirmed
  <2>2. \A j \in Items : entry'[j] = None \/ entry'[j] = entry[j] BY <1>7 DEF Expires, ReadsShape
  <2> QED BY <1>1, <1>4, <2>1, <2>2 DEF EntryCurrent, ReadCurrent
<1>8. CASE InvalidatePatterns(i)
  <2>1. i \in update /\ update' = update \ {i} /\ UNCHANGED row
        /\ entry' = [j \in Items |-> IF j \in Patterns(i) THEN None ELSE entry[j]]
    BY <1>1, <1>8 DEF InvalidatePatterns, Fail, ReadsInv
  <2>2. \A j \in Items \ {i} : Confirmed(j)' = Confirmed(j) BY <2>1 DEF Confirmed
  <2>3. Confirmed(i)' >= Confirmed(i) /\ Confirmed(i) \in Int /\ Confirmed(i)' \in Int
    BY <1>5, <2>1 DEF Confirmed
  <2>4. i \in Patterns(i) BY DEF Patterns
  <2>5. \A j \in Items : EntryCurrent(j)'
    <3>1. EntryCurrent(i)' BY <2>1, <2>4 DEF EntryCurrent
    <3>2. ASSUME NEW j \in Items \ {i} PROVE EntryCurrent(j)' BY <1>1, <1>4, <2>1, <2>2 DEF EntryCurrent
    <3> QED BY <3>1, <3>2
  <2>6. ASSUME NEW d \in Reads PROVE ReadCurrent(d)'
    <3>1. read'[d] = read[d] BY <1>1
    <3>2. CASE read[d].item = i BY <1>1, <1>4, <2>3, <3>1, <3>2 DEF ReadCurrent
    <3>3. CASE read[d].item # i BY <1>1, <1>4, <2>2, <3>1, <3>3 DEF ReadCurrent
    <3> QED BY <3>2, <3>3
  <2> QED BY <2>5, <2>6
<1> QED BY <1>6, <1>7, <1>8

\* A step that leaves the caches and the reads.
LEMMA CacheStays ==
    ASSUME ReadsInv, ReadsShape, UNCHANGED <<row, entry, update, read, behind>>, Ok \/ Fail
    PROVE  ReadsInv' /\ ReadsShape'
<1>1. failures' \in Nat /\ (failures' = 0 => failures = 0) BY DEF ReadsInv, Ok, Fail
<1>2. \A i \in Items : Confirmed(i)' = Confirmed(i) BY DEF Confirmed
<1> QED BY <1>1, <1>2 DEF ReadsInv, ReadsShape, EntryCurrent, ReadCurrent

\* The calls start reads, and fail; they write no cache.
LEMMA CallKeepsReads ==
    ASSUME ReadsInv, ReadsShape, NEW e \in Calls, CallStep(e)
    PROVE  ReadsInv' /\ ReadsShape'
<1>1. e \in Reads /\ professional \in Items /\ service \in Items BY ToolAssumption DEF Items
<1>2. CASE ProfessionalContext(e)
  BY <1>1, <1>2, StartFields, NewRead DEF ProfessionalContext
<1>3. CASE ServiceContext(e)
  <2>1. Ok /\ UNCHANGED <<row, entry, update, behind>> BY <1>3 DEF ServiceContext
  <2>2. CASE UNCHANGED read BY <2>1, <2>2, CacheStays
  <2>3. CASE AsksForService(e)
    BY <1>1, <2>1, <2>3, ServiceRead, NewRead
  <2> QED BY <1>3, <2>2, <2>3 DEF ServiceContext, AsksForService
<1>4. CASE \/ Webhook(e) \/ Post(e) \/ Patch(e) \/ Cancel(e) \/ GetAppointmentById(e) \/ GetByClient(e)
           \/ AppointmentContext(e) \/ PrepareEmailNotification(e)
  <2>1. UNCHANGED <<row, entry, update, read, behind>> /\ (Ok \/ Fail)
    BY <1>4 DEF Webhook, Post, Patch, Write, Cancel, GetAppointmentById, GetByClient, Read, AppointmentContext,
       PrepareEmailNotification
  <2> QED BY <2>1, CacheStays
<1>5. CASE \/ FindSentNotification(e) \/ ClaimNotification(e)
           \/ ConfirmationEmail(e) \/ UpdateEmail(e) \/ DeleteEmail(e) \/ ReturnContext(e)
  <2>1. UNCHANGED <<row, entry, update, read, behind>> /\ (Ok \/ Fail)
    BY <1>5 DEF FindSentNotification, ClaimNotification, ConfirmationEmail, UpdateEmail, DeleteEmail, SendEmail,
       ReturnContext
  <2> QED BY <2>1, CacheStays
<1> QED BY <1>2, <1>3, <1>4, <1>5 DEF CallStep

\* The reads stay current.
LEMMA ReadsInvariant == Spec => [](ReadsInv /\ ReadsShape)
<1>1. Init => ReadsInv /\ ReadsShape
  <2> SUFFICES ASSUME Init PROVE ReadsInv /\ ReadsShape
    OBVIOUS
  <2>1. /\ row = [i \in Items |-> 0] /\ entry = [i \in Items |-> None] /\ update = {} /\ failures = 0
        /\ read = [r \in Reads |-> NotReading]
    BY DEF Init, CacheInit
  <2>2. IsRead(NotReading) /\ NotReading.pc = "idle" /\ NotReading.item = None BY DEF IsRead, NotReading
  <2>3. None \notin Items BY CacheAssumption DEF Items
  <2>4. ReadsShape BY <2>1, <2>2 DEF ReadsShape
  <2>5. \A i \in Items : EntryCurrent(i) BY <2>1 DEF EntryCurrent
  <2>6. \A r \in Reads : ReadCurrent(r) BY <2>1, <2>2, <2>3 DEF ReadCurrent, Holding
  <2> QED BY <2>1, <2>4, <2>5, <2>6 DEF ReadsInv
<1>2. ReadsInv /\ ReadsShape /\ [Next]_vars => ReadsInv' /\ ReadsShape'
  <2> SUFFICES ASSUME ReadsInv, ReadsShape, [Next]_vars PROVE ReadsInv' /\ ReadsShape'
    OBVIOUS
  <2>1. ASSUME NEW e \in Calls, CallStep(e) PROVE ReadsInv' /\ ReadsShape' BY <2>1, CallKeepsReads
  <2>2. ASSUME NEW e \in Calls, AgentReads(e) PROVE ReadsInv' /\ ReadsShape'
    <3>1. PICK i \in Items, by \in {"list", "id", "name"} : StartRead(e, i, by, FALSE) BY <2>2 DEF AgentReads
    <3>2. e \in Reads /\ UNCHANGED <<row, entry, update, behind>> BY <2>2, ToolAssumption DEF AgentReads
    <3> QED BY <3>1, <3>2, StartFields, NewRead
  <2>3. ASSUME NEW key \in claims, ClaimExpires(key) PROVE ReadsInv' /\ ReadsShape'
    BY <2>3, CacheStays DEF ClaimExpires
  <2>4. ASSUME NEW r \in Reads, ReadStep(r) PROVE ReadsInv' /\ ReadsShape'
    BY <2>4, ListKeepsReads, LookKeepsReads, AskKeepsReads, PushKeepsReads DEF ReadStep
  <2>5. CASE ApiStep BY <2>5, ApiKeepsReads
  <2>6. CASE UNCHANGED vars
    BY <2>6, CacheStays DEF vars, cacheVars, Ok
  <2> QED BY <2>1, <2>2, <2>3, <2>4, <2>5, <2>6 DEF Next
<1> QED BY <1>1, <1>2, PTL DEF Spec

\* What a read gets is no older than the last update answered before it started,
\* as long as no call failed and the key was not written behind an update.
THEOREM ToolReadsSeeUpdates == Spec => []ReadsSeeUpdates
<1>1. ReadsInv => ReadsSeeUpdates
  BY DEF ReadsInv, ReadCurrent, ReadsSeeUpdates, ReadAt
<1> QED BY <1>1, ReadsInvariant, PTL

-----------------------------------------------------------------------------
\* EveryChangeMailed. What is said of a mail after a step.
MailedThen(key) ==
    \/ key \in sent'
    \/ \E f \in Calls : (call'[f].pc = "send" \/ call'[f].unsent) /\ EventKey(f)' = key

\* The mails and the failed mails stay, if the call that steps leaves its own.
LEMMA MailedStays ==
    ASSUME NEW e \in Calls, Others(e), sent \subseteq sent',
           At(e, "send") \/ call[e].unsent => MailedThen(EventKey(e))
    PROVE  \A key : Mailed(key) => MailedThen(key)
<1> SUFFICES ASSUME NEW key, Mailed(key) PROVE MailedThen(key)
    OBVIOUS
<1>1. CASE key \in sent BY <1>1 DEF MailedThen
<1>2. ASSUME NEW f \in Calls \ {e}, At(f, "send") \/ call[f].unsent, EventKey(f) = key PROVE MailedThen(key)
  <2>1. EventKey(f)' = EventKey(f) /\ call'[f] = call[f] BY <1>2 DEF EventKey, Others
  <2> QED BY <1>2, <2>1 DEF MailedThen, At
<1>3. CASE (At(e, "send") \/ call[e].unsent) /\ EventKey(e) = key BY <1>3
<1> QED BY <1>1, <1>2, <1>3 DEF Mailed

\* A step of one call that leaves every claim and its own end mailed.
LEMMA OneCallChanges ==
    ASSUME ChangesInv, NEW e \in Calls, Others(e), sent \subseteq sent',
           failures \in Nat, failures' \in Nat, failures <= failures',
           At(e, "send") \/ call[e].unsent => MailedThen(EventKey(e)),
           \A key \in claims' : key \in claims \/ MailedThen(key),
           Ending(e)' /\ call'[e].action # "get" =>
              MailedThen(EventKey(e)') \/ (call'[e].service = None /\ failures' > 0),
           ServiceKnown(e)', call'[e].unsent => Ending(e)', ActionFits(e)', call'[e].action \in Actions
    PROVE  ChangesInv'
<1>1. \A key : Mailed(key) => MailedThen(key) BY MailedStays
<1>2. \A key \in claims' : MailedThen(key) BY <1>1 DEF ChangesInv
<1>3. \A key : MailedThen(key) <=> Mailed(key)' BY DEF MailedThen, Mailed, At
<1>4. ASSUME NEW d \in Calls \ {e} PROVE ChangeKept(d)'
  <2>1. call'[d] = call[d] /\ EventKey(d)' = EventKey(d) BY DEF Others, EventKey
  <2>2. ChangeKept(d) BY DEF ChangesInv
  <2>3. Ending(d)' /\ call'[d].action # "get" =>
          MailedThen(EventKey(d)') \/ (call'[d].service = None /\ failures' > 0)
    BY <1>1, <2>1, <2>2 DEF ChangeKept, Ending
  <2>4. Mailed(EventKey(d))' <=> MailedThen(EventKey(d)') BY DEF MailedThen, Mailed, At
  <2> QED BY <2>1, <2>2, <2>3, <2>4 DEF ChangeKept, Ending, ServiceKnown, ActionFits, At
<1>5. ChangeKept(e)'
  <2>1. Mailed(EventKey(e))' <=> MailedThen(EventKey(e)') BY DEF MailedThen, Mailed, At
  <2> QED BY <2>1 DEF ChangeKept
<1> QED BY <1>2, <1>3, <1>4, <1>5 DEF ChangesInv

\* A step of one call on its way.
LEMMA OnTheWay ==
    ASSUME ChangesInv, NEW e \in Calls, Others(e), UNCHANGED <<sent, claims>>,
           failures \in Nat, failures' \in Nat, failures <= failures',
           ~Ending(e), ~At(e, "send"), call'[e].unsent = call[e].unsent,
           call'[e].pc \notin {"return_context", "returned"},
           ServiceKnown(e)', ActionFits(e)', call'[e].action \in Actions
    PROVE  ChangesInv'
<1>1. ~call[e].unsent BY DEF ChangesInv, ChangeKept
<1>2. ~Ending(e)' BY DEF Ending
<1> QED BY <1>1, <1>2, OneCallChanges

\* A step of one call that ends it, or goes on after its end.
LEMMA ComesToEnd ==
    ASSUME ChangesInv, NEW e \in Calls, Others(e), Keeps(e), UNCHANGED <<sent, claims>>,
           failures \in Nat, failures' \in Nat, failures <= failures', ~At(e, "send"),
           call'[e].service = call[e].service, call'[e].unsent = call[e].unsent,
           call'[e].pc \in {"return_context", "returned"},
           call[e].action # "get" => Mailed(EventKey(e)) \/ (call[e].service = None /\ failures > 0)
    PROVE  ChangesInv'
<1>1. EventKey(e)' = EventKey(e) BY DEF Keeps, EventKey
<1>2. call[e].unsent => MailedThen(EventKey(e)) BY <1>1 DEF MailedThen
<1>3. Mailed(EventKey(e)) => MailedThen(EventKey(e)) BY <1>2, MailedStays
<1>4. ServiceKnown(e)' /\ Ending(e)' /\ ActionFits(e)' BY DEF ServiceKnown, Ending, ActionFits, At
<1>5. call'[e].action = call[e].action /\ call[e].action \in Actions BY DEF Keeps, ChangesInv, ChangeKept
<1>6. call'[e].action # "get" => MailedThen(EventKey(e)') \/ (call'[e].service = None /\ failures' > 0)
  BY <1>1, <1>3, <1>5
<1> QED BY <1>2, <1>4, <1>5, <1>6, OneCallChanges

\* The search for a sent mail: whoever finds one ends.
LEMMA SearchKeepsChanges ==
    ASSUME ChangesInv, CallShape, failures \in Nat, NEW e \in Calls, FindSentNotification(e)
    PROVE  ChangesInv'
<1>1. /\ At(e, "find_sent") /\ UNCHANGED <<sent, claims>> /\ failures' \in Nat /\ failures <= failures'
      /\ ~Ending(e) /\ ~At(e, "send") /\ call[e].action \in Actions
  BY DEF FindSentNotification, Ok, Fail, Ending, At, ChangesInv, ChangeKept
<1>2. CASE GoTo(e, "claim")
  <2>1. Others(e) /\ call'[e].pc = "claim" /\ call'[e].unsent = call[e].unsent /\ call'[e].action = call[e].action
    BY <1>2, GoToShape
  <2>2. ServiceKnown(e)' /\ ActionFits(e)' BY <2>1 DEF ServiceKnown, ActionFits, At
  <2> QED BY <1>1, <2>1, <2>2, OnTheWay
<1>3. CASE GoTo(e, "return_context") /\ EventKey(e) \in sent
  <2>1. /\ Others(e) /\ call'[e].pc = "return_context" /\ call'[e].unsent = call[e].unsent
        /\ Keeps(e) /\ call'[e].service = call[e].service
    BY <1>3, GoToShape DEF Keeps
  <2>2. Mailed(EventKey(e)) BY <1>3 DEF Mailed
  <2> QED BY <1>1, <2>1, <2>2, ComesToEnd
<1> QED BY <1>2, <1>3 DEF FindSentNotification, EmailAlreadySent

\* The claim: whoever finds it taken leaves the mail to who took it.
LEMMA ClaimKeepsChanges ==
    ASSUME ChangesInv, CallShape, failures \in Nat, NEW e \in Calls, ClaimNotification(e)
    PROVE  ChangesInv'
<1>1. /\ At(e, "claim") /\ UNCHANGED sent /\ failures' \in Nat /\ failures <= failures'
      /\ ~Ending(e) /\ ~At(e, "send") /\ call[e].action \in Actions /\ claims' \subseteq claims \cup {EventKey(e)}
      /\ ~call[e].unsent
  BY DEF ClaimNotification, Ok, Fail, Ending, At, ChangesInv, ChangeKept
<1>2. CASE GoTo(e, "send")
  <2>1. /\ Others(e) /\ call'[e].pc = "send" /\ call'[e].unsent = call[e].unsent /\ Keeps(e)
    BY <1>2, GoToShape DEF Keeps
  <2>2. ServiceKnown(e)' /\ ActionFits(e)' /\ ~Ending(e)' BY <2>1 DEF ServiceKnown, ActionFits, At, Ending
  <2>3. EventKey(e)' = EventKey(e) BY <2>1 DEF Keeps, EventKey
  <2>4. MailedThen(EventKey(e)) BY <2>1, <2>3 DEF MailedThen
  <2>5. call'[e].action \in Actions BY <1>1, <2>1 DEF Keeps
  <2>6. \A key \in claims' : key \in claims \/ MailedThen(key) BY <1>1, <2>4
  <2> QED BY <1>1, <2>1, <2>2, <2>4, <2>5, <2>6, OneCallChanges
<1>3. CASE GoTo(e, "return_context") /\ EventKey(e) \in claims
  <2>1. /\ Others(e) /\ call'[e].pc = "return_context" /\ call'[e].unsent = call[e].unsent
        /\ Keeps(e) /\ call'[e].service = call[e].service
    BY <1>3, GoToShape DEF Keeps
  <2>2. Mailed(EventKey(e)) BY <1>3 DEF ChangesInv
  <2>3. UNCHANGED claims
    <3>1. CASE claims' = claims \cup {EventKey(e)} BY <1>3, <3>1
    <3> QED BY <3>1 DEF ClaimNotification
  <2> QED BY <1>1, <2>1, <2>2, <2>3, ComesToEnd
<1> QED BY <1>2, <1>3 DEF ClaimNotification, NotificationClaimed

\* The mail: it is sent, or known to have failed.
LEMMA SendKeepsChanges ==
    ASSUME ChangesInv, CallShape, failures \in Nat, NEW e \in Calls, NEW action, SendEmail(e, action, Unsent(e))
    PROVE  ChangesInv'
<1>1. /\ At(e, "send") /\ UNCHANGED claims /\ failures' \in Nat /\ failures <= failures'
      /\ call[e].action \in Actions /\ sent \subseteq sent'
  BY DEF SendEmail, Mails, Ok, Fail, ChangesInv, ChangeKept
<1>2. /\ Others(e) /\ call'[e].pc = "return_context" /\ Keeps(e)
      /\ (call'[e].unsent \/ EventKey(e) \in sent')
  <2>1. CASE GoTo(e, "return_context") /\ sent' = sent \cup {EventKey(e)} BY <2>1, GoToShape DEF Keeps
  <2>2. CASE Unsent(e) BY <2>2, UnsentShape DEF Keeps
  <2> QED BY <2>1, <2>2 DEF SendEmail, Mails
<1>3. EventKey(e)' = EventKey(e) BY <1>2 DEF Keeps, EventKey
<1>4. MailedThen(EventKey(e)) BY <1>2, <1>3 DEF MailedThen
<1>5. ServiceKnown(e)' /\ ActionFits(e)' /\ Ending(e)' BY <1>2 DEF ServiceKnown, ActionFits, At, Ending
<1>6. call'[e].action \in Actions BY <1>1, <1>2 DEF Keeps
<1> QED BY <1>1, <1>2, <1>3, <1>4, <1>5, <1>6, OneCallChanges

\* The cancellation, after the contexts.
LEMMA CancelKeepsChanges ==
    ASSUME ChangesInv, CallShape, failures \in Nat, NEW e \in Calls, Cancel(e)
    PROVE  ChangesInv'
<1>1. /\ At(e, "cancel") /\ UNCHANGED <<sent, claims>> /\ failures' \in Nat /\ failures <= failures'
      /\ ~Ending(e) /\ ~At(e, "send") /\ call[e].action \in Actions /\ ServiceKnown(e)
  BY DEF Cancel, Ok, Fail, Ending, At, ChangesInv, ChangeKept
<1>2. GoTo(e, "failed") \/ Canceled(e) BY DEF Cancel, Canceled, ErrorReport21, StopAndError
<1>3. /\ Others(e) /\ call'[e].pc \in {"failed", "prepare_email"} /\ call'[e].unsent = call[e].unsent
      /\ call'[e].action = call[e].action /\ call'[e].service = call[e].service
  BY <1>2, GoToShape, CanceledShape
<1>4. ServiceKnown(e)' /\ ActionFits(e)' BY <1>1, <1>3 DEF ServiceKnown, ActionFits, At
<1>5. call'[e].pc \notin {"return_context", "returned"} BY <1>3
<1> QED BY <1>1, <1>3, <1>4, <1>5, OnTheWay

\* The service: a read that got none met a failure.
LEMMA ContextKeepsChanges ==
    ASSUME ChangesInv, ReadsInv, CallShape, NEW e \in Calls, AppointmentContext(e)
    PROVE  ChangesInv'
<1>1. /\ At(e, "service") /\ UNCHANGED <<sent, claims>> /\ failures \in Nat /\ UNCHANGED failures
      /\ ~Ending(e) /\ ~At(e, "send") /\ call[e].action \in Actions /\ ~call[e].unsent
  BY DEF AppointmentContext, Ok, NoChange, Ending, At, ChangesInv, ChangeKept, ReadsInv
<1>2. CASE GoTo(e, "failed")
  <2>1. Others(e) /\ call'[e].pc = "failed" /\ call'[e].unsent = call[e].unsent /\ call'[e].action = call[e].action
    BY <1>2, GoToShape
  <2>2. ServiceKnown(e)' /\ ActionFits(e)' BY <2>1 DEF ServiceKnown, ActionFits, At
  <2> QED BY <1>1, <2>1, <2>2, OnTheWay
<1> DEFINE pc == Action1(call[e].action)
<1> DEFINE got == read[e].got
<1>3. CASE read[e].pc = "done" /\ TakesService(e, pc, got)
  <2>1. pc \in {"cancel", "return_context", "prepare_email"} /\ (pc = "return_context" => call[e].action = "get")
    BY DEF Action1
  <2>2. got # None \/ failures > 0 BY <1>1, <1>3, ToolAssumption DEF ReadsInv, ReadCurrent
  <2> HIDE DEF pc, got
  <2>3. /\ Others(e) /\ call'[e].pc = pc /\ call'[e].service = got /\ call'[e].action = call[e].action
        /\ call'[e].unsent = call[e].unsent
    BY <1>3, ServiceShape
  <2>4. ServiceKnown(e)' BY <1>1, <2>2, <2>3 DEF ServiceKnown
  <2>5. ActionFits(e)' BY <2>1, <2>3 DEF ActionFits, At
  <2>6. Ending(e)' => call'[e].action = "get" BY <2>1, <2>3 DEF Ending
  <2> QED BY <1>1, <2>3, <2>4, <2>5, <2>6, OneCallChanges
<1> QED BY <1>2, <1>3 DEF AppointmentContext, StopAndError, TakesService, ReadAt

\* The data of the mail: whoever cannot mail could not read the service.
LEMMA PrepareKeepsChanges ==
    ASSUME ChangesInv, CurrentInv, failures \in Nat, NEW e \in Calls, PrepareEmailNotification(e)
    PROVE  ChangesInv'
<1>1. /\ At(e, "prepare_email") /\ UNCHANGED <<sent, claims>> /\ UNCHANGED failures
      /\ ~Ending(e) /\ ~At(e, "send") /\ call[e].action \in Actions /\ ServiceKnown(e) /\ CallShape
  BY DEF PrepareEmailNotification, Ok, Ending, At, ChangesInv, ChangeKept, CurrentInv
<1>2. CASE GoTo(e, "find_sent")
  <2>1. /\ Others(e) /\ call'[e].pc = "find_sent" /\ call'[e].unsent = call[e].unsent
        /\ call'[e].action = call[e].action
    BY <1>1, <1>2, GoToShape
  <2>2. ServiceKnown(e)' /\ ActionFits(e)' BY <2>1 DEF ServiceKnown, ActionFits, At
  <2> QED BY <1>1, <2>1, <2>2, OnTheWay
<1>3. CASE GoTo(e, "return_context") /\ ~CanSendEmail(e)
  <2>1. /\ Others(e) /\ call'[e].pc = "return_context" /\ call'[e].unsent = call[e].unsent
        /\ Keeps(e) /\ call'[e].service = call[e].service
    BY <1>1, <1>3, GoToShape DEF Keeps
  <2>2. call[e].email \in Int BY <1>1 DEF CurrentInv, CallCurrent, WithEmail, At
  <2>3. call[e].service = None /\ failures > 0
    BY <1>1, <1>3, <2>2, CacheAssumption DEF CanSendEmail, ServiceKnown, At
  <2> QED BY <1>1, <2>1, <2>3, ComesToEnd
<1> QED BY <1>2, <1>3 DEF PrepareEmailNotification

\* No step of a call loses a mail.
LEMMA CallKeepsChanges ==
    ASSUME ChangesInv, CurrentInv, ReadsInv, NEW e \in Calls, CallStep(e)
    PROVE  ChangesInv'
<1>1. CallShape /\ failures \in Nat BY DEF CurrentInv, ReadsInv
<1>2. /\ call[e].action \in Actions
      /\ At(e, "get_by_client") => call[e].action = "get"
  BY DEF ChangesInv, ChangeKept, ActionFits
<1>3. CASE Webhook(e)
  <2>1. /\ Others(e) /\ call'[e].unsent = call[e].unsent /\ Fits(call'[e].action, call'[e].pc)
        /\ call'[e].pc \in {"post", "patch", "get_by_id", "get_by_client"}
    BY <1>1, <1>3, WebhookShape
  <2>2. ServiceKnown(e)' BY <2>1 DEF ServiceKnown
  <2>3. ActionFits(e)' /\ call'[e].action \in Actions BY <2>1 DEF ActionFits, At, Fits
  <2>4. UNCHANGED <<sent, claims, failures>> /\ ~Ending(e) /\ ~At(e, "send")
    BY <1>3 DEF Webhook, Ok, Ending, At
  <2>5. call'[e].pc \notin {"return_context", "returned"} BY <2>1
  <2> QED BY <1>1, <2>1, <2>2, <2>3, <2>4, <2>5, OnTheWay
<1>4. CASE \/ Post(e) \/ Patch(e) \/ GetAppointmentById(e) \/ GetByClient(e)
  <2>1. /\ UNCHANGED <<sent, claims>> /\ failures' \in Nat /\ failures <= failures'
        /\ ~Ending(e) /\ ~At(e, "send")
    BY <1>1, <1>4 DEF Post, Patch, Write, GetAppointmentById, GetByClient, Read, Ok, Fail, Ending, At
  <2>2. CASE GoTo(e, "failed") \/ \E new : Seen(e, new)
    <3>1. /\ Others(e) /\ call'[e].unsent = call[e].unsent /\ call'[e].action = call[e].action
          /\ call'[e].pc \in {"failed", "professional_context"}
      BY <1>1, <2>2, GoToShape, SeenShape
    <3>2. ServiceKnown(e)' /\ ActionFits(e)' /\ call'[e].pc \notin {"return_context", "returned"}
      BY <3>1 DEF ServiceKnown, ActionFits, At
    <3> QED BY <1>1, <1>2, <2>1, <3>1, <3>2, OnTheWay
  <2>3. CASE At(e, "get_by_client") /\ GoTo(e, "returned")
    <3>1. /\ Others(e) /\ call'[e].pc = "returned" /\ call'[e].unsent = call[e].unsent
          /\ Keeps(e) /\ call'[e].service = call[e].service
      BY <1>1, <2>3, GoToShape DEF Keeps
    <3> QED BY <1>1, <1>2, <2>1, <2>3, <3>1, ComesToEnd
  <2>4. \/ GoTo(e, "failed") \/ \E new : Seen(e, new)
        \/ At(e, "get_by_client") /\ GoTo(e, "returned")
    BY <1>4 DEF Post, Patch, Write, GetAppointmentById, GetByClient, Read, StopAndError,
       ErrorReport20, ErrorReport19, ErrorReport18, ErrorReport16
  <2> QED BY <2>2, <2>3, <2>4
<1>5. CASE ProfessionalContext(e) \/ ServiceContext(e)
  <2>1. /\ UNCHANGED <<sent, claims, failures>> /\ ~Ending(e) /\ ~At(e, "send")
    BY <1>5 DEF ProfessionalContext, ServiceContext, StartRead, NoChange, Ok, Ending, At
  <2>2. GoTo(e, "professional") \/ GoTo(e, "failed") \/ TakesEmail(e, "service", read[e].got)
    BY <1>5 DEF ProfessionalContext, ServiceContext, StopAndError, TakesEmail
  <2>3. /\ Others(e) /\ call'[e].unsent = call[e].unsent /\ call'[e].action = call[e].action
        /\ call'[e].pc \in {"professional", "failed", "service"}
    BY <1>1, <2>2, GoToShape, EmailShape
  <2>4. ServiceKnown(e)' /\ ActionFits(e)' /\ call'[e].pc \notin {"return_context", "returned"}
    BY <2>3 DEF ServiceKnown, ActionFits, At
  <2> QED BY <1>1, <1>2, <2>1, <2>3, <2>4, OnTheWay
<1>6. CASE ReturnContext(e)
  <2>1. /\ Others(e) /\ call'[e].pc = "returned" /\ call'[e].unsent = call[e].unsent
        /\ Keeps(e) /\ call'[e].service = call[e].service
    BY <1>1, <1>6, GoToShape DEF Keeps, ReturnContext
  <2>2. /\ UNCHANGED <<sent, claims, failures>> /\ ~At(e, "send")
        /\ call[e].action # "get" => Mailed(EventKey(e)) \/ (call[e].service = None /\ failures > 0)
    BY <1>6 DEF ReturnContext, NoChange, Ok, At, ChangesInv, ChangeKept, Ending
  <2> QED BY <1>1, <2>1, <2>2, ComesToEnd
<1>7. CASE ConfirmationEmail(e) \/ UpdateEmail(e) \/ DeleteEmail(e)
  <2>1. CASE ConfirmationEmail(e) BY <1>1, <2>1, SendKeepsChanges DEF ConfirmationEmail, ErrorReport24
  <2>2. CASE UpdateEmail(e) BY <1>1, <2>2, SendKeepsChanges DEF UpdateEmail, ErrorReport26
  <2>3. CASE DeleteEmail(e) BY <1>1, <2>3, SendKeepsChanges DEF DeleteEmail, ErrorReport
  <2> QED BY <1>7, <2>1, <2>2, <2>3
<1> QED BY <1>1, <1>3, <1>4, <1>5, <1>6, <1>7, CancelKeepsChanges, ContextKeepsChanges, PrepareKeepsChanges,
           SearchKeepsChanges, ClaimKeepsChanges DEF CallStep

\* The mails are kept.
LEMMA ChangesInvariant == Spec => []ChangesInv
<1>1. Init => ChangesInv
  <2> SUFFICES ASSUME Init PROVE ChangesInv
    OBVIOUS
  <2>1. call = [e \in Calls |-> Idle] /\ claims = {} BY DEF Init
  <2>2. Idle.pc = "idle" /\ Idle.action = "get" /\ Idle.unsent = FALSE BY DEF Idle
  <2>3. \A e \in Calls : call[e].pc = "idle" /\ call[e].action = "get" /\ call[e].unsent = FALSE BY <2>1, <2>2
  <2>4. \A e \in Calls : ChangeKept(e)
    BY <2>3 DEF ChangeKept, Ending, ServiceKnown, ActionFits, At, Actions
  <2> QED BY <2>1, <2>4 DEF ChangesInv
<1>2. ChangesInv /\ CurrentInv /\ ReadsInv /\ [Next]_vars => ChangesInv'
  <2> SUFFICES ASSUME ChangesInv, CurrentInv, ReadsInv, [Next]_vars PROVE ChangesInv'
    OBVIOUS
  <2>1. ASSUME NEW e \in Calls, CallStep(e) PROVE ChangesInv' BY <2>1, CallKeepsChanges
  <2>2. ASSUME NEW e \in Calls, AgentReads(e) PROVE ChangesInv'
    <3>1. /\ Others(e) /\ call'[e].pc = "reading" /\ call'[e].unsent = call[e].unsent
          /\ call'[e].action = call[e].action
      BY <2>2, GoToShape DEF AgentReads, CurrentInv
    <3>2. /\ UNCHANGED <<sent, claims, failures>> /\ ~Ending(e) /\ ~At(e, "send") /\ failures \in Nat
          /\ call[e].action \in Actions
      BY <2>2 DEF AgentReads, StartRead, NoChange, Ok, Ending, At, ReadsInv, ChangesInv, ChangeKept
    <3>3. ServiceKnown(e)' /\ ActionFits(e)' /\ call'[e].pc \notin {"return_context", "returned"}
      BY <3>1 DEF ServiceKnown, ActionFits, At
    <3> QED BY <3>1, <3>2, <3>3, OnTheWay
  <2>3. CASE UNCHANGED <<call, sent>> /\ claims' \subseteq claims /\ failures' >= failures /\ failures' \in Nat
    <3>1. \A e \in Calls : EventKey(e)' = EventKey(e) BY <2>3 DEF EventKey
    <3>2. \A key : Mailed(key) => Mailed(key)' BY <2>3, <3>1 DEF Mailed, At
    <3>3. ASSUME NEW e \in Calls PROVE ChangeKept(e)'
      <4>1. ChangeKept(e) /\ (Mailed(EventKey(e)) => Mailed(EventKey(e))')
        BY <2>3, <3>1 DEF ChangesInv, Mailed, At
      <4> QED BY <2>3, <4>1 DEF ChangeKept, Ending, ServiceKnown, ActionFits, At, ReadsInv
    <3> QED BY <2>3, <3>2, <3>3 DEF ChangesInv
  <2>4. ASSUME NEW key \in claims, ClaimExpires(key) PROVE ChangesInv'
    BY <2>3, <2>4 DEF ClaimExpires, Ok, ReadsInv
  <2>5. (failures' >= failures /\ failures' \in Nat) \/ \E e \in Calls : CallStep(e) \/ AgentReads(e)
    <3>1. CASE \E r \in Reads : ReadStep(r)
      BY <3>1 DEF ReadsInv, ReadStep, GetAll, GetContext, PushContext, GetContext1, GetById, PushContext1,
         GetContext2, GetByName, PushContext2, Ok, Fail
    <3>2. CASE ApiStep BY <3>2 DEF ReadsInv, ApiStep, CommitUpdate, InvalidatePatterns, Expires, Ok, Fail
    <3>3. CASE UNCHANGED vars BY <3>3 DEF vars, cacheVars, ReadsInv
    <3>4. CASE \E key \in claims : ClaimExpires(key) BY <3>4 DEF ClaimExpires, Ok, ReadsInv
    <3> QED BY <3>1, <3>2, <3>3, <3>4 DEF Next
  <2>6. CASE UNCHANGED toolVars
    <3>1. UNCHANGED <<call, sent, claims>> BY <2>6 DEF toolVars
    <3> QED BY <2>1, <2>2, <2>3, <2>5, <3>1
  <2> QED BY <2>1, <2>2, <2>4, <2>6 DEF Next, vars
<1> QED BY <1>1, <1>2, CurrentInvariant, ReadsInvariant, PTL DEF Spec

\* Whatever fails or overlaps, no change is left without its mail but for a mail
\* that failed, which is reported, and a service that could not be read.
THEOREM ToolEveryChangeMailed == Spec => []EveryChangeMailed
<1>1. ChangesInv => EveryChangeMailed
  BY DEF ChangesInv, ChangeKept, EveryChangeMailed, Ending, Mailed, At
<1> QED BY <1>1, ChangesInvariant, PTL

-----------------------------------------------------------------------------
\* LastMailTrue. A step of the one running call, or of a call when none runs.
LEMMA LastStep ==
    ASSUME LastInv, Quiet, NEW e \in Calls, Others(e), overlap' \in BOOLEAN, repeated' \in BOOLEAN,
           Running(e) \/ \A f \in Calls : ~Running(f),
           OnItsWay(e)', ~Running(e)' => told' = appointment'
    PROVE  LastInv'
<1>1. \A f \in Calls \ {e} : ~Running(f) BY DEF LastInv
<1>2. \A f \in Calls \ {e} : ~Running(f)' BY <1>1 DEF Running, Others
<1>3. \A f \in Calls \ {e} : OnItsWay(f)' BY <1>2 DEF Running, NotRunning, OnItsWay
<1> QED BY <1>2, <1>3 DEF LastInv

\* A step of a running call that only goes on, or stops.
LEMMA GoesOnLast ==
    ASSUME LastInv, Quiet, CallShape, NEW e \in Calls, NEW pc, GoTo(e, pc), Running(e),
           UNCHANGED <<appointment, told, overlap>>, repeated' \in BOOLEAN,
           \/ pc \in NotRunning \cup {"return_context"} /\ told = appointment
           \/ /\ pc = "professional" /\ call[e].seen = appointment
              /\ call[e].action \in {"get", "cancel"} => told = appointment
           \/ /\ pc \in {"find_sent", "claim"} /\ call[e].seen = appointment
              /\ EventKey(e) \notin sent' \cup claims' \/ told = appointment
           \/ pc = "send" /\ call[e].seen = appointment
    PROVE  LastInv'
<1>1. /\ Others(e) /\ call'[e].pc = pc /\ Keeps(e) BY GoToShape DEF Keeps
<1>2. EventKey(e)' = EventKey(e) BY <1>1 DEF Keeps, EventKey
<1>3. OnItsWay(e)' BY <1>1, <1>2 DEF OnItsWay, NotRunning, Keeps
<1>4. ~Running(e)' => told' = appointment' BY <1>1 DEF Running, NotRunning
<1>5. overlap' \in BOOLEAN BY DEF LastInv
<1> QED BY <1>1, <1>3, <1>4, <1>5, LastStep

\* What a call that has canceled knows of the appointment.
LEMMA CanceledSeen ==
    ASSUME CallShape, NEW e \in Calls, Canceled(e)
    PROVE  call'[e].seen = [call[e].seen EXCEPT !.status = "canceled"]
<1> DEFINE r == [pc |-> "prepare_email", action |-> call[e].action, start |-> call[e].start,
               seen |-> [call[e].seen EXCEPT !.status = "canceled"],
               asOf |-> call[e].asOf, email |-> call[e].email, service |-> call[e].service,
               unsent |-> call[e].unsent]
<1>1. call' = [call EXCEPT ![e] = [call[e] EXCEPT !.pc = "prepare_email", !.seen.status = "canceled"]]
  BY DEF CallShape, Canceled
<1>2. IsCall(call[e]) BY DEF CallShape
<1>3. call'[e] = [call[e] EXCEPT !.pc = "prepare_email", !.seen.status = "canceled"]
  BY <1>1 DEF CallShape
<1>4. call'[e] = r BY <1>2, <1>3 DEF IsCall
<1>5. r.seen = [call[e].seen EXCEPT !.status = "canceled"] OBVIOUS
<1> HIDE DEF r
<1> QED BY <1>4, <1>5

\* The histories stay truth values.
LEMMA TypesStay ==
    ASSUME LastInv, [Next]_vars
    PROVE  overlap' \in BOOLEAN /\ repeated' \in BOOLEAN
<1>1. overlap \in BOOLEAN /\ repeated \in BOOLEAN BY DEF LastInv
<1>2. ASSUME NEW e \in Calls, Webhook(e) PROVE overlap' \in BOOLEAN /\ repeated' \in BOOLEAN
  BY <1>1, <1>2 DEF Webhook
<1>3. ASSUME NEW e \in Calls, PrepareEmailNotification(e) PROVE overlap' \in BOOLEAN /\ repeated' \in BOOLEAN
  BY <1>1, <1>3 DEF PrepareEmailNotification
<1>4. CASE UNCHANGED <<overlap, repeated>> BY <1>1, <1>4
<1>5. ASSUME NEW e \in Calls, CallStep(e) \/ AgentReads(e)
      PROVE  Webhook(e) \/ PrepareEmailNotification(e) \/ UNCHANGED <<overlap, repeated>>
  <2>1. CASE \/ Post(e) \/ Patch(e) \/ Cancel(e) \/ GetAppointmentById(e) \/ GetByClient(e)
             \/ ProfessionalContext(e) \/ ServiceContext(e) \/ AppointmentContext(e) \/ AgentReads(e)
    BY <2>1 DEF Post, Patch, Write, Cancel, GetAppointmentById, GetByClient, Read, ProfessionalContext,
       ServiceContext, AppointmentContext, AgentReads, NoChange
  <2>2. CASE \/ FindSentNotification(e) \/ ClaimNotification(e)
             \/ ConfirmationEmail(e) \/ UpdateEmail(e) \/ DeleteEmail(e) \/ ReturnContext(e)
    BY <2>2 DEF FindSentNotification, ClaimNotification,
       ConfirmationEmail, UpdateEmail, DeleteEmail, SendEmail, ReturnContext, NoChange
  <2> QED BY <1>5, <2>1, <2>2 DEF CallStep
<1>6. ASSUME NEW key \in claims, ClaimExpires(key) PROVE UNCHANGED <<overlap, repeated>>
  BY <1>6 DEF ClaimExpires
<1>7. CASE UNCHANGED toolVars BY <1>4, <1>7 DEF toolVars
<1> QED BY <1>2, <1>3, <1>4, <1>5, <1>6, <1>7 DEF Next, vars

\* As long as nothing failed, overlapped or was repeated, so it was before.
LEMMA QuietBefore ==
    ASSUME LastInv, ReadsInv, [Next]_vars, Quiet'
    PROVE  Quiet /\ UNCHANGED failures
<1>1. failures' = 0 /\ ~overlap' /\ ~repeated' BY DEF Quiet
<1>2. failures \in Nat /\ overlap \in BOOLEAN /\ repeated \in BOOLEAN BY DEF ReadsInv, LastInv
<1>3. ASSUME NEW e \in Calls, CallStep(e) PROVE failures = 0 /\ ~overlap /\ ~repeated
  <2>1. CASE \/ Webhook(e) \/ Post(e) \/ Patch(e) \/ Cancel(e) \/ GetAppointmentById(e) \/ GetByClient(e)
             \/ ProfessionalContext(e) \/ ServiceContext(e) \/ AppointmentContext(e)
    <3>1. failures' = failures \/ failures' = failures + 1
      BY <2>1 DEF Webhook, Post, Patch, Write, Cancel, GetAppointmentById, GetByClient, Read, ProfessionalContext,
         StartRead, ServiceContext, AppointmentContext, Ok, Fail
    <3>2. repeated' = repeated
      BY <2>1 DEF Webhook, Post, Patch, Write, Cancel, GetAppointmentById, GetByClient, Read, ProfessionalContext,
         StartRead, ServiceContext, AppointmentContext, NoChange
    <3>3. overlap' = overlap \/ overlap' = (overlap \/ \E f \in Calls \ {e} : call[f].pc \notin NotRunning)
      BY <2>1 DEF Webhook, Post, Patch, Write, Cancel, GetAppointmentById, GetByClient, Read, ProfessionalContext,
         StartRead, ServiceContext, AppointmentContext, NoChange
    <3> QED BY <1>1, <1>2, <3>1, <3>2, <3>3
  <2>2. CASE \/ PrepareEmailNotification(e) \/ FindSentNotification(e) \/ ClaimNotification(e)
             \/ ConfirmationEmail(e) \/ UpdateEmail(e) \/ DeleteEmail(e) \/ ReturnContext(e)
    <3>1. failures' = failures \/ failures' = failures + 1
      BY <2>2 DEF PrepareEmailNotification, FindSentNotification, ClaimNotification,
         ConfirmationEmail, UpdateEmail, DeleteEmail, SendEmail, ReturnContext, Ok, Fail
    <3>2. overlap' = overlap
      BY <2>2 DEF PrepareEmailNotification, FindSentNotification, ClaimNotification,
         ConfirmationEmail, UpdateEmail, DeleteEmail, SendEmail, ReturnContext, NoChange
    <3>3. \/ repeated' = repeated
          \/ repeated' = (repeated \/ (EventKey(e) \in sent \cup claims /\ told # call[e].seen))
      BY <2>2 DEF PrepareEmailNotification, FindSentNotification, ClaimNotification,
         ConfirmationEmail, UpdateEmail, DeleteEmail, SendEmail, ReturnContext, NoChange
    <3> QED BY <1>1, <1>2, <3>1, <3>2, <3>3
  <2> QED BY <1>3, <2>1, <2>2 DEF CallStep
<1>4. ASSUME NEW e \in Calls, AgentReads(e) PROVE failures = 0 /\ ~overlap /\ ~repeated
  BY <1>1, <1>4 DEF AgentReads, StartRead, NoChange, Ok
<1>5. ASSUME NEW key \in claims, ClaimExpires(key) PROVE failures = 0 /\ ~overlap /\ ~repeated
  BY <1>1, <1>5 DEF ClaimExpires, Ok
<1>6. ASSUME UNCHANGED toolVars, (\E r \in Reads : ReadStep(r)) \/ ApiStep
      PROVE  failures = 0 /\ ~overlap /\ ~repeated
  <2>1. ~overlap /\ ~repeated BY <1>1, <1>6 DEF toolVars
  <2>2. CASE \E r \in Reads : ReadStep(r)
    BY <1>1, <1>2, <2>1, <2>2 DEF ReadStep, GetAll, GetContext, PushContext, GetContext1, GetById, PushContext1,
       GetContext2, GetByName, PushContext2, Ok, Fail
  <2>3. CASE ApiStep BY <1>1, <1>2, <2>1, <2>3 DEF ApiStep, CommitUpdate, InvalidatePatterns, Expires, Ok, Fail
  <2> QED BY <1>6, <2>2, <2>3
<1>7. ASSUME UNCHANGED vars PROVE failures = 0 /\ ~overlap /\ ~repeated
  BY <1>1, <1>7 DEF vars, cacheVars, toolVars
<1>8. failures = 0 /\ ~overlap /\ ~repeated BY <1>3, <1>4, <1>5, <1>6, <1>7 DEF Next
<1> QED BY <1>1, <1>8 DEF Quiet

\* The API: what a call writes it has seen, and it has told what was before.
LEMMA WritesKeepLast ==
    ASSUME LastInv, ChangesInv, CallShape, Quiet, UNCHANGED failures, NEW e \in Calls,
           \/ Post(e) \/ Patch(e) \/ Cancel(e) \/ GetAppointmentById(e) \/ GetByClient(e)
    PROVE  LastInv'
<1>1. failures \in {0} /\ ~Fail BY DEF Quiet, Fail
<1>2. /\ UNCHANGED <<told, overlap, repeated>> /\ OnItsWay(e) /\ Running(e)
      /\ overlap' \in BOOLEAN /\ repeated' \in BOOLEAN
  BY DEF Post, Patch, Write, Cancel, GetAppointmentById, GetByClient, Read, LastInv, Running, NotRunning, At
<1>3. told = appointment \/ At(e, "cancel")
  BY <1>2 DEF Post, Patch, Cancel, GetAppointmentById, GetByClient, OnItsWay, At
<1>4. CASE UNCHANGED appointment /\ (GoTo(e, "failed") \/ GoTo(e, "returned"))
  <2>1. told = appointment BY <1>2, <1>3 DEF OnItsWay, At
  <2> QED BY <1>2, <1>4, <2>1, GoesOnLast DEF NotRunning
<1>5. ASSUME NEW new, Seen(e, new), appointment' = new,
             call[e].action \in {"get", "cancel"} => UNCHANGED appointment /\ told = appointment
      PROVE  LastInv'
  <2>1. /\ Others(e) /\ call'[e].pc = "professional_context" /\ call'[e].seen = appointment'
        /\ call'[e].action = call[e].action
    BY <1>5, SeenShape
  <2>2. OnItsWay(e)' BY <1>2, <1>5, <2>1 DEF OnItsWay
  <2>3. Running(e)' BY <2>1 DEF Running, NotRunning
  <2> QED BY <1>2, <2>1, <2>2, <2>3, LastStep
<1>6. CASE Post(e) \/ Patch(e)
  <2>1. call[e].action \in {"post", "update"} BY <1>6 DEF Post, Patch, ChangesInv, ChangeKept, ActionFits
  <2>2. \/ \E new : Seen(e, new) /\ appointment' = new
        \/ UNCHANGED appointment /\ GoTo(e, "failed")
    BY <1>1, <1>6 DEF Post, Patch, Write, ErrorReport20, ErrorReport19, StopAndError
  <2> QED BY <1>4, <1>5, <2>1, <2>2
<1>7. CASE GetAppointmentById(e) \/ GetByClient(e)
  <2>1. told = appointment /\ UNCHANGED appointment
    BY <1>3, <1>7 DEF GetAppointmentById, GetByClient, Read, At
  <2>2. Seen(e, appointment) \/ GoTo(e, "failed") \/ GoTo(e, "returned")
    BY <1>1, <1>7 DEF GetAppointmentById, GetByClient, Read, ErrorReport18, ErrorReport16, StopAndError
  <2>3. CASE Seen(e, appointment) BY <1>5, <2>1, <2>3
  <2> QED BY <1>4, <2>1, <2>2, <2>3
<1>8. CASE Cancel(e)
  <2>1. call[e].seen = appointment /\ told = appointment BY <1>2, <1>8 DEF Cancel, OnItsWay, At
  <2>2. CASE Canceled(e) /\ appointment' = [appointment EXCEPT !.status = "canceled"]
    <3>1. Others(e) /\ call'[e].pc = "prepare_email" BY <2>2, CanceledShape
    <3>2. call'[e].seen = [call[e].seen EXCEPT !.status = "canceled"] BY <2>2, CanceledSeen
    <3>3. call'[e].seen = appointment' BY <2>1, <2>2, <3>2
    <3>4. OnItsWay(e)' BY <3>1, <3>3 DEF OnItsWay
    <3>5. Running(e)' BY <3>1 DEF Running, NotRunning
    <3> QED BY <1>2, <3>1, <3>4, <3>5, LastStep
  <2>3. \/ UNCHANGED appointment /\ GoTo(e, "failed")
        \/ Canceled(e) /\ appointment' = [appointment EXCEPT !.status = "canceled"]
    BY <1>1, <1>8 DEF Cancel, Canceled, ErrorReport21, StopAndError
  <2> QED BY <1>4, <2>2, <2>3
<1> QED BY <1>6, <1>7, <1>8

\* The contexts, and what comes after them.
LEMMA ContextsKeepLast ==
    ASSUME LastInv, ReadsInv, CallShape, Quiet, NEW e \in Calls,
           ProfessionalContext(e) \/ ServiceContext(e) \/ AppointmentContext(e)
    PROVE  LastInv'
<1>1. /\ UNCHANGED <<appointment, told, overlap, repeated>> /\ OnItsWay(e) /\ Running(e)
      /\ overlap' \in BOOLEAN /\ repeated' \in BOOLEAN
  BY DEF ProfessionalContext, ServiceContext, AppointmentContext, NoChange, LastInv, Running, NotRunning, At
<1>2. read[e].pc # "failed" BY ToolAssumption DEF ReadsInv, ReadCurrent, Quiet
<1>3. /\ call[e].seen = appointment
      /\ call[e].action \in {"get", "cancel"} => told = appointment
  BY <1>1 DEF ProfessionalContext, ServiceContext, AppointmentContext, OnItsWay, At
<1>4. CASE ProfessionalContext(e)
  BY <1>1, <1>3, <1>4, GoesOnLast DEF ProfessionalContext
<1>5. CASE ServiceContext(e)
  <2>1. TakesEmail(e, "service", read[e].got) BY <1>2, <1>5 DEF ServiceContext, TakesEmail, ReadAt
  <2>2. /\ Others(e) /\ call'[e].pc = "service" /\ call'[e].seen = call[e].seen
        /\ call'[e].action = call[e].action
    BY <2>1, EmailShape
  <2>3. OnItsWay(e)' BY <1>1, <1>3, <2>2 DEF OnItsWay
  <2>4. Running(e)' BY <2>2 DEF Running, NotRunning
  <2> QED BY <1>1, <2>2, <2>3, <2>4, LastStep
<1>6. CASE AppointmentContext(e)
  <2> DEFINE pc == Action1(call[e].action)
  <2> DEFINE got == read[e].got
  <2>1. TakesService(e, pc, got) BY <1>2, <1>6 DEF AppointmentContext, TakesService, ReadAt
  <2>2. /\ pc \in {"cancel", "return_context", "prepare_email"}
        /\ pc = "cancel" => call[e].action = "cancel"
        /\ pc = "return_context" => call[e].action = "get"
    BY DEF Action1
  <2> HIDE DEF pc, got
  <2>3. /\ Others(e) /\ call'[e].pc = pc /\ call'[e].seen = call[e].seen
        /\ call'[e].action = call[e].action
    BY <2>1, ServiceShape
  <2>4. OnItsWay(e)' BY <1>1, <1>3, <2>2, <2>3 DEF OnItsWay
  <2>5. Running(e)' BY <2>2, <2>3 DEF Running, NotRunning
  <2> QED BY <1>1, <2>3, <2>4, <2>5, LastStep
<1> QED BY <1>4, <1>5, <1>6

\* The mail: it is kept back for a mail that says the same.
LEMMA MailKeepsLast ==
    ASSUME LastInv, ChangesInv, CurrentInv, Quiet, UNCHANGED failures, ~repeated', NEW e \in Calls,
           \/ PrepareEmailNotification(e) \/ FindSentNotification(e) \/ ClaimNotification(e)
           \/ ConfirmationEmail(e) \/ UpdateEmail(e) \/ DeleteEmail(e) \/ ReturnContext(e)
    PROVE  LastInv'
<1>1. failures \in {0} /\ ~Fail BY DEF Quiet, Fail
<1>2. /\ UNCHANGED <<appointment, overlap>> /\ OnItsWay(e) /\ Running(e) /\ CallShape
      /\ overlap' \in BOOLEAN
  BY DEF PrepareEmailNotification, FindSentNotification, ClaimNotification, ConfirmationEmail, UpdateEmail,
     DeleteEmail, SendEmail, ReturnContext, NoChange, LastInv, Running, NotRunning, At, CurrentInv
<1>3. repeated' \in BOOLEAN
  <2>1. repeated \in BOOLEAN BY DEF LastInv
  <2>2. CASE PrepareEmailNotification(e) BY <2>2 DEF PrepareEmailNotification
  <2>3. CASE FindSentNotification(e) \/ ClaimNotification(e) \/ ReturnContext(e)
    BY <2>1, <2>3 DEF FindSentNotification, ClaimNotification, ReturnContext, NoChange
  <2>4. CASE ConfirmationEmail(e) \/ UpdateEmail(e) \/ DeleteEmail(e)
    BY <2>1, <2>4 DEF ConfirmationEmail, UpdateEmail, DeleteEmail, SendEmail
  <2> QED BY <2>2, <2>3, <2>4
<1>4. CASE PrepareEmailNotification(e)
  <2>1. call[e].pc = "prepare_email" /\ UNCHANGED <<sent, claims, told>> /\ call[e].seen = appointment
    BY <1>2, <1>4 DEF PrepareEmailNotification, OnItsWay, At
  <2>2. CanSendEmail(e)
    BY <1>1, <2>1, CacheAssumption DEF CanSendEmail, ChangesInv, ChangeKept, ServiceKnown,
       CurrentInv, CallCurrent, WithEmail
  <2>3. EventKey(e) \notin sent \cup claims \/ told = appointment
    <3>1. repeated' = (repeated \/ (EventKey(e) \in sent \cup claims /\ told # call[e].seen))
      BY <1>4 DEF PrepareEmailNotification
    <3> QED BY <2>1, <3>1
  <2>4. GoTo(e, "find_sent") BY <1>4, <2>2 DEF PrepareEmailNotification
  <2>5. EventKey(e) \notin sent' \cup claims' \/ told = appointment BY <2>1, <2>3
  <2> QED BY <1>2, <1>3, <2>1, <2>4, <2>5, GoesOnLast
<1>5. CASE FindSentNotification(e)
  <2>1. /\ call[e].pc = "find_sent" /\ UNCHANGED <<sent, claims, told>> /\ call[e].seen = appointment
        /\ EventKey(e) \notin sent \cup claims \/ told = appointment
    BY <1>2, <1>5 DEF FindSentNotification, OnItsWay, At
  <2>2. CASE GoTo(e, "return_context") /\ EventKey(e) \in sent BY <1>2, <1>3, <2>1, <2>2, GoesOnLast
  <2>3. CASE GoTo(e, "claim")
    <3>1. EventKey(e) \notin sent' \cup claims' \/ told = appointment BY <2>1
    <3> QED BY <1>2, <1>3, <2>1, <2>3, <3>1, GoesOnLast
  <2> QED BY <1>5, <2>2, <2>3 DEF FindSentNotification, EmailAlreadySent
<1>6. CASE ClaimNotification(e)
  <2>1. /\ call[e].pc = "claim" /\ UNCHANGED <<sent, told>> /\ call[e].seen = appointment
        /\ EventKey(e) \notin sent \cup claims \/ told = appointment
    BY <1>2, <1>6 DEF ClaimNotification, OnItsWay, At
  <2>2. CASE GoTo(e, "return_context") /\ EventKey(e) \in claims BY <1>2, <1>3, <2>1, <2>2, GoesOnLast
  <2>3. CASE GoTo(e, "send") BY <1>2, <1>3, <2>1, <2>3, GoesOnLast
  <2> QED BY <1>6, <2>2, <2>3 DEF ClaimNotification, NotificationClaimed
<1>7. CASE ConfirmationEmail(e) \/ UpdateEmail(e) \/ DeleteEmail(e)
  <2>1. At(e, "send") /\ GoTo(e, "return_context") /\ told' = call[e].seen
    BY <1>1, <1>7 DEF ConfirmationEmail, UpdateEmail, DeleteEmail, SendEmail, Mails
  <2>2. told' = appointment' BY <1>2, <2>1 DEF OnItsWay, At
  <2>3. Others(e) /\ call'[e].pc = "return_context" BY <1>2, <2>1, GoToShape
  <2>4. OnItsWay(e)' BY <2>2, <2>3 DEF OnItsWay
  <2> QED BY <1>2, <1>3, <2>2, <2>3, <2>4, LastStep
<1>8. CASE ReturnContext(e)
  <2>1. GoTo(e, "returned") /\ UNCHANGED told /\ told = appointment
    BY <1>2, <1>8 DEF ReturnContext, NoChange, OnItsWay, At
  <2> QED BY <1>2, <1>3, <2>1, GoesOnLast DEF NotRunning
<1> QED BY <1>4, <1>5, <1>6, <1>7, <1>8

\* A call that starts alone finds the last mail true.
LEMMA WebhookKeepsLast ==
    ASSUME LastInv, CallShape, Quiet, ~overlap', NEW e \in Calls, Webhook(e)
    PROVE  LastInv'
<1>1. /\ At(e, "idle") /\ UNCHANGED <<appointment, told, repeated>>
      /\ overlap' = (overlap \/ \E f \in Calls \ {e} : call[f].pc \notin NotRunning)
  BY DEF Webhook
<1>2. \A f \in Calls : ~Running(f) BY <1>1 DEF Running, NotRunning, At
<1>3. told = appointment BY <1>2 DEF LastInv
<1>4. Others(e) /\ call'[e].pc \in {"post", "patch", "get_by_id", "get_by_client"} BY WebhookShape
<1>5. OnItsWay(e)' /\ Running(e)' BY <1>1, <1>3, <1>4 DEF OnItsWay, Running, NotRunning
<1>6. overlap' \in BOOLEAN /\ repeated' \in BOOLEAN BY <1>1 DEF LastInv
<1> QED BY <1>2, <1>4, <1>5, <1>6, LastStep

\* At rest the last mail says how the appointment is, as long as no call failed,
\* no two ran at once and no change was made twice for one message.
THEOREM ToolLastMailTrue == Spec => []LastMailTrue
<1>1. Init => LastInv
  <2> SUFFICES ASSUME Init PROVE LastInv
    OBVIOUS
  <2>1. call = [e \in Calls |-> Idle] /\ told = appointment BY DEF Init
  <2>2. Idle.pc = "idle" BY DEF Idle
  <2>3. \A e \in Calls : call[e].pc = "idle" BY <2>1, <2>2
  <2>4. \A e \in Calls : OnItsWay(e) /\ ~Running(e) BY <2>3 DEF OnItsWay, Running, NotRunning
  <2>5. overlap = FALSE /\ repeated = FALSE BY DEF Init
  <2> QED BY <2>1, <2>4, <2>5 DEF LastInv
<1>2. LastInv /\ ChangesInv /\ CurrentInv /\ ReadsInv /\ [Next]_vars => LastInv'
  <2> SUFFICES ASSUME LastInv, ChangesInv, CurrentInv, ReadsInv, [Next]_vars PROVE LastInv'
    OBVIOUS
  <2>1. overlap' \in BOOLEAN /\ repeated' \in BOOLEAN BY TypesStay
  <2> SUFFICES ASSUME Quiet' PROVE LastInv'
    BY <2>1 DEF LastInv
  <2>2. Quiet /\ UNCHANGED failures /\ CallShape BY QuietBefore DEF CurrentInv
  <2>3. ~overlap' /\ ~repeated' BY DEF Quiet
  <2>4. ASSUME NEW e \in Calls, CallStep(e) PROVE LastInv'
    BY <2>2, <2>3, <2>4, WebhookKeepsLast, WritesKeepLast, ContextsKeepLast, MailKeepsLast DEF CallStep
  <2>5. CASE UNCHANGED <<appointment, sent, told>> /\ claims' \subseteq claims
             /\ \A e \in Calls : call'[e] = call[e] \/ (~Running(e) /\ ~Running(e)')
    <3>1. \A e \in Calls : Running(e)' <=> Running(e) BY <2>5 DEF Running
    <3>2. ASSUME NEW e \in Calls PROVE OnItsWay(e)'
      <4>1. CASE ~Running(e)' BY <4>1 DEF Running, NotRunning, OnItsWay
      <4>2. CASE call'[e] = call[e]
        <5>1. EventKey(e)' = EventKey(e) BY <4>2 DEF EventKey
        <5>2. OnItsWay(e) BY <2>2 DEF LastInv
        <5> QED BY <2>5, <4>2, <5>1, <5>2 DEF OnItsWay
      <4> QED BY <2>5, <4>1, <4>2
    <3>3. \A e, f \in Calls : Running(e)' /\ Running(f)' => e = f BY <2>2, <3>1 DEF LastInv
    <3>4. (\A e \in Calls : ~Running(e)') => told' = appointment' BY <2>2, <2>5, <3>1 DEF LastInv
    <3> QED BY <2>1, <3>2, <3>3, <3>4 DEF LastInv
  <2>6. ASSUME NEW e \in Calls, AgentReads(e) PROVE LastInv'
    <3>1. Others(e) /\ call'[e].pc = "reading" /\ call[e].pc = "idle" BY <2>2, <2>6, GoToShape DEF AgentReads, At
    <3>2. ~Running(e) /\ ~Running(e)' BY <3>1 DEF Running, NotRunning
    <3>3. \A d \in Calls : call'[d] = call[d] \/ (~Running(d) /\ ~Running(d)') BY <3>1, <3>2 DEF Others
    <3> QED BY <2>5, <2>6, <3>3 DEF AgentReads, NoChange
  <2>7. ASSUME NEW key \in claims, ClaimExpires(key) PROVE LastInv'
    BY <2>5, <2>7 DEF ClaimExpires
  <2>8. CASE UNCHANGED toolVars BY <2>5, <2>8 DEF toolVars
  <2> QED BY <2>4, <2>6, <2>7, <2>8 DEF Next, vars
<1>3. LastInv => LastMailTrue BY DEF LastInv, LastMailTrue, Running, Quiet
<1> QED BY <1>1, <1>2, <1>3, ChangesInvariant, CurrentInvariant, ReadsInvariant, PTL DEF Spec
=============================================================================
