---------------------- MODULE AppointmentToolInvariant ----------------------
(***************************************************************************)
(* What reads and calls keep true between their steps: the inductive        *)
(* invariants behind ReadsSeeUpdates, EveryChangeMailed and LastMailTrue.   *)
(***************************************************************************)
EXTENDS AppointmentTool

-----------------------------------------------------------------------------
(* Reads of the contexts, as long as nothing fails *)

Holding == {"get_context", "push_context", "push_context_1", "push_context_2"}

\* A key that was never written behind an update holds what the last answered
\* update left, or something newer.
EntryCurrent(i) == i \notin behind /\ entry[i] # None =>
    entry[i] \in Int /\ entry[i] >= Confirmed(i)

\* A read holds what was current when it started, or something newer; what it
\* answers may be older only if it comes from a key written behind an update.
ReadCurrent(r) ==
    /\ read[r].item \in Items => read[r].since \in Int /\ read[r].since <= Confirmed(read[r].item)
    /\ read[r].pc # "idle" => read[r].item \in Items
    /\ read[r].pc # "failed"
    /\ read[r].pc \in Holding => read[r].got \in Int /\ read[r].got >= read[r].since
    /\ read[r].pc = "done" =>
          /\ read[r].got # None
          /\ read[r].item \notin behind => read[r].got \in Int /\ read[r].got >= read[r].since

ReadsInv ==
    /\ row \in [Items -> Nat] /\ update \subseteq Items /\ failures \in Nat
    /\ failures = 0 => (\A i \in Items : EntryCurrent(i)) /\ (\A r \in Reads : ReadCurrent(r))

-----------------------------------------------------------------------------
(* Mails of the tool *)

\* The mail about a change was sent, is about to be, or failed.
Mailed(key) ==
    \/ key \in sent
    \/ \E f \in Calls : (At(f, "send") \/ call[f].unsent) /\ EventKey(f) = key

Ending(e) == call[e].pc \in {"return_context", "returned"}

\* After the contexts a call knows the service, unless a call failed.
ServiceKnown(e) ==
    call[e].pc \in {"cancel", "prepare_email"} => call[e].service # None \/ failures > 0

\* A call goes where its action belongs.
ActionFits(e) ==
    /\ At(e, "post") => call[e].action = "post"
    /\ At(e, "patch") => call[e].action = "update"
    /\ At(e, "get_by_client") => call[e].action = "get"

\* Whoever ends leaves its change mailed, unless it could not read the service.
ChangeKept(e) ==
    /\ Ending(e) /\ call[e].action # "get" =>
          Mailed(EventKey(e)) \/ (call[e].service = None /\ failures > 0)
    /\ ServiceKnown(e)
    /\ call[e].unsent => Ending(e)
    /\ ActionFits(e) /\ call[e].action \in Actions

\* A claimed change is mailed as well.
ChangesInv ==
    /\ \A key \in claims : Mailed(key)
    /\ \A e \in Calls : ChangeKept(e)

-----------------------------------------------------------------------------
(* The last mail, as long as nothing fails, overlaps or repeats *)

Running(e) == call[e].pc \notin NotRunning

\* What the running call makes of the appointment and of the last mail.
OnItsWay(e) ==
    /\ call[e].pc \in {"post", "patch", "get_by_id", "get_by_client", "cancel", "return_context"}
          => told = appointment
    /\ call[e].pc \in {"professional_context", "professional", "service"}
          => call[e].seen = appointment
             /\ (call[e].action \in {"get", "cancel"} => told = appointment)
    /\ call[e].pc \in {"cancel", "prepare_email", "find_sent", "claim", "send"}
          => call[e].seen = appointment
    /\ call[e].pc \in {"find_sent", "claim"}
          => EventKey(e) \notin sent \cup claims \/ told = appointment

Quiet == failures = 0 /\ ~overlap /\ ~repeated

LastInv ==
    /\ overlap \in BOOLEAN /\ repeated \in BOOLEAN
    /\ Quiet =>
          /\ \A e, f \in Calls : Running(e) /\ Running(f) => e = f
          /\ \A e \in Calls : OnItsWay(e)
          /\ (\A e \in Calls : ~Running(e)) => told = appointment
=============================================================================
