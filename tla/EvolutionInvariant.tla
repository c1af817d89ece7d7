------------------------- MODULE EvolutionInvariant -------------------------
(***************************************************************************)
(* What open requests keep true between their calls while no delete is in   *)
(* their way: the inductive invariant behind NoOrphan, WorksForOwner and    *)
(* OpenHasWebhook.                                                          *)
(***************************************************************************)
EXTENDS EvolutionInstance

\* An idle request is Closed, an open one has an integration, and only a delete
\* deletes.
OperationsFit ==
    \A q \in Requests :
        /\ request[q].pc = "idle" => ~Open(q)
        /\ request[q].pc # "idle" => request[q].integration \in Integrations
        /\ request[q].pc \in {"delete", "remove"} <=> Open(q) /\ request[q].op = "delete"

\* overlap tells: a delete is open alone.
DeletesAlone ==
    \A q, u \in Requests :
        q # u /\ Open(q) /\ Open(u) => request[q].op # "delete"

\* What a delete is about to forget is gone.
RemovesLast ==
    \A q \in Requests : request[q].pc = "remove" => remote.state = "none"

\* An absent instance has no webhook and nothing to scan; what can be scanned,
\* or may still be shown to be scanned, posts its messages to the webhook.
ScannedAfterWebhook ==
    /\ remote.state = "none" => ~remote.webhook /\ ~remote.scannable
    /\ remote.scannable => remote.webhook
    /\ \A q \in Requests :
          request[q].pc = "connect" \/ (request[q].pc = "save" /\ request[q].qr)
            => remote.webhook

EvolutionInv ==
    /\ TypeOK
    /\ OperationsFit
    /\ ~overlap =>
          /\ DeletesAlone
          /\ RemovesLast
          /\ ScannedAfterWebhook
    /\ NoOrphan
    /\ WorksForOwner
    /\ OpenHasWebhook
=============================================================================
