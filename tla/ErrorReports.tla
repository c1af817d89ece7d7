---------------------------- MODULE ErrorReports ----------------------------
(***************************************************************************)
(* The error workflow (workflows/error-prod): which addressees a report of  *)
(* each error type reaches. A node of another workflow that fails either    *)
(* stops its execution with an error object or calls this workflow and goes *)
(* on; both arrive here. Wordings and severities are left out.              *)
(***************************************************************************)

Policy(customer, owner, dev) == [customer |-> customer, owner |-> owner, dev |-> dev]

ApiPolicies ==
    [t \in {"internal.api.auth", "internal.api.reminders", "internal.api.get_business",
            "internal.api.get_service", "internal.api.post_client", "internal.api.client_name",
            "internal.api.get_client", "internal.api.get_professional",
            "internal.api.get_context", "internal.api.get_appointment",
            "internal.api.complete_appointments"} |->
        Policy(t \in {"internal.api.auth", "internal.api.get_business"},
               t # "internal.api.reminders", TRUE)]

RedisPolicies ==
    [t \in {"internal.redis.keys", "internal.redis.buffer", "internal.redis.context",
            "internal.redis.set_pending", "internal.redis.get_pending",
            "internal.redis.get_timeout", "internal.redis.set_timeout",
            "internal.redis.delete_pending", "internal.redis.get_memory",
            "internal.redis.push_memory", "internal.redis.personal_block"} |->
        Policy(t \in {"internal.redis.buffer", "internal.redis.set_pending",
                      "internal.redis.get_pending", "internal.redis.get_timeout",
                      "internal.redis.personal_block"},
               t = "internal.redis.set_timeout", TRUE)]

ExternalPolicies ==
    [t \in {"external.evo.get_base64", "external.evo.send_message",
            "external.ai.transcription", "external.ai.text_classifier",
            "external.ai.name_extractor", "external.calendar", "external.gmail"} |->
        Policy(t \in {"external.evo.get_base64", "external.ai.transcription"},
               t = "external.evo.send_message", TRUE)]

BusinessPolicies ==
    [t \in {"internal.ai.agent", "business.human_handoff",
            "business.availability_get_slots", "business.availability_check_and_suggest",
            "business.appointment_create", "business.appointment_update",
            "business.appointment_cancel"} |->
        Policy(t # "business.human_handoff",
               t \in {"business.human_handoff", "business.appointment_create",
                      "business.appointment_update", "business.appointment_cancel"},
               t # "business.human_handoff")]

FallbackPolicy == Policy(TRUE, FALSE, TRUE)

PolicyOf(type) ==
    CASE type \in DOMAIN ApiPolicies -> ApiPolicies[type]
      [] type \in DOMAIN RedisPolicies -> RedisPolicies[type]
      [] type \in DOMAIN ExternalPolicies -> ExternalPolicies[type]
      [] type \in DOMAIN BusinessPolicies -> BusinessPolicies[type]
      [] type = "backend.unhandled" -> Policy(FALSE, FALSE, TRUE)
      [] OTHER -> FallbackPolicy

\* The owner is told over the Evolution API, so not of its own failures.
IsEvolutionError(type) == type \in {"external.evo.get_base64", "external.evo.send_message"}

OwnerMessage(type) == PolicyOf(type).owner /\ ~IsEvolutionError(type)

\* A client or an owner is told only if the report names the chat it is about.
Addressees(type, named) ==
    {a \in {"client", "business", "dev"} :
        \/ a = "client" /\ PolicyOf(type).customer /\ named
        \/ a = "business" /\ OwnerMessage(type) /\ named
        \/ a = "dev" /\ PolicyOf(type).dev}
=============================================================================
