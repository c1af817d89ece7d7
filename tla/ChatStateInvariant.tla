-------------------------- MODULE ChatStateInvariant --------------------------
(***************************************************************************)
(* What the executions of ChatState keep true between their steps: the      *)
(* inductive invariants behind DroppedChatsWait, WaitingKnows, NoticedOnce  *)
(* and QuestionClosed.                                                      *)
(***************************************************************************)
EXTENDS ChatState

States == {None, "awaiting_name", "outside_business_hours"}

Clients == {"absent", "nameless", "panel"} \cup Messages
Steps == {"guard", "get_outside_pending", "get_outside_context", "set_outside_pending", "set_outside_context",
          "send_notice", "get_pending", "get_context", "get_client_2", "post_client", "push_context",
          "set_pending_1", "send_question", "set_pending", "get_client_1", "name_extractor", "add_name",
          "invalidate", "send_thanks", "delete_pending"}
ResumeSteps == {"idle", "get_state", "send", "delete_context"}
Reports == {"", "unknown", "internal.redis.get_pending", "internal.api.post_client", "internal.api.get_client",
            "internal.redis.context", "internal.api.client_name", "external.evo.send_message",
            "internal.redis.set_pending", "internal.redis.delete_pending", "external.ai.name_extractor"}
Run == [pc: Steps \cup Ended, pending: States, until: Nat, client: Clients, why: Reports]
Runs == [Messages -> Run]
Resumes ==
    [pc: ResumeSteps, chat: Chats \cup {None}, until: Nat \cup {None}, due: SUBSET Chats]

TypeOK ==
    /\ open \in [Chats -> BOOLEAN] /\ opened \in [Chats -> Nat] /\ failures \in Nat
    /\ state \in [Chats -> States] /\ context \in [Chats -> Nat \cup {None}]
    /\ api \in [Chats -> Clients] /\ panel \subseteq Chats
    /\ cache \in [Chats -> {None, "nameless", "named"}]
    /\ run \in Runs /\ resume \in Resumes
    /\ resume.pc # "idle" => resume.chat \in Chats /\ resume.until \in Nat
    /\ noticed \in [Chats -> SUBSET Nat] /\ stale \subseteq Messages /\ raced \subseteq Chats

Of(c) == {m \in Messages : ChatOf[m] = c}

-----------------------------------------------------------------------------
(* The wait for an opening *)

Waiting(c) == state[c] = "outside_business_hours"
ToWriteContext(c) == \E m \in Of(c) : At(m, "set_outside_context")

\* Until the resume deletes the context of a chat, it is the one it found due.
ResumeFollows(c) ==
    resume.chat = c =>
        /\ resume.pc \in {"get_state", "send", "delete_context"} =>
              context[c] = resume.until /\ opened[c] >= resume.until
        /\ resume.pc = "delete_context" /\ Waiting(c) => ToWriteContext(c)

\* A chat out of hours has its context: DroppedChatsWait.
Found(c) ==
    Waiting(c) /\ context[c] = None => ToWriteContext(c)

\* A chat is told of the opening it waits for: WaitingKnows.
ToldOrTelling(c) ==
    context[c] # None =>
        context[c] \in noticed[c] \/ \E m \in Of(c) : At(m, "send_notice") /\ run[m].until = context[c]

\* Of an opening still to come a chat was told, or is being told, by the one who
\* wrote the context that waits for it.
ToldOnce(c) ==
    /\ \A until \in noticed[c] : context[c] = until \/ opened[c] >= until
    /\ \A m \in Of(c) : At(m, "send_notice") =>
          \/ opened[c] >= run[m].until
          \/ /\ context[c] = run[m].until /\ run[m].until \notin noticed[c]
             /\ \A n \in Of(c) \ {m} : At(n, "send_notice") => run[n].until # run[m].until

Wait(c) == ResumeFollows(c) /\ Found(c) /\ ToldOrTelling(c) /\ ToldOnce(c)

WaitInv == \A c \in Chats : ~Excused(c) => Wait(c)

-----------------------------------------------------------------------------
(* The question for the name *)

ForName == {"send_question", "set_pending", "get_client_1", "name_extractor", "add_name", "invalidate",
            "send_thanks", "delete_pending"}
ForClient == {"get_context", "get_client_2", "post_client", "push_context", "set_pending_1"}

\* An execution whose chat's state did not change since it read or wrote it knows it.
Knows(m) ==
    /\ run[m].pc \in {"get_outside_context", "set_outside_pending"} => state[ChatOf[m]] = run[m].pending
    /\ run[m].pc \in ForClient => state[ChatOf[m]] = None
    /\ run[m].pc \in ForName => state[ChatOf[m]] = "awaiting_name"

\* The name was stored, and the question is about to be taken back.
Closing(c) == \E m \in Of(c) : run[m].pc \in {"invalidate", "send_thanks", "delete_pending"}

NoNewQuestion(c) ==
    api[c] \in Messages =>
        /\ state[c] = "awaiting_name" => Closing(c)
        /\ cache[c] = "nameless" => \E m \in Of(c) : At(m, "invalidate")
        /\ \A m \in Of(c) : At(m, "set_pending_1") /\ m \notin stale => Closing(c)

QuestionInv ==
    failures = 0 =>
        /\ \A m \in Messages \ stale : Knows(m)
        /\ \A c \in Chats \ raced : NoNewQuestion(c)
=============================================================================
