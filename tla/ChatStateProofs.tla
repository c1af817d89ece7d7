---------------------------- MODULE ChatStateProofs ----------------------------
(***************************************************************************)
(* Proofs about ChatState: DroppedChatsWait, WaitingKnows and NoticedOnce   *)
(* from WaitInv, QuestionClosed from QuestionInv. A step of an execution is *)
(* first reduced to where it leads (the Moves lemmas), then to what it does *)
(* to its own chat; the other chats it leaves untouched.                    *)
(***************************************************************************)
EXTENDS ChatStateInvariant, TLAPS

\* What a step of one execution leaves of the others.
Others(m) == \A n \in Messages \ {m} : run'[n] = run[n]

\* m goes on at pc, with what it has read.
Moved(m, pc) ==
    /\ run' \in Runs /\ run'[m].pc = pc /\ Others(m)
    /\ run'[m].until = run[m].until /\ run'[m].pending = run[m].pending /\ run'[m].client = run[m].client

\* GoTo moves one execution, with what it has read.
LEMMA GoToMoves ==
    ASSUME TypeOK, NEW m \in Messages, NEW pc \in Steps \cup Ended, GoTo(m, pc)
    PROVE  Moved(m, pc)
<1>. DEFINE r == [run[m] EXCEPT !.pc = pc]
<1>1. run \in Runs
  BY DEF TypeOK
<1>2. run' = [run EXCEPT ![m] = r]
  BY DEF GoTo
<1>3. /\ r \in Run
      /\ r.pc = pc /\ r.until = run[m].until /\ r.pending = run[m].pending /\ r.client = run[m].client
  BY <1>1 DEF Runs, Run
<1>. HIDE DEF r
<1>. QED
  BY <1>1, <1>2, <1>3 DEF Moved, Others, Runs

\* So does a failed call that the workflow goes on from.
LEMMA CallErrorMoves ==
    ASSUME TypeOK, NEW m \in Messages, NEW pc \in Steps \cup Ended, NEW type \in Reports, CallError(m, type, pc)
    PROVE  Moved(m, pc)
<1>. DEFINE r == [run[m] EXCEPT !.pc = pc, !.why = type]
<1>1. run \in Runs
  BY DEF TypeOK
<1>2. run' = [run EXCEPT ![m] = r]
  BY <1>1 DEF CallError, Runs
<1>3. /\ r \in Run
      /\ r.pc = pc /\ r.until = run[m].until /\ r.pending = run[m].pending /\ r.client = run[m].client
  BY <1>1 DEF Runs, Run
<1>. HIDE DEF r
<1>. QED
  BY <1>1, <1>2, <1>3 DEF Moved, Others, Runs

\* And an execution stopped by an error.
LEMMA StopMoves ==
    ASSUME TypeOK, NEW m \in Messages, NEW type \in Reports, StopAndError(m, type)
    PROVE  Moved(m, "failed")
<1>1. CallError(m, type, "failed")
  BY DEF StopAndError, CallError
<1>2. "failed" \in Steps \cup Ended
  BY DEF Ended
<1>. QED
  BY <1>1, <1>2, CallErrorMoves

\* A call that succeeds or fails leaves failures a number; a failed one is counted.
LEMMA Tries ==
    ASSUME TypeOK, Ok \/ Fail
    PROVE  failures' \in Nat /\ (Fail => failures' > 0)
  BY DEF TypeOK, Ok, Fail

\* The value of a chat's key state: None, "awaiting_name" or "outside_business_hours".
LEMMA RunTypes ==
    ASSUME TypeOK, NEW m \in Messages
    PROVE  /\ ChatOf[m] \in Chats /\ run[m].pc \in Steps \cup Ended /\ run[m].pending \in States
           /\ run[m].until \in Nat /\ run[m].client \in Clients /\ run[m].why \in Reports
           /\ state[ChatOf[m]] \in States /\ opened[ChatOf[m]] \in Nat /\ api[ChatOf[m]] \in Clients
           /\ cache[ChatOf[m]] \in {None, "nameless", "named"}
<1>1. ChatOf[m] \in Chats
  BY ChatAssumption
<1>2. run[m] \in Run
  BY DEF TypeOK, Runs
<1>3. /\ run[m].pc \in Steps \cup Ended /\ run[m].pending \in States /\ run[m].until \in Nat
      /\ run[m].client \in Clients /\ run[m].why \in Reports
  BY <1>2 DEF Run
<1>. QED
  BY <1>1, <1>3 DEF TypeOK

\* A whole record assigned to one execution.
LEMMA RunBecomes ==
    ASSUME TypeOK, NEW m \in Messages, NEW r,
           r \in Run,
           run' = [run EXCEPT ![m] = r]
    PROVE  run' \in Runs /\ run'[m] = r /\ Others(m)
  BY DEF TypeOK, Runs, Others

\* The guard sends a message to one of the two branches, with the opening it would wait for.
LEMMA GuardMoves ==
    ASSUME TypeOK, NEW m \in Messages, BusinessHoursGuard(m)
    PROVE  /\ run' \in Runs /\ Others(m) /\ run'[m].until \in Nat
           /\ run'[m].pc \in {"get_outside_pending", "get_pending"}
<1>. DEFINE pc == IF OutsideBusinessHours(ChatOf[m]) THEN "get_outside_pending" ELSE "get_pending"
            until == NextAllowedAt(ChatOf[m])
            r == [run[m] EXCEPT !.pc = pc, !.until = until]
<1>1. run \in Runs
  BY DEF TypeOK
<1>2. /\ until \in Nat
      /\ pc \in {"get_outside_pending", "get_pending"} /\ pc \in Steps
  <2>1. opened[ChatOf[m]] \in Nat /\ MaxOpenings \in Nat
    BY RunTypes, ChatAssumption
  <2>2. until \in Nat
    BY <2>1 DEF NextAllowedAt, Never
  <2>3. pc \in {"get_outside_pending", "get_pending"}
    OBVIOUS
  <2>. QED
    BY <2>2, <2>3 DEF Steps
<1>3. run' = [run EXCEPT ![m].pc = pc, ![m].until = until]
  BY DEF BusinessHoursGuard
<1>. HIDE DEF pc, until
<1>4. run' = [run EXCEPT ![m] = r]
  BY <1>1, <1>3 DEF Runs
<1>5. /\ r \in Run
      /\ r.pc = pc /\ r.until = until
  BY <1>1, <1>2 DEF Runs, Run
<1>. HIDE DEF r
<1>. QED
  BY <1>2, <1>4, <1>5, RunBecomes

\* m goes on at pc, and keeps the pending state it has read.
Pends(m, pc, value) ==
    run' \in Runs /\ run'[m].pc = pc /\ run'[m].pending = value /\ Others(m)

\* A read of the key state is kept in the execution.
LEMMA PendingMoves ==
    ASSUME TypeOK, NEW m \in Messages, NEW pc \in Steps \cup Ended, NEW value \in States,
           run' = [run EXCEPT ![m].pc = pc, ![m].pending = value]
    PROVE  Pends(m, pc, value)
<1>. DEFINE r == [run[m] EXCEPT !.pc = pc, !.pending = value]
<1>1. run \in Runs
  BY DEF TypeOK
<1>2. run' = [run EXCEPT ![m] = r]
  BY <1>1 DEF Runs
<1>3. /\ r \in Run
      /\ r.pc = pc /\ r.pending = value
  BY <1>1 DEF Runs, Run
<1>. HIDE DEF r
<1>. QED
  BY <1>2, <1>3, RunBecomes DEF Pends

\* So is the client read in the API.
LEMMA ClientMoves ==
    ASSUME TypeOK, NEW m \in Messages, NEW pc \in Steps \cup Ended, NEW client \in Clients,
           run' = [run EXCEPT ![m].pc = pc, ![m].client = client]
    PROVE  run' \in Runs /\ run'[m].pc = pc /\ run'[m].client = client /\ Others(m)
<1>. DEFINE r == [run[m] EXCEPT !.pc = pc, !.client = client]
<1>1. run \in Runs
  BY DEF TypeOK
<1>2. run' = [run EXCEPT ![m] = r]
  BY <1>1 DEF Runs
<1>3. /\ r \in Run
      /\ r.pc = pc /\ r.client = client
  BY <1>1 DEF Runs, Run
<1>. HIDE DEF r
<1>. QED
  BY <1>2, <1>3, RunBecomes

-----------------------------------------------------------------------------
(* Where each step leads an execution: on, or to a failure *)

Fails(m) == run' \in Runs /\ Others(m) /\ failures' \in Nat /\ failures' > 0

\* A failed call that stops the execution.
LEMMA StopFails ==
    ASSUME TypeOK, NEW m \in Messages, NEW type \in Reports, Fail, StopAndError(m, type)
    PROVE  Fails(m)
  BY StopMoves, Tries DEF Fails, Moved

\* A failed call that the execution goes on from.
LEMMA CallFails ==
    ASSUME TypeOK, NEW m \in Messages, NEW pc \in Steps \cup Ended, NEW type \in Reports,
           Fail, CallError(m, type, pc)
    PROVE  Fails(m)
  BY CallErrorMoves, Tries DEF Fails, Moved

\* clients-prod ends with the client, or goes on with the question.
LEMMA KnownOrAskStep ==
    ASSUME NEW client
    PROVE  KnownOrAsk(client) \in {"answered", "set_pending_1"} /\ KnownOrAsk(client) \in Steps \cup Ended
  BY DEF KnownOrAsk, Steps, Ended

\* Where the nodes of the notice lead.
LEMMA OutsideMoves ==
    ASSUME TypeOK, NEW m \in Messages
    PROVE  /\ GetOutsideHoursPending(m) =>
                  Fails(m) \/ (Ok /\ Pends(m, "get_outside_context", state[ChatOf[m]]))
           /\ GetOutsideHoursContext(m) =>
                  Fails(m) \/ (Ok /\ (Moved(m, "notified") \/ Moved(m, "set_outside_pending")))
           /\ SetOutsideHoursPending(m) =>
                  \/ Fails(m) /\ UNCHANGED <<state, stale, raced>>
                  \/ Ok /\ Moved(m, "set_outside_context") /\ Put(m, ChatOf[m], PendingStateToWrite(m))
           /\ SetOutsideHoursContext(m) =>
                  (Fails(m) /\ UNCHANGED <<context, raced>>) \/ (Ok /\ Moved(m, "send_notice"))
           /\ SendNotice(m) => (Fails(m) /\ UNCHANGED noticed) \/ (Ok /\ Moved(m, "notified"))
<1>1. state[ChatOf[m]] \in States
  BY RunTypes
<1>2. {"get_outside_context", "notified", "set_outside_pending", "set_outside_context", "send_notice"}
        \subseteq Steps \cup Ended
  BY DEF Steps, Ended
<1>3. {"internal.redis.get_pending", "unknown", "external.evo.send_message"} \subseteq Reports
  BY DEF Reports
<1>4. GetOutsideHoursPending(m) =>
         Fails(m) \/ (Ok /\ Pends(m, "get_outside_context", state[ChatOf[m]]))
  BY <1>1, <1>2, <1>3, PendingMoves, StopFails DEF GetOutsideHoursPending, ErrorReport2
<1>5. GetOutsideHoursContext(m) =>
         Fails(m) \/ (Ok /\ (Moved(m, "notified") \/ Moved(m, "set_outside_pending")))
  BY <1>2, <1>3, GoToMoves, StopFails DEF GetOutsideHoursContext, ErrorReport2
<1>6. SetOutsideHoursPending(m) =>
         \/ Fails(m) /\ UNCHANGED <<state, stale, raced>>
         \/ Ok /\ Moved(m, "set_outside_context") /\ Put(m, ChatOf[m], PendingStateToWrite(m))
  BY <1>2, <1>3, GoToMoves, StopFails DEF SetOutsideHoursPending, WriteState, Unreported
<1>7. SetOutsideHoursContext(m) =>
         (Fails(m) /\ UNCHANGED <<context, raced>>) \/ (Ok /\ Moved(m, "send_notice"))
  BY <1>2, <1>3, GoToMoves, StopFails DEF SetOutsideHoursContext, Unreported
<1>8. SendNotice(m) => (Fails(m) /\ UNCHANGED noticed) \/ (Ok /\ Moved(m, "notified"))
  BY <1>2, <1>3, GoToMoves, StopFails DEF SendNotice
<1>. QED
  BY <1>4, <1>5, <1>6, <1>7, <1>8

\* Where the nodes lead that read the state, the cached client and the client.
LEMMA AnswerMoves ==
    ASSUME TypeOK, NEW m \in Messages
    PROVE  /\ GetPending(m) =>
                  \/ Fails(m)
                  \/ /\ Ok
                     /\ \E pc \in {"answered", "get_context", "get_client_1", "dropped"} :
                           /\ Pends(m, pc, state[ChatOf[m]])
                           /\ pc = "get_context" => state[ChatOf[m]] = None
                           /\ pc = "get_client_1" => state[ChatOf[m]] = "awaiting_name"
           /\ GetContext(m) =>
                  \/ Fails(m)
                  \/ /\ Ok
                     /\ \/ Moved(m, "answered")
                        \/ Moved(m, "set_pending_1") /\ cache[ChatOf[m]] = "nameless"
                        \/ Moved(m, "get_client_2")
           /\ GetClient2(m) =>
                  \/ Fails(m)
                  \/ Ok /\ \E pc \in {"push_context", "post_client"} :
                        run' \in Runs /\ run'[m].pc = pc /\ run'[m].client = api[ChatOf[m]] /\ Others(m)
<1>1. state[ChatOf[m]] \in States /\ api[ChatOf[m]] \in Clients
      /\ cache[ChatOf[m]] \in {None, "nameless", "named"}
  BY RunTypes
<1>2. {"answered", "get_context", "get_client_1", "dropped", "set_pending_1", "get_client_2", "push_context",
       "post_client"} \subseteq Steps \cup Ended
  BY DEF Steps, Ended
<1>3. {"internal.redis.get_pending", "internal.redis.context", "internal.api.get_client"} \subseteq Reports
  BY DEF Reports
<1>4. ASSUME GetPending(m)
      PROVE  \/ Fails(m)
             \/ /\ Ok
                /\ \E pc \in {"answered", "get_context", "get_client_1", "dropped"} :
                      /\ Pends(m, pc, state[ChatOf[m]])
                      /\ pc = "get_context" => state[ChatOf[m]] = None
                      /\ pc = "get_client_1" => state[ChatOf[m]] = "awaiting_name"
  <2>1. CASE Fail /\ ErrorReport2(m)
    BY <1>3, <2>1, StopFails DEF ErrorReport2
  <2>2. CASE ~(Fail /\ ErrorReport2(m))
    <3>1. PICK pc \in {PendingState(state[ChatOf[m]])} \cup (IF state[ChatOf[m]] = None THEN {"answered"} ELSE {}) :
             run' = [run EXCEPT ![m].pc = pc, ![m].pending = state[ChatOf[m]]]
      BY <1>4, <2>2 DEF GetPending
    <3>2. Ok
      BY <1>4, <2>2 DEF GetPending
    <3>3. /\ pc \in {"answered", "get_context", "get_client_1", "dropped"}
          /\ pc = "get_context" => state[ChatOf[m]] = None
          /\ pc = "get_client_1" => state[ChatOf[m]] = "awaiting_name"
      <4>1. CASE pc = "answered"
        BY <4>1
      <4>2. CASE pc = PendingState(state[ChatOf[m]])
        BY <4>2 DEF PendingState, BackToGetName
      <4>. QED
        BY <3>1, <4>1, <4>2
    <3>4. Pends(m, pc, state[ChatOf[m]])
      BY <1>1, <1>2, <3>1, <3>3, PendingMoves
    <3>. QED
      BY <3>2, <3>3, <3>4
  <2>. QED
    BY <2>1, <2>2
<1>5. ASSUME GetContext(m)
      PROVE  \/ Fails(m)
             \/ /\ Ok
                /\ \/ Moved(m, "answered")
                   \/ Moved(m, "set_pending_1") /\ cache[ChatOf[m]] = "nameless"
                   \/ Moved(m, "get_client_2")
  <2>1. CASE Fail /\ ErrorReport12(m)
    BY <1>3, <2>1, StopFails DEF ErrorReport12
  <2>2. CASE ~(Fail /\ ErrorReport12(m))
    <3>1. /\ Ok
          /\ \/ GoTo(m, "answered")
             \/ GoTo(m, "set_pending_1") /\ cache[ChatOf[m]] = "nameless"
             \/ GoTo(m, "get_client_2")
      <4>1. Ok /\ GoTo(m, IF HasData(ChatOf[m]) THEN KnownOrAsk(cache[ChatOf[m]]) ELSE "get_client_2")
        BY <1>5, <2>2 DEF GetContext
      <4>2. /\ NamePresent(cache[ChatOf[m]]) => KnownOrAsk(cache[ChatOf[m]]) = "answered"
            /\ ~NamePresent(cache[ChatOf[m]]) => KnownOrAsk(cache[ChatOf[m]]) = "set_pending_1"
        BY DEF KnownOrAsk, NamePresent
      <4>3. HasData(ChatOf[m]) /\ ~NamePresent(cache[ChatOf[m]]) => cache[ChatOf[m]] = "nameless"
        BY <1>1, ChatAssumption DEF HasData, NamePresent
      <4>. QED
        BY <4>1, <4>2, <4>3
    <3>. QED
      BY <1>2, <3>1, GoToMoves
  <2>. QED
    BY <2>1, <2>2
<1>6. ASSUME GetClient2(m)
      PROVE  \/ Fails(m)
             \/ Ok /\ \E pc \in {"push_context", "post_client"} :
                   run' \in Runs /\ run'[m].pc = pc /\ run'[m].client = api[ChatOf[m]] /\ Others(m)
  <2>1. CASE Fail /\ ErrorReport13(m)
    BY <1>3, <2>1, StopFails DEF ErrorReport13
  <2>2. CASE ~(Fail /\ ErrorReport13(m))
    <3>. DEFINE pc == IF HasClient(api[ChatOf[m]]) THEN "push_context" ELSE "post_client"
    <3>1. Ok /\ run' = [run EXCEPT ![m].pc = pc, ![m].client = api[ChatOf[m]]]
      BY <1>6, <2>2 DEF GetClient2
    <3>2. pc \in {"push_context", "post_client"}
      OBVIOUS
    <3>. HIDE DEF pc
    <3>3. pc \in Steps \cup Ended
      BY <1>2, <3>2
    <3>4. run' \in Runs /\ run'[m].pc = pc /\ run'[m].client = api[ChatOf[m]] /\ Others(m)
      BY <1>1, <3>1, <3>3, ClientMoves
    <3>. QED
      BY <3>1, <3>2, <3>4
  <2>. QED
    BY <2>1, <2>2
<1>. QED
  BY <1>4, <1>5, <1>6

\* Where the nodes lead that create a client and ask for its name.
LEMMA ClientsMoves ==
    ASSUME TypeOK, NEW m \in Messages
    PROVE  /\ PostClient(m) =>
                  \/ Fails(m) /\ UNCHANGED <<api, cache>>
                  \/ Ok /\ Moved(m, "failed") /\ UNCHANGED <<api, cache>>
                  \/ /\ Ok /\ Moved(m, "set_pending_1") /\ api[ChatOf[m]] = "absent"
                     /\ api' = [api EXCEPT ![ChatOf[m]] = "nameless"]
                     /\ cache' = [cache EXCEPT ![ChatOf[m]] = None]
           /\ PushContext2(m) =>
                  \/ Fails(m) /\ UNCHANGED <<cache, raced>>
                  \/ /\ Ok /\ Moved(m, KnownOrAsk(run[m].client))
                     /\ cache' = [cache EXCEPT ![ChatOf[m]] =
                                      IF NamePresent(run[m].client) THEN "named" ELSE "nameless"]
                     /\ raced' = IF api[ChatOf[m]] = run[m].client THEN raced ELSE raced \cup {ChatOf[m]}
           /\ SetPendingState1(m) =>
                  \/ Fails(m) /\ UNCHANGED <<state, stale, raced>>
                  \/ Ok /\ Moved(m, "send_question") /\ Put(m, ChatOf[m], "awaiting_name")
           /\ SendResponse(m) => Fails(m) \/ (Ok /\ Moved(m, "set_pending"))
           /\ SetPendingState(m) =>
                  \/ Fails(m) /\ UNCHANGED <<state, stale, raced>>
                  \/ Ok /\ Moved(m, "asked") /\ Put(m, ChatOf[m], "awaiting_name")
<1>2. {"failed", "set_pending_1", "send_question", "set_pending", "asked"} \subseteq Steps \cup Ended
  BY DEF Steps, Ended
<1>3. {"internal.api.post_client", "internal.redis.context", "internal.redis.set_pending",
       "external.evo.send_message"} \subseteq Reports
  BY DEF Reports
<1>4. PostClient(m) =>
         \/ Fails(m) /\ UNCHANGED <<api, cache>>
         \/ Ok /\ Moved(m, "failed") /\ UNCHANGED <<api, cache>>
         \/ /\ Ok /\ Moved(m, "set_pending_1") /\ api[ChatOf[m]] = "absent"
            /\ api' = [api EXCEPT ![ChatOf[m]] = "nameless"]
            /\ cache' = [cache EXCEPT ![ChatOf[m]] = None]
  BY <1>2, <1>3, GoToMoves, StopMoves, StopFails DEF PostClient, ErrorReport
<1>5. PushContext2(m) =>
         \/ Fails(m) /\ UNCHANGED <<cache, raced>>
         \/ /\ Ok /\ Moved(m, KnownOrAsk(run[m].client))
            /\ cache' = [cache EXCEPT ![ChatOf[m]] = IF NamePresent(run[m].client) THEN "named" ELSE "nameless"]
            /\ raced' = IF api[ChatOf[m]] = run[m].client THEN raced ELSE raced \cup {ChatOf[m]}
  <2>1. KnownOrAsk(run[m].client) \in Steps \cup Ended
    BY KnownOrAskStep
  <2>2. Fail /\ ErrorReport21(m, KnownOrAsk(run[m].client)) => Fails(m)
    BY <1>3, <2>1, CallFails DEF ErrorReport21
  <2>3. GoTo(m, KnownOrAsk(run[m].client)) => Moved(m, KnownOrAsk(run[m].client))
    BY <2>1, GoToMoves
  <2>. QED
    BY <2>2, <2>3 DEF PushContext2
<1>6. SetPendingState1(m) =>
         \/ Fails(m) /\ UNCHANGED <<state, stale, raced>>
         \/ Ok /\ Moved(m, "send_question") /\ Put(m, ChatOf[m], "awaiting_name")
  BY <1>2, <1>3, GoToMoves, StopFails DEF SetPendingState1, WriteState, ErrorReport19
<1>7. SendResponse(m) => Fails(m) \/ (Ok /\ Moved(m, "set_pending"))
  BY <1>2, <1>3, GoToMoves, StopFails DEF SendResponse, ErrorReport15
<1>8. SetPendingState(m) =>
         \/ Fails(m) /\ UNCHANGED <<state, stale, raced>>
         \/ Ok /\ Moved(m, "asked") /\ Put(m, ChatOf[m], "awaiting_name")
  BY <1>2, <1>3, GoToMoves, StopFails DEF SetPendingState, WriteState, ErrorReport16
<1>. QED
  BY <1>4, <1>5, <1>6, <1>7, <1>8

\* Where the nodes lead that store the answer to the question.
LEMMA NameMoves ==
    ASSUME TypeOK, NEW m \in Messages
    PROVE  /\ GetClient1(m) => Fails(m) \/ (Ok /\ Moved(m, "name_extractor"))
           /\ NameExtractor(m) => Fails(m) \/ (Ok /\ (Moved(m, "add_name") \/ Moved(m, "send_question")))
           /\ AddName(m) =>
                  \/ Fails(m) /\ UNCHANGED api
                  \/ Ok /\ Moved(m, "invalidate") /\ api' = [api EXCEPT ![ChatOf[m]] = m]
           /\ InvalidateClientContext(m) =>
                  \/ Fails(m) /\ UNCHANGED cache
                  \/ Ok /\ Moved(m, "send_thanks") /\ cache' = [cache EXCEPT ![ChatOf[m]] = None]
           /\ SendResponse1(m) => Fails(m) \/ (Ok /\ Moved(m, "delete_pending"))
           /\ DeletePending(m) =>
                  \/ Fails(m) /\ UNCHANGED <<state, stale, raced>>
                  \/ Ok /\ Moved(m, "named") /\ Put(m, ChatOf[m], None)
<1>2. {"name_extractor", "add_name", "send_question", "invalidate", "send_thanks", "delete_pending", "named"}
        \subseteq Steps \cup Ended
  BY DEF Steps, Ended
<1>3. {"internal.api.get_client", "external.ai.name_extractor", "internal.api.client_name",
       "external.evo.send_message", "internal.redis.delete_pending"} \subseteq Reports
  BY DEF Reports
<1>4. GetClient1(m) => Fails(m) \/ (Ok /\ Moved(m, "name_extractor"))
  BY <1>2, <1>3, GoToMoves, StopFails DEF GetClient1, ErrorReport1
<1>5. NameExtractor(m) => Fails(m) \/ (Ok /\ (Moved(m, "add_name") \/ Moved(m, "send_question")))
  BY <1>2, <1>3, GoToMoves, CallFails DEF NameExtractor, ErrorReport23
<1>6. AddName(m) =>
         \/ Fails(m) /\ UNCHANGED api
         \/ Ok /\ Moved(m, "invalidate") /\ api' = [api EXCEPT ![ChatOf[m]] = m]
  BY <1>2, <1>3, GoToMoves, StopFails DEF AddName, ErrorReport14
<1>7. InvalidateClientContext(m) =>
         \/ Fails(m) /\ UNCHANGED cache
         \/ Ok /\ Moved(m, "send_thanks") /\ cache' = [cache EXCEPT ![ChatOf[m]] = None]
  <2>1. InvalidateClientContext(m) => Moved(m, "send_thanks")
    BY <1>2, GoToMoves DEF InvalidateClientContext
  <2>. QED
    BY <2>1, Tries DEF InvalidateClientContext, Fails, Moved
<1>8. SendResponse1(m) => Fails(m) \/ (Ok /\ Moved(m, "delete_pending"))
  BY <1>2, <1>3, GoToMoves, StopFails DEF SendResponse1, ErrorReport18
<1>9. DeletePending(m) =>
         \/ Fails(m) /\ UNCHANGED <<state, stale, raced>>
         \/ Ok /\ Moved(m, "named") /\ Put(m, ChatOf[m], None)
  BY <1>2, <1>3, GoToMoves, StopFails DEF DeletePending, WriteState, ErrorReport17
<1>. QED
  BY <1>4, <1>5, <1>6, <1>7, <1>8, <1>9

-----------------------------------------------------------------------------
(* Every variable keeps its type *)

\* by writes value, and chats that others have read go to raced with it.
LEMMA PutWrites ==
    ASSUME TypeOK, NEW by \in Messages, NEW c \in Chats, NEW value \in States, Put(by, c, value)
    PROVE  /\ state' \in [Chats -> States] /\ state'[c] = value
           /\ \A d \in Chats \ {c} : state'[d] = state[d]
           /\ raced' \subseteq Chats /\ raced \subseteq raced' /\ (by \in stale => c \in raced')
           /\ stale' \subseteq Messages /\ stale \subseteq stale'
           /\ stale' \subseteq stale \cup Readers(c) /\ (by \notin stale => by \notin stale')
           /\ state[c] # value => Readers(c) \ {by} \subseteq stale'
<1>1. Readers(c) \subseteq Messages
  BY DEF Readers
<1>. QED
  BY <1>1 DEF TypeOK, Put

\* The types hold at first.
LEMMA InitTypes == Init => TypeOK
<1>. SUFFICES ASSUME Init PROVE TypeOK
  OBVIOUS
<1>1. run \in Runs
  BY DEF Init, Runs, Run, Steps, States, Clients, Reports
<1>2. resume \in Resumes /\ resume.pc = "idle"
  BY DEF Init, Idle, Resumes, ResumeSteps, States
<1>. QED
  BY <1>1, <1>2, ChatAssumption DEF Init, TypeOK, States, Clients

\* No node of a workflow breaks them.
LEMMA StepKeepsTypes ==
    ASSUME TypeOK, NEW m \in Messages, Step(m)
    PROVE  TypeOK'
<1>. DEFINE c == ChatOf[m]
<1>1. c \in Chats /\ run[m].pending \in States /\ run[m].until \in Nat /\ state[c] \in States
  BY RunTypes
<1>2. None \in States /\ "awaiting_name" \in States /\ PendingStateToWrite(m) \in States
  BY <1>1 DEF States, PendingStateToWrite
<1>3. UNCHANGED <<open, opened, resume, panel>>
  BY DEF Step, hours, clients, BusinessHoursGuard, GetOutsideHoursPending, GetOutsideHoursContext, SetOutsideHoursPending,
         SetOutsideHoursContext, SendNotice, GetPending, GetContext, GetClient2, PostClient, PushContext2,
         SetPendingState1, SendResponse, SetPendingState, GetClient1, NameExtractor, AddName,
         InvalidateClientContext, SendResponse1, DeletePending
<1>4. run' \in Runs /\ failures' \in Nat
  BY OutsideMoves, AnswerMoves, ClientsMoves, NameMoves, GuardMoves, Tries
  DEF Step, BusinessHoursGuard, Fails, Moved, Pends
<1>5. /\ state' \in [Chats -> States]
      /\ stale' \subseteq Messages /\ raced' \subseteq Chats
  <2>1. \/ UNCHANGED <<state, stale, raced>>
        \/ \E value \in States : Put(m, c, value)
        \/ UNCHANGED <<state, stale>> /\ raced' \subseteq raced \cup {c}
    BY <1>2, OutsideMoves, ClientsMoves, NameMoves
    DEF Step, keys, history, BusinessHoursGuard, GetOutsideHoursPending, GetOutsideHoursContext,
        SetOutsideHoursContext, SendNotice, GetPending, GetContext, GetClient2, PostClient, PushContext2,
        SendResponse, GetClient1, NameExtractor, AddName, InvalidateClientContext, SendResponse1
  <2>. QED
    BY <1>1, <2>1, PutWrites DEF TypeOK
<1>6. context' \in [Chats -> Nat \cup {None}] /\ noticed' \in [Chats -> SUBSET Nat]
  <2>1. \/ UNCHANGED context
        \/ context' = [context EXCEPT ![c] = run[m].until]
    BY DEF Step, keys, BusinessHoursGuard, GetOutsideHoursPending, GetOutsideHoursContext, SetOutsideHoursPending,
         SetOutsideHoursContext, SendNotice, GetPending, GetContext, GetClient2, PostClient, PushContext2,
         SetPendingState1, SendResponse, SetPendingState, GetClient1, NameExtractor, AddName,
         InvalidateClientContext, SendResponse1, DeletePending
  <2>2. \/ UNCHANGED noticed
        \/ noticed' = [noticed EXCEPT ![c] = @ \cup {run[m].until}]
    BY DEF Step, history, BusinessHoursGuard, GetOutsideHoursPending, GetOutsideHoursContext,
         SetOutsideHoursPending, SetOutsideHoursContext, SendNotice, GetPending, GetContext, GetClient2, PostClient,
         PushContext2, SetPendingState1, SendResponse, SetPendingState, GetClient1, NameExtractor, AddName,
         InvalidateClientContext, SendResponse1, DeletePending
  <2>. QED
    BY <1>1, <2>1, <2>2 DEF TypeOK
<1>7. api' \in [Chats -> Clients] /\ cache' \in [Chats -> {None, "nameless", "named"}]
  <2>1. \/ UNCHANGED api
        \/ \E client \in Clients : api' = [api EXCEPT ![c] = client]
    BY DEF Clients, clients, Step, BusinessHoursGuard, GetOutsideHoursPending, GetOutsideHoursContext,
         SetOutsideHoursPending, SetOutsideHoursContext, SendNotice, GetPending, GetContext, GetClient2, PostClient,
         PushContext2, SetPendingState1, SendResponse, SetPendingState, GetClient1, NameExtractor, AddName,
         InvalidateClientContext, SendResponse1, DeletePending
  <2>2. \/ UNCHANGED cache
        \/ \E value \in {None, "nameless", "named"} : cache' = [cache EXCEPT ![c] = value]
    BY DEF Step, keys, BusinessHoursGuard, GetOutsideHoursPending, GetOutsideHoursContext,
         SetOutsideHoursPending, SetOutsideHoursContext, SendNotice, GetPending, GetContext, GetClient2, PostClient,
         PushContext2, SetPendingState1, SendResponse, SetPendingState, GetClient1, NameExtractor, AddName,
         InvalidateClientContext, SendResponse1, DeletePending
  <2>. QED
    BY <1>1, <2>1, <2>2 DEF TypeOK
<1>. QED
  BY <1>3, <1>4, <1>5, <1>6, <1>7 DEF TypeOK

\* The types of what the resume holds.
LEMMA ResumeKinds ==
    ASSUME TypeOK
    PROVE  /\ resume.pc \in ResumeSteps /\ resume.chat \in Chats \cup {None}
           /\ resume.until \in Nat \cup {None} /\ resume.due \subseteq Chats
  BY DEF TypeOK, Resumes

\* An ended resume holds no chat.
LEMMA EndsIdle ==
    ASSUME EndResume
    PROVE  resume' \in Resumes /\ resume'.pc = "idle" /\ resume'.chat = None
  BY DEF EndResume, Idle, Resumes, ResumeSteps

\* The schedule goes on with the chat it looks at if its opening came.
LEMMA ScheduleMoves ==
    ASSUME TypeOK, NEW c \in Chats, OutsideHoursResumeSchedule(c)
    PROVE  /\ resume' \in Resumes
           /\ \/ EndResume
              \/ /\ resume'.pc = "get_state" /\ resume'.chat = c
                 /\ resume'.until = context[c] /\ context[c] \in Nat /\ opened[c] >= context[c]
<1>1. CASE Due(c)
  <2>1. context[c] \in Nat /\ opened[c] >= context[c]
    BY <1>1 DEF Due, TypeOK
  <2>. QED
    BY <1>1, <2>1 DEF OutsideHoursResumeSchedule, Resumes, ResumeSteps
<1>2. CASE ~Due(c)
  <2>1. EndResume
    BY <1>2 DEF OutsideHoursResumeSchedule, EndResume
  <2>. QED
    BY <2>1, EndsIdle
<1>. QED
  BY <1>1, <1>2

\* The resume goes on with what it holds.
LEMMA ResumeGoesOn ==
    ASSUME TypeOK, NEW pc \in ResumeSteps, resume' = [resume EXCEPT !.pc = pc]
    PROVE  /\ resume' \in Resumes /\ resume'.pc = pc
           /\ resume'.chat = resume.chat /\ resume'.until = resume.until
  BY DEF TypeOK, Resumes

\* Where the resume goes from its read of the state.
LEMMA GetStateMoves ==
    ASSUME TypeOK, GetOutsideHoursState
    PROVE  /\ resume' \in Resumes /\ failures' \in Nat /\ resume.chat \in Chats
           /\ \/ EndResume
              \/ /\ resume'.chat = resume.chat /\ resume'.until = resume.until
                 /\ resume'.pc = IF state[resume.chat] # None THEN "send" ELSE "delete_context"
<1>1. resume.chat \in Chats /\ failures' \in Nat
  BY Tries DEF GetOutsideHoursState, TypeOK
<1>2. CASE EndResume
  BY <1>1, <1>2, EndsIdle
<1>3. CASE ~EndResume
  <2>. DEFINE pc == IF state[resume.chat] # None THEN "send" ELSE "delete_context"
  <2>1. pc \in ResumeSteps
    BY DEF ResumeSteps
  <2>2. resume' = [resume EXCEPT !.pc = pc]
    BY <1>3 DEF GetOutsideHoursState, ShouldResumeOutsideHours
  <2>3. pc = IF state[resume.chat] # None THEN "send" ELSE "delete_context"
    OBVIOUS
  <2>. HIDE DEF pc
  <2>4. resume' \in Resumes /\ resume'.pc = pc /\ resume'.chat = resume.chat /\ resume'.until = resume.until
    BY <2>1, <2>2, ResumeGoesOn
  <2>. QED
    BY <1>1, <2>3, <2>4
<1>. QED
  BY <1>2, <1>3

\* And from the context it deletes.
LEMMA DeleteContextMoves ==
    ASSUME TypeOK, DeleteOutsideHoursContext
    PROVE  /\ EndResume /\ failures' \in Nat /\ resume.chat \in Chats
           /\ \/ failures' > 0 /\ UNCHANGED <<context, raced>>
              \/ /\ context' = [context EXCEPT ![resume.chat] = None]
                 /\ raced' = IF context[resume.chat] = resume.until THEN raced ELSE raced \cup {resume.chat}
  BY Tries DEF DeleteOutsideHoursContext, TypeOK

\* No node of the resume breaks the types.
LEMMA ResumeKeepsTypes ==
    ASSUME TypeOK, Resume
    PROVE  TypeOK'
<1>1. ASSUME NEW c \in Chats, OutsideHoursResumeSchedule(c)
      PROVE  TypeOK'
  <2>1. /\ resume' \in Resumes
        /\ resume'.pc # "idle" => resume'.chat \in Chats /\ resume'.until \in Nat
    BY <1>1, ScheduleMoves, EndsIdle
  <2>. QED
    BY <1>1, <2>1 DEF OutsideHoursResumeSchedule, TypeOK, hours, keys, clients, history, Ok
<1>2. ASSUME GetOutsideHoursState
      PROVE  TypeOK'
  <2>1. /\ resume' \in Resumes /\ failures' \in Nat
        /\ resume'.pc # "idle" => resume'.chat \in Chats /\ resume'.until \in Nat
    BY <1>2, GetStateMoves, EndsIdle DEF TypeOK, GetOutsideHoursState
  <2>. QED
    BY <1>2, <2>1 DEF GetOutsideHoursState, TypeOK, hours, keys, clients, history
<1>3. ASSUME SendOutsideHoursResume
      PROVE  TypeOK'
  BY <1>3, EndsIdle DEF SendOutsideHoursResume, TypeOK, hours, keys, clients, history, Ok
<1>4. ASSUME DeleteOutsideHoursContext
      PROVE  TypeOK'
  <2>1. resume' \in Resumes /\ resume'.pc = "idle" /\ failures' \in Nat
    BY <1>4, DeleteContextMoves, EndsIdle
  <2>2. context' \in [Chats -> Nat \cup {None}] /\ raced' \subseteq Chats
    BY <1>4, DeleteContextMoves DEF TypeOK
  <2>. QED
    BY <1>4, <2>1, <2>2 DEF DeleteOutsideHoursContext, TypeOK, hours, clients
<1>. QED
  BY <1>1, <1>2, <1>3, <1>4 DEF Resume

\* Nor does the panel, nor the clock.
LEMMA OutsideKeepsTypes ==
    ASSUME TypeOK, NEW c \in Chats, Panel(c) \/ Clock(c)
    PROVE  TypeOK'
<1>1. CASE ClientCreate(c) \/ ClientUpdate(c)
  BY <1>1 DEF ClientCreate, ClientUpdate, TypeOK, hours, keys, history, Clients
<1>2. CASE InvalidateFromPanel(c)
  BY <1>2, Tries DEF InvalidateFromPanel, TypeOK, hours, history
<1>3. CASE Opens(c)
  BY <1>3 DEF Opens, TypeOK, keys, clients, history
<1>4. CASE Closes(c)
  BY <1>4 DEF Closes, TypeOK, keys, clients, history
<1>5. CASE StateExpires(c)
  BY <1>5 DEF StateExpires, TypeOK, hours, clients, States, Readers
<1>6. CASE ContextExpires(c)
  BY <1>6 DEF ContextExpires, TypeOK, hours, clients
<1>. QED
  BY <1>1, <1>2, <1>3, <1>4, <1>5, <1>6 DEF Panel, Clock

\* Nor does any step.
LEMMA NextKeepsTypes == TypeOK /\ [Next]_vars => TypeOK'
<1>. SUFFICES ASSUME TypeOK, [Next]_vars PROVE TypeOK'
  OBVIOUS
<1>1. ASSUME NEW m \in Messages, Step(m) PROVE TypeOK'
  BY <1>1, StepKeepsTypes
<1>2. CASE Resume
  BY <1>2, ResumeKeepsTypes
<1>3. ASSUME NEW c \in Chats, Panel(c) \/ Clock(c) PROVE TypeOK'
  BY <1>3, OutsideKeepsTypes
<1>4. CASE UNCHANGED vars
  BY <1>4 DEF vars, TypeOK, hours, keys, clients, history
<1>. QED
  BY <1>1, <1>2, <1>3, <1>4 DEF Next

\* Every variable keeps its type, whatever executions interleave.
THEOREM TypesHold == Spec => []TypeOK
<1>. QED
  BY InitTypes, NextKeepsTypes, PTL DEF Spec

-----------------------------------------------------------------------------
(* What excuses a chat is never taken back *)

\* Failures are only added.
LEMMA FailuresGrow == TypeOK /\ Next => failures' \in Nat /\ failures' >= failures
<1>. SUFFICES ASSUME TypeOK, Next PROVE failures' \in Nat /\ failures' >= failures
  OBVIOUS
<1>1. Ok \/ Fail \/ UNCHANGED failures
  BY DEF Next, Step, Resume, Panel, Clock, BusinessHoursGuard, GetOutsideHoursPending, GetOutsideHoursContext,
         SetOutsideHoursPending, SetOutsideHoursContext, SendNotice, GetPending, GetContext, GetClient2, PostClient,
         PushContext2, SetPendingState1, SendResponse, SetPendingState, GetClient1, NameExtractor, AddName,
         InvalidateClientContext, SendResponse1, DeletePending, OutsideHoursResumeSchedule, GetOutsideHoursState,
         SendOutsideHoursResume, DeleteOutsideHoursContext, ClientCreate, ClientUpdate, InvalidateFromPanel,
         Opens, Closes, StateExpires, ContextExpires
<1>. QED
  BY <1>1 DEF Ok, Fail, TypeOK

\* A chat stays raced.
LEMMA RacedGrows == TypeOK /\ Next => raced \subseteq raced'
<1>. SUFFICES ASSUME TypeOK, Next PROVE raced \subseteq raced'
  OBVIOUS
<1>1. ASSUME NEW by, NEW c, NEW value, Put(by, c, value) PROVE raced \subseteq raced'
  BY <1>1 DEF Put
<1>2. ASSUME NEW m, Step(m) PROVE raced \subseteq raced'
  BY <1>1, <1>2 DEF Step, history, BusinessHoursGuard, GetOutsideHoursPending, GetOutsideHoursContext,
         SetOutsideHoursPending, SetOutsideHoursContext, SendNotice, GetPending, GetContext, GetClient2, PostClient,
         PushContext2, SetPendingState1, SendResponse, SetPendingState, GetClient1, NameExtractor, AddName,
         InvalidateClientContext, SendResponse1, DeletePending, WriteState
<1>3. CASE Resume
  BY <1>1, <1>3 DEF Resume, history, OutsideHoursResumeSchedule, GetOutsideHoursState,
         SendOutsideHoursResume, DeleteOutsideHoursContext
<1>4. ASSUME NEW c, Panel(c) \/ Clock(c) PROVE raced \subseteq raced'
  BY <1>4 DEF Panel, Clock, ClientCreate, ClientUpdate, InvalidateFromPanel, Opens, Closes, StateExpires,
              ContextExpires, history
<1>. QED
  BY <1>2, <1>3, <1>4 DEF Next

\* A chat without an excuse after a step had none before it, and nothing failed.
LEMMA ExcusesStay ==
    ASSUME TypeOK, Next, NEW c \in Chats, ~Excused(c)'
    PROVE  ~Excused(c) /\ c \notin raced' /\ c \notin raced /\ failures' = 0
<1>1. failures' \in Nat /\ failures' >= failures /\ raced \subseteq raced' /\ failures \in Nat
  BY FailuresGrow, RacedGrows DEF TypeOK
<1>. QED
  BY <1>1 DEF Excused

-----------------------------------------------------------------------------
(* The wait for an opening: who is told of it, and who ends it *)

\* An execution is about to write the context, or to send the notice, as before.
TellsAsBefore(m) ==
    /\ run'[m].pc = "set_outside_context" <=> run[m].pc = "set_outside_context"
    /\ run'[m].pc = "send_notice" <=> run[m].pc = "send_notice"
    /\ run[m].pc = "send_notice" => run'[m].until = run[m].until

\* The chat c is as before.
Untouched(c) ==
    /\ opened'[c] = opened[c] /\ state'[c] = state[c] /\ context'[c] = context[c] /\ noticed'[c] = noticed[c]
    /\ \A m \in Of(c) : TellsAsBefore(m)

\* A step that leaves a chat alone leaves it to be found,
LEMMA UntouchedFound ==
    ASSUME NEW c \in Chats, Wait(c), Untouched(c)
    PROVE  Found(c)'
  BY DEF Wait, Untouched, Found, Waiting, ToWriteContext, At, Of, TellsAsBefore

\* told as before,
LEMMA UntouchedTold ==
    ASSUME NEW c \in Chats, Wait(c), Untouched(c)
    PROVE  ToldOrTelling(c)' /\ ToldOnce(c)'
<1>1. ToldOrTelling(c)'
  BY DEF Wait, Untouched, ToldOrTelling, At, Of, TellsAsBefore
<1>2. ToldOnce(c)'
  BY DEF Wait, Untouched, ToldOnce, At, Of, TellsAsBefore
<1>. QED
  BY <1>1, <1>2

\* and, if it leaves the resume alone, followed by it.
LEMMA UntouchedFollows ==
    ASSUME NEW c \in Chats, Wait(c), Untouched(c), UNCHANGED resume
    PROVE  ResumeFollows(c)'
  BY DEF Wait, Untouched, ResumeFollows, Waiting, ToWriteContext, At, Of,
         TellsAsBefore

\* All of the wait of a chat that a step leaves alone.
LEMMA UntouchedWait ==
    ASSUME NEW c \in Chats, Wait(c), Untouched(c), UNCHANGED resume
    PROVE  Wait(c)'
<1>1. Found(c)'
  BY UntouchedFound
<1>. QED
  BY <1>1, UntouchedTold, UntouchedFollows DEF Wait

\* A step of m leaves the chats of the others alone.
LEMMA OtherChatsUntouched ==
    ASSUME TypeOK, NEW m \in Messages, Step(m), NEW c \in Chats, c # ChatOf[m]
    PROVE  Untouched(c) /\ UNCHANGED resume
<1>1. Others(m)
  BY OutsideMoves, AnswerMoves, ClientsMoves, NameMoves, GuardMoves DEF Step, Fails, Moved, Pends
<1>2. \A n \in Of(c) : run'[n] = run[n]
  BY <1>1 DEF Of, Others
<1>3. opened' = opened /\ UNCHANGED resume
  BY DEF Step, hours, BusinessHoursGuard, GetOutsideHoursPending, GetOutsideHoursContext, SetOutsideHoursPending,
         SetOutsideHoursContext, SendNotice, GetPending, GetContext, GetClient2, PostClient, PushContext2,
         SetPendingState1, SendResponse, SetPendingState, GetClient1, NameExtractor, AddName,
         InvalidateClientContext, SendResponse1, DeletePending
<1>4. context'[c] = context[c]
  BY DEF TypeOK, Step, keys, BusinessHoursGuard, GetOutsideHoursPending, GetOutsideHoursContext,
         SetOutsideHoursPending, SetOutsideHoursContext, SendNotice, GetPending, GetContext, GetClient2, PostClient,
         PushContext2, SetPendingState1, SendResponse, SetPendingState, GetClient1, NameExtractor, AddName,
         InvalidateClientContext, SendResponse1, DeletePending
<1>5. noticed'[c] = noticed[c]
  BY DEF TypeOK, Step, history, BusinessHoursGuard, GetOutsideHoursPending, GetOutsideHoursContext,
         SetOutsideHoursPending, SetOutsideHoursContext, SendNotice, GetPending, GetContext, GetClient2, PostClient,
         PushContext2, SetPendingState1, SendResponse, SetPendingState, GetClient1, NameExtractor, AddName,
         InvalidateClientContext, SendResponse1, DeletePending
<1>6. state'[c] = state[c]
  <2>1. ASSUME NEW value, NEW pc, WriteState(m, value, pc) PROVE state'[c] = state[c]
    BY <2>1 DEF WriteState, Put, TypeOK
  <2>. QED
    BY <2>1 DEF Step, keys, BusinessHoursGuard, GetOutsideHoursPending, GetOutsideHoursContext,
         SetOutsideHoursPending, SetOutsideHoursContext, SendNotice, GetPending, GetContext, GetClient2, PostClient,
         PushContext2, SetPendingState1, SendResponse, SetPendingState, GetClient1, NameExtractor, AddName,
         InvalidateClientContext, SendResponse1, DeletePending
<1>. QED
  BY <1>2, <1>3, <1>4, <1>5, <1>6 DEF Untouched, TellsAsBefore

\* The nodes that are about to write the context, or to send the notice.
Telling == {"set_outside_context", "send_notice"}

\* A node that writes neither context nor state, before or after the two that tell.
LEMMA QuietWait ==
    ASSUME NEW m \in Messages, Others(m), Wait(ChatOf[m]), run[m].pc \notin Telling, run'[m].pc \notin Telling,
           UNCHANGED <<opened, state, context, noticed, resume>>
    PROVE  Wait(ChatOf[m])'
<1>1. ChatOf[m] \in Chats
  BY ChatAssumption
<1>2. Untouched(ChatOf[m])
  BY DEF Untouched, TellsAsBefore, Others, Of, Telling
<1>. QED
  BY <1>1, <1>2, UntouchedWait

\* So does a write of another state than the one out of hours, and a write of that
\* state by an execution that writes the context next.
LEMMA WriterWaits ==
    ASSUME NEW m \in Messages, Others(m), Wait(ChatOf[m]), run[m].pc \notin Telling, run'[m].pc # "send_notice",
           \/ run'[m].pc = "set_outside_context"
           \/ run'[m].pc # "set_outside_context" /\ state'[ChatOf[m]] # "outside_business_hours",
           UNCHANGED <<opened, context, noticed, resume>>
    PROVE  Wait(ChatOf[m])'
<1>. DEFINE c == ChatOf[m]
<1>1. c \in Chats /\ m \in Of(c)
  BY ChatAssumption DEF Of
<1>2. \A n \in Of(c) \ {m} : run'[n] = run[n]
  BY DEF Of, Others
<1>3. Waiting(c)' => ToWriteContext(c)'
  BY <1>1 DEF Waiting, ToWriteContext, At, Of
<1>4. ResumeFollows(c)'
  BY <1>1, <1>3 DEF Wait, ResumeFollows
<1>5. Found(c)'
  BY <1>1, <1>3 DEF Found
<1>6. ToldOrTelling(c)'
  BY <1>1, <1>2 DEF Wait, ToldOrTelling, At, Of, Telling
<1>7. ToldOnce(c)'
  BY <1>1, <1>2 DEF Wait, ToldOnce, At, Of, Telling
<1>. QED
  BY <1>4, <1>5, <1>6, <1>7 DEF Wait

\* The context is written over none: every notice before it was of an opening that came.
LEMMA ContextWaits ==
    ASSUME TypeOK, NEW m \in Messages, At(m, "set_outside_context"), Moved(m, "send_notice"),
           Wait(ChatOf[m]), ~AlreadyNotified(m), UNCHANGED <<opened, state, noticed, resume>>,
           context' = [context EXCEPT ![ChatOf[m]] = run[m].until]
    PROVE  Wait(ChatOf[m])'
<1>. DEFINE c == ChatOf[m]
<1>1. /\ c \in Chats /\ m \in Of(c) /\ run[m].until \in Nat /\ None \notin Nat
      /\ noticed[c] \subseteq Nat
  BY RunTypes, ChatAssumption DEF Of, TypeOK
<1>2. context[c] = None /\ context'[c] = run[m].until
  BY <1>1 DEF AlreadyNotified, TypeOK
<1>3. \A n \in Of(c) \ {m} : run'[n] = run[n]
  BY DEF Of, Moved, Others
<1>4. run'[m].pc = "send_notice" /\ run'[m].until = run[m].until
  BY DEF Moved
<1>5. \A n \in Of(c) : run[n].until \in Nat
  BY RunTypes DEF Of
<1>6. ResumeFollows(c)'
  <2>1. resume.chat = c => resume.pc \notin {"get_state", "send", "delete_context"}
    BY <1>1, <1>2 DEF Wait, ResumeFollows, TypeOK
  <2>. QED
    BY <2>1 DEF ResumeFollows
<1>7. Found(c)'
  BY <1>1, <1>2 DEF Found
<1>8. ToldOrTelling(c)'
  BY <1>1, <1>2, <1>4 DEF ToldOrTelling, At, Of
<1>9. ToldOnce(c)'
  <2>1. \A until \in noticed[c] : opened[c] >= until
    BY <1>1, <1>2 DEF Wait, ToldOnce
  <2>2. \A n \in Of(c) \ {m} : run[n].pc = "send_notice" => opened[c] >= run[n].until
    BY <1>1, <1>2, <1>5 DEF Wait, ToldOnce, At
  <2>3. \A until \in noticed'[c] : context'[c] = until \/ opened'[c] >= until
    BY <2>1
  <2>4. ASSUME NEW n \in Of(c), At(n, "send_notice")'
        PROVE  \/ opened'[c] >= run'[n].until
               \/ /\ context'[c] = run'[n].until /\ run'[n].until \notin noticed'[c]
                  /\ \A k \in Of(c) \ {n} : At(k, "send_notice")' => run'[k].until # run'[n].until
    <3>1. CASE n # m
      BY <1>3, <2>2, <2>4, <3>1 DEF At
    <3>2. CASE n = m
      <4>1. CASE opened[c] >= run[m].until
        BY <1>4, <3>2, <4>1
      <4>2. CASE ~(opened[c] >= run[m].until)
        <5>1. run[m].until \notin noticed[c]
          BY <2>1, <4>2
        <5>2. \A k \in Of(c) \ {m} : run'[k].pc = "send_notice" => run'[k].until # run[m].until
          BY <1>3, <2>2, <4>2
        <5>. QED
          BY <1>2, <1>4, <3>2, <5>1, <5>2 DEF At
      <4>. QED
        BY <4>1, <4>2
    <3>. QED
      BY <3>1, <3>2
  <2>. QED
    BY <2>3, <2>4 DEF ToldOnce, Of
<1>. QED
  BY <1>6, <1>7, <1>8, <1>9 DEF Wait

\* The notice is sent: the chat was told of the opening it waits for.
LEMMA NoticeWaits ==
    ASSUME TypeOK, NEW m \in Messages, At(m, "send_notice"), Moved(m, "notified"), Wait(ChatOf[m]),
           UNCHANGED <<opened, state, context, resume>>,
           noticed' = [noticed EXCEPT ![ChatOf[m]] = @ \cup {run[m].until}]
    PROVE  Wait(ChatOf[m])'
<1>. DEFINE c == ChatOf[m]
<1>1. c \in Chats /\ m \in Of(c)
  BY RunTypes, ChatAssumption DEF Of
<1>2. noticed'[c] = noticed[c] \cup {run[m].until}
  BY <1>1 DEF TypeOK
<1>3. \A n \in Of(c) \ {m} : run'[n] = run[n]
  BY DEF Of, Moved, Others
<1>4. run'[m].pc = "notified"
  BY DEF Moved
<1>5. ResumeFollows(c)' /\ Found(c)'
  <2>1. ToWriteContext(c) => ToWriteContext(c)'
    BY <1>1, <1>3 DEF ToWriteContext, At, Of
  <2>2. ResumeFollows(c)'
    BY <2>1 DEF Wait, ResumeFollows, Waiting
  <2>3. Found(c)'
    BY <2>1 DEF Wait, Found, Waiting
  <2>. QED
    BY <2>2, <2>3
<1>6. ToldOrTelling(c)'
  BY <1>1, <1>2, <1>3 DEF Wait, ToldOrTelling, At, Of
<1>7. ToldOnce(c)'
  <2>1. \/ opened[c] >= run[m].until
        \/ /\ context[c] = run[m].until
           /\ \A n \in Of(c) \ {m} : At(n, "send_notice") => run[n].until # run[m].until
    BY <1>1 DEF Wait, ToldOnce
  <2>2. \A until \in noticed'[c] : context'[c] = until \/ opened'[c] >= until
    BY <1>1, <1>2, <2>1 DEF Wait, ToldOnce
  <2>3. ASSUME NEW n \in Of(c), At(n, "send_notice")'
        PROVE  \/ opened'[c] >= run'[n].until
               \/ /\ context'[c] = run'[n].until /\ run'[n].until \notin noticed'[c]
                  /\ \A k \in Of(c) \ {n} : At(k, "send_notice")' => run'[k].until # run'[n].until
    <3>1. n # m /\ run'[n] = run[n] /\ At(n, "send_notice")
      BY <1>3, <1>4, <2>3 DEF At
    <3>2. \/ opened[c] >= run[n].until
          \/ /\ context[c] = run[n].until /\ run[n].until \notin noticed[c]
             /\ \A k \in Of(c) \ {n} : At(k, "send_notice") => run[k].until # run[n].until
      BY <1>1, <3>1 DEF Wait, ToldOnce
    <3>. QED
      BY <1>1, <1>2, <1>3, <1>4, <3>1, <3>2 DEF At
  <2>. QED
    BY <2>2, <2>3 DEF ToldOnce, Of
<1>. QED
  BY <1>5, <1>6, <1>7 DEF Wait

\* Every node of an execution keeps the wait of a chat without excuse.
LEMMA StepKeepsWait ==
    ASSUME TypeOK, WaitInv, NEW m \in Messages, Step(m), NEW c \in Chats, ~Excused(c)'
    PROVE  Wait(c)'
<1>1. Wait(c) /\ failures' = 0 /\ c \notin raced'
  BY ExcusesStay DEF WaitInv, Next
<1>2. CASE c # ChatOf[m]
  BY <1>1, <1>2, OtherChatsUntouched, UntouchedWait
<1>3. CASE c = ChatOf[m]
  <2>1. ~Fails(m)
    BY <1>1 DEF Fails
  <2>2. CASE BusinessHoursGuard(m) \/ GetOutsideHoursPending(m) \/ GetOutsideHoursContext(m)
    <3>1. Others(m) /\ run[m].pc \notin Telling /\ run'[m].pc \notin Telling
      BY <2>1, <2>2, GuardMoves, OutsideMoves
      DEF BusinessHoursGuard, GetOutsideHoursPending, GetOutsideHoursContext, At, Telling, Moved, Pends
    <3>2. UNCHANGED <<opened, state, context, noticed, resume>>
      BY <2>2 DEF BusinessHoursGuard, GetOutsideHoursPending, GetOutsideHoursContext, hours, keys, history
    <3>. QED
      BY <1>1, <1>3, <3>1, <3>2, QuietWait
  <2>3. CASE SetOutsideHoursPending(m)
    <3>1. Others(m) /\ run[m].pc \notin Telling /\ run'[m].pc = "set_outside_context"
      BY <2>1, <2>3, OutsideMoves DEF SetOutsideHoursPending, At, Telling, Moved
    <3>2. UNCHANGED <<opened, context, noticed, resume>>
      BY <2>3 DEF SetOutsideHoursPending, hours
    <3>. QED
      BY <1>1, <1>3, <3>1, <3>2, WriterWaits
  <2>4. CASE SetOutsideHoursContext(m)
    <3>1. At(m, "set_outside_context") /\ Moved(m, "send_notice") /\ UNCHANGED <<opened, state, noticed, resume>>
      BY <2>1, <2>4, OutsideMoves DEF SetOutsideHoursContext, hours
    <3>2. /\ context' = [context EXCEPT ![ChatOf[m]] = run[m].until]
          /\ ~AlreadyNotified(m)
      BY <1>1, <1>3, <2>4, Tries DEF SetOutsideHoursContext
    <3>. QED
      BY <1>1, <1>3, <3>1, <3>2, ContextWaits
  <2>5. CASE SendNotice(m)
    <3>1. At(m, "send_notice") /\ Moved(m, "notified") /\ UNCHANGED <<opened, state, context, resume>>
      BY <2>1, <2>5, OutsideMoves DEF SendNotice, hours, keys
    <3>2. noticed' = [noticed EXCEPT ![ChatOf[m]] = @ \cup {run[m].until}]
      BY <1>1, <2>5, Tries DEF SendNotice
    <3>. QED
      BY <1>1, <1>3, <3>1, <3>2, NoticeWaits
  <2>6. CASE GetPending(m) \/ GetContext(m) \/ GetClient2(m)
    <3>1. Others(m) /\ run[m].pc \notin Telling /\ run'[m].pc \notin Telling
      BY <2>1, <2>6, AnswerMoves DEF GetPending, GetContext, GetClient2, At, Telling, Moved, Pends
    <3>2. UNCHANGED <<opened, state, context, noticed, resume>>
      BY <2>6 DEF GetPending, GetContext, GetClient2, hours, keys, history
    <3>. QED
      BY <1>1, <1>3, <3>1, <3>2, QuietWait
  <2>7. CASE PostClient(m) \/ PushContext2(m) \/ SendResponse(m)
    <3>1. Others(m) /\ run[m].pc \notin Telling /\ run'[m].pc \notin Telling
      BY <2>1, <2>7, ClientsMoves, KnownOrAskStep DEF PostClient, PushContext2, SendResponse, At, Telling, Moved
    <3>2. UNCHANGED <<opened, state, context, noticed, resume>>
      BY <2>7 DEF PostClient, PushContext2, SendResponse, hours, keys, history
    <3>. QED
      BY <1>1, <1>3, <3>1, <3>2, QuietWait
  <2>8. CASE SetPendingState1(m) \/ SetPendingState(m)
    <3>1. /\ Others(m) /\ run[m].pc \notin Telling /\ run'[m].pc \in {"send_question", "asked"}
          /\ Put(m, ChatOf[m], "awaiting_name")
      BY <2>1, <2>8, ClientsMoves DEF SetPendingState1, SetPendingState, At, Telling, Moved
    <3>2. UNCHANGED <<opened, context, noticed, resume>>
      BY <2>8 DEF SetPendingState1, SetPendingState, hours
    <3>3. state'[c] = "awaiting_name"
      BY <1>3, <3>1 DEF Put, TypeOK
    <3>. QED
      BY <1>1, <1>3, <3>1, <3>2, <3>3, WriterWaits
  <2>9. CASE GetClient1(m) \/ NameExtractor(m) \/ AddName(m) \/ InvalidateClientContext(m) \/ SendResponse1(m)
    <3>1. Others(m) /\ run[m].pc \notin Telling /\ run'[m].pc \notin Telling
      BY <2>1, <2>9, NameMoves
      DEF GetClient1, NameExtractor, AddName, InvalidateClientContext, SendResponse1, At, Telling, Moved
    <3>2. UNCHANGED <<opened, state, context, noticed, resume>>
      BY <2>9 DEF GetClient1, NameExtractor, AddName, InvalidateClientContext, SendResponse1, hours, keys, history
    <3>. QED
      BY <1>1, <1>3, <3>1, <3>2, QuietWait
  <2>10. CASE DeletePending(m)
    <3>1. Others(m) /\ run[m].pc \notin Telling /\ run'[m].pc = "named" /\ Put(m, ChatOf[m], None)
      BY <2>1, <2>10, NameMoves DEF DeletePending, At, Telling, Moved
    <3>2. UNCHANGED <<opened, context, noticed, resume>>
      BY <2>10 DEF DeletePending, hours
    <3>3. state'[c] = None
      BY <1>3, <3>1 DEF Put, TypeOK
    <3>. QED
      BY <1>1, <1>3, <3>1, <3>2, <3>3, ChatAssumption, WriterWaits
  <2>. QED
    BY <2>2, <2>3, <2>4, <2>5, <2>6, <2>7, <2>8, <2>9, <2>10 DEF Step
<1>. QED
  BY <1>2, <1>3

\* The resume, and the chats it does not look at.
LEMMA ResumeLeavesWait ==
    ASSUME NEW c \in Chats, Wait(c), UNCHANGED <<opened, run, noticed>>, state'[c] = state[c],
           context'[c] = context[c], resume'.chat # c
    PROVE  Wait(c)'
<1>1. Untouched(c)
  BY DEF Untouched, TellsAsBefore
<1>2. Found(c)' /\ ToldOrTelling(c)' /\ ToldOnce(c)'
  BY <1>1, UntouchedFound, UntouchedTold
<1>3. ResumeFollows(c)'
  BY DEF ResumeFollows
<1>. QED
  BY <1>2, <1>3 DEF Wait

\* The schedule found the chat due, or is over.
LEMMA ScheduleKeepsWait ==
    ASSUME TypeOK, NEW d \in Chats, OutsideHoursResumeSchedule(d), NEW c \in Chats, Wait(c)
    PROVE  Wait(c)'
<1>1. UNCHANGED <<opened, run, noticed, state, context>> /\ None \notin Chats
  BY ChatAssumption DEF OutsideHoursResumeSchedule, hours, keys, history
<1>2. CASE resume'.chat # c
  BY <1>1, <1>2, ResumeLeavesWait
<1>3. CASE resume'.chat = c
  <2>1. /\ resume'.pc = "get_state" /\ resume'.until = context[c] /\ opened[c] >= context[c]
    BY <1>1, <1>3, ScheduleMoves, EndsIdle
  <2>2. Untouched(c)
    BY <1>1 DEF Untouched, TellsAsBefore
  <2>3. Found(c)' /\ ToldOrTelling(c)' /\ ToldOnce(c)'
    BY <2>2, UntouchedFound, UntouchedTold
  <2>4. ResumeFollows(c)'
    BY <1>1, <2>1 DEF ResumeFollows
  <2>. QED
    BY <2>3, <2>4 DEF Wait
<1>. QED
  BY <1>2, <1>3

\* The resume reads a state, and goes on to the context only where there is none.
LEMMA GetStateKeepsWait ==
    ASSUME TypeOK, GetOutsideHoursState, NEW c \in Chats, Wait(c)
    PROVE  Wait(c)'
<1>1. UNCHANGED <<opened, run, noticed, state, context>>
  BY DEF GetOutsideHoursState, hours, keys, history
<1>2. resume.pc = "get_state" /\ None \notin Chats
  BY ChatAssumption DEF GetOutsideHoursState
<1>3. CASE resume'.chat # c
  BY <1>1, <1>3, ResumeLeavesWait
<1>4. CASE resume'.chat = c
  <2>1. /\ resume.chat = c /\ resume'.until = resume.until
        /\ resume'.pc = IF state[c] # None THEN "send" ELSE "delete_context"
    BY <1>2, <1>4, GetStateMoves, EndsIdle
  <2>2. Untouched(c)
    BY <1>1 DEF Untouched, TellsAsBefore
  <2>3. Found(c)' /\ ToldOrTelling(c)' /\ ToldOnce(c)'
    BY <2>2, UntouchedFound, UntouchedTold
  <2>4. ResumeFollows(c)'
    <3>1. context[c] = resume.until /\ opened[c] >= resume.until
      BY <1>2, <2>1 DEF Wait, ResumeFollows
    <3>2. resume'.pc = "delete_context" => ~Waiting(c)'
      BY <1>1, <2>1, ChatAssumption DEF Waiting
    <3>. QED
      BY <1>1, <2>1, <3>1, <3>2 DEF ResumeFollows
  <2>. QED
    BY <2>3, <2>4 DEF Wait
<1>. QED
  BY <1>3, <1>4

\* The message it fails to send changes no key.
LEMMA SendKeepsWait ==
    ASSUME TypeOK, SendOutsideHoursResume, NEW c \in Chats, Wait(c)
    PROVE  Wait(c)'
<1>1. UNCHANGED <<opened, run, noticed, state, context>>
  BY DEF SendOutsideHoursResume, hours, keys, history
<1>2. resume'.chat # c
  BY EndsIdle, ChatAssumption DEF SendOutsideHoursResume
<1>. QED
  BY <1>1, <1>2, ResumeLeavesWait

\* The context deleted is the one found due, so every notice is of an opening that came.
LEMMA DeleteContextKeepsWait ==
    ASSUME TypeOK, DeleteOutsideHoursContext, NEW c \in Chats, Wait(c), failures' = 0, c \notin raced'
    PROVE  Wait(c)'
<1>1. UNCHANGED <<opened, run, noticed, state>>
  BY DEF DeleteOutsideHoursContext, hours
<1>2. /\ resume.pc = "delete_context" /\ None \notin Chats /\ resume.chat \in Chats
      /\ resume'.chat # c
  BY ChatAssumption, DeleteContextMoves, EndsIdle DEF DeleteOutsideHoursContext
<1>3. /\ context' = [context EXCEPT ![resume.chat] = None]
      /\ raced' = IF context[resume.chat] = resume.until THEN raced ELSE raced \cup {resume.chat}
  BY DeleteContextMoves
<1>4. CASE c # resume.chat
  <2>1. context'[c] = context[c]
    BY <1>2, <1>3, <1>4 DEF TypeOK
  <2>. QED
    BY <1>1, <1>2, <2>1, ResumeLeavesWait
<1>5. CASE c = resume.chat
  <2>1. context[c] = resume.until /\ opened[c] >= resume.until /\ context'[c] = None
    BY <1>2, <1>3, <1>5 DEF Wait, ResumeFollows, TypeOK
  <2>2. ResumeFollows(c)'
    BY <1>2 DEF ResumeFollows
  <2>3. ToWriteContext(c)' = ToWriteContext(c)
    BY <1>1 DEF ToWriteContext, At, Of
  <2>4. Found(c)'
    <3>1. Waiting(c) => ToWriteContext(c)
      BY <1>2, <1>5 DEF Wait, ResumeFollows
    <3>. QED
      BY <1>1, <2>3, <3>1 DEF Found, Waiting
  <2>5. ToldOrTelling(c)'
    BY <2>1 DEF ToldOrTelling
  <2>6. ToldOnce(c)'
    <3>1. \A until \in noticed[c] : opened[c] >= until
      BY <2>1 DEF Wait, ToldOnce
    <3>2. \A m \in Of(c) : At(m, "send_notice") => opened[c] >= run[m].until
      BY <2>1 DEF Wait, ToldOnce
    <3>. QED
      BY <1>1, <3>1, <3>2 DEF ToldOnce, At, Of
  <2>. QED
    BY <2>2, <2>4, <2>5, <2>6 DEF Wait
<1>. QED
  BY <1>4, <1>5

\* An opening only makes more waits end.
LEMMA OpensKeepsWait ==
    ASSUME TypeOK, NEW d \in Chats, Opens(d), NEW c \in Chats, Wait(c)
    PROVE  Wait(c)'
<1>1. UNCHANGED <<run, noticed, state, context, resume>>
  BY DEF Opens, keys, history
<1>2. opened[c] \in Nat /\ opened'[c] \in Nat /\ opened'[c] >= opened[c]
  BY DEF Opens, TypeOK
<1>3. /\ \A until \in noticed[c] : until \in Nat
      /\ \A m \in Of(c) : run[m].until \in Nat
      /\ resume.chat = c /\ resume.pc \in {"get_state", "send", "delete_context"} => resume.until \in Nat
  BY RunTypes DEF TypeOK, Of
<1>4. ResumeFollows(c)'
  BY <1>1, <1>2, <1>3 DEF Wait, ResumeFollows, Waiting, ToWriteContext, At, Of
<1>5. Found(c)' /\ ToldOrTelling(c)'
  BY <1>1 DEF Wait, Found, ToldOrTelling, Waiting, ToWriteContext, At, Of
<1>6. ToldOnce(c)'
  BY <1>1, <1>2, <1>3 DEF Wait, ToldOnce, At, Of
<1>. QED
  BY <1>4, <1>5, <1>6 DEF Wait

\* A state that expires ends the wait of its chat.
LEMMA ExpiryKeepsWait ==
    ASSUME TypeOK, NEW d \in Chats, StateExpires(d), NEW c \in Chats, Wait(c)
    PROVE  Wait(c)'
<1>1. UNCHANGED <<opened, run, noticed, context, resume>>
  BY DEF StateExpires, hours
<1>2. Waiting(c)' => Waiting(c)
  BY ChatAssumption DEF StateExpires, Waiting, TypeOK
<1>3. ResumeFollows(c)'
  BY <1>1, <1>2 DEF Wait, ResumeFollows, ToWriteContext, At, Of
<1>4. Found(c)' /\ ToldOrTelling(c)'
  BY <1>1, <1>2 DEF Wait, Found, ToldOrTelling, ToWriteContext, At, Of
<1>5. ToldOnce(c)'
  BY <1>1 DEF Wait, ToldOnce, At, Of
<1>. QED
  BY <1>3, <1>4, <1>5 DEF Wait

\* A context outlives the state out of hours, and takes the notices with it.
LEMMA ContextExpiryKeepsWait ==
    ASSUME TypeOK, NEW d \in Chats, ContextExpires(d), NEW c \in Chats, Wait(c), failures' = 0, c \notin raced'
    PROVE  Wait(c)'
<1>1. UNCHANGED <<opened, run, state, resume, failures>>
  BY DEF ContextExpires, hours
<1>2. CASE c # d
  <2>1. context'[c] = context[c] /\ noticed'[c] = noticed[c]
    BY <1>2 DEF ContextExpires, TypeOK
  <2>2. Untouched(c)
    BY <1>1, <2>1 DEF Untouched, TellsAsBefore
  <2>. QED
    BY <1>1, <2>2, UntouchedWait
<1>3. CASE c = d
  <2>1. /\ context'[c] = None /\ noticed'[c] = {} /\ ~Waiting(c) /\ resume.chat # c
        /\ \A m \in Of(c) : run[m].pc # "send_notice"
    BY <1>1, <1>3 DEF ContextExpires, TypeOK, Waiting, Of, At
  <2>2. ResumeFollows(c)'
    BY <1>1, <2>1 DEF ResumeFollows
  <2>3. Found(c)' /\ ToldOrTelling(c)'
    BY <1>1, <2>1 DEF Found, ToldOrTelling, Waiting
  <2>4. ToldOnce(c)'
    BY <1>1, <2>1 DEF ToldOnce, At, Of
  <2>. QED
    BY <2>2, <2>3, <2>4 DEF Wait
<1>. QED
  BY <1>2, <1>3

\* No chat waits at first.
LEMMA InitWaits == Init => WaitInv
<1>. SUFFICES ASSUME Init, NEW c \in Chats PROVE Wait(c)
  BY DEF WaitInv
<1>1. /\ context[c] = None /\ state[c] = None /\ noticed[c] = {} /\ resume.chat = None
      /\ None \notin Chats /\ None # "outside_business_hours"
      /\ \A m \in Messages : run[m].pc = "guard"
  BY ChatAssumption DEF Init, Idle
<1>. QED
  BY <1>1 DEF Wait, ResumeFollows, Found, ToldOrTelling, ToldOnce, Waiting, At, Of

\* WaitInv is inductive.
LEMMA NextKeepsWait == TypeOK /\ WaitInv /\ [Next]_vars => WaitInv'
<1>. SUFFICES ASSUME TypeOK, WaitInv, [Next]_vars PROVE WaitInv'
  OBVIOUS
<1>1. CASE Next
  <2>. SUFFICES ASSUME NEW c \in Chats, ~Excused(c)' PROVE Wait(c)'
    BY DEF WaitInv
  <2>1. Wait(c) /\ failures' = 0 /\ c \notin raced'
    BY <1>1, ExcusesStay DEF WaitInv
  <2>2. ASSUME NEW m \in Messages, Step(m) PROVE Wait(c)'
    BY <2>2, StepKeepsWait
  <2>3. CASE Resume
    BY <2>1, <2>3, ScheduleKeepsWait, GetStateKeepsWait, SendKeepsWait, DeleteContextKeepsWait DEF Resume
  <2>4. ASSUME NEW d \in Chats, Opens(d) PROVE Wait(c)'
    BY <2>1, <2>4, OpensKeepsWait
  <2>5. ASSUME NEW d \in Chats, Closes(d) PROVE Wait(c)'
    <3>1. Untouched(c) /\ UNCHANGED resume
      BY <2>5 DEF Closes, keys, history, Untouched, TellsAsBefore
    <3>. QED
      BY <2>1, <3>1, UntouchedWait
  <2>6. ASSUME NEW d \in Chats, StateExpires(d) PROVE Wait(c)'
    BY <2>1, <2>6, ExpiryKeepsWait
  <2>7. ASSUME NEW d \in Chats, ContextExpires(d) PROVE Wait(c)'
    BY <2>1, <2>7, ContextExpiryKeepsWait
  <2>8. ASSUME NEW d \in Chats, Panel(d) PROVE Wait(c)'
    <3>1. Untouched(c) /\ UNCHANGED resume
      BY <2>8 DEF Panel, ClientCreate, ClientUpdate, InvalidateFromPanel, hours, keys, history, Untouched,
                  TellsAsBefore
    <3>. QED
      BY <2>1, <3>1, UntouchedWait
  <2>. QED
    BY <1>1, <2>2, <2>3, <2>4, <2>5, <2>6, <2>7, <2>8 DEF Next, Clock
<1>2. CASE UNCHANGED vars
  <2>. SUFFICES ASSUME NEW c \in Chats, ~Excused(c)' PROVE Wait(c)'
    BY DEF WaitInv
  <2>1. Wait(c)
    BY <1>2 DEF vars, history, WaitInv, Excused
  <2>2. Untouched(c) /\ UNCHANGED resume
    BY <1>2 DEF vars, hours, keys, history, Untouched, TellsAsBefore
  <2>. QED
    BY <2>1, <2>2, UntouchedWait
<1>. QED
  BY <1>1, <1>2

\* WaitInv holds in every state of Spec.
LEMMA WaitInvariant == Spec => [](TypeOK /\ WaitInv)
<1>. QED
  BY InitTypes, NextKeepsTypes, InitWaits, NextKeepsWait, PTL DEF Spec

\* A chat in the state out of hours, whose messages are dropped, has a context or is about
\* to get one, unless a call failed or a key was overwritten that had changed since it was read.
THEOREM DroppedChatsDoWait == Spec => []DroppedChatsWait
<1>1. WaitInv => DroppedChatsWait
  BY DEF WaitInv, DroppedChatsWait, Wait, Found, Waiting, ToWriteContext, Of
<1>. QED
  BY <1>1, WaitInvariant, PTL

\* A chat that waits for an opening has been told of it, or its notice is the next call.
THEOREM WaitingChatsAreTold == Spec => []WaitingKnows
<1>1. WaitInv => WaitingKnows
  BY DEF WaitInv, WaitingKnows, Wait, ToldOrTelling, Of
<1>. QED
  BY <1>1, WaitInvariant, PTL

\* Of an opening still to come a chat is told once.
THEOREM ToldOfAnOpeningOnce == Spec => NoticedOnce
<1>. DEFINE Once == \A c \in Chats, m \in Messages :
                       ChatOf[m] = c /\ At(m, "send_notice") /\ run'[m].pc = "notified" =>
                          run[m].until \notin noticed[c] \/ opened[c] >= run[m].until \/ Excused(c)
<1>1. WaitInv /\ [Next]_vars => [Once]_vars
  BY DEF WaitInv, Wait, ToldOnce, Of
<1>. HIDE DEF Once
<1>2. Spec => [][Once]_vars
  BY <1>1, WaitInvariant, PTL DEF Spec
<1>. QED
  BY <1>2 DEF NoticedOnce, Once

-----------------------------------------------------------------------------
(* The question for the name: who knows the state, and who takes it back *)

\* An execution that could know otherwise has read its chat's state.
LEMMA KnowersHaveRead ==
    ASSUME TypeOK, NEW m \in Messages, ~Knows(m)
    PROVE  m \in Readers(ChatOf[m])
  BY RunTypes DEF Knows, Readers, ForName, ForClient, Ended

\* Knowledge of a state stays true while nobody writes it.
LEMMA KnowsStays ==
    ASSUME NEW m \in Messages, Knows(m), run'[m] = run[m], state'[ChatOf[m]] = state[ChatOf[m]]
    PROVE  Knows(m)'
  BY DEF Knows

\* Whoever still has a true value after a write of the state knows what was written.
LEMMA WriteOutdates ==
    ASSUME TypeOK, TypeOK', NEW by \in Messages, NEW c \in Chats, NEW value \in States,
           Put(by, c, value), NEW m \in Messages, m # by, m \notin stale', Knows(m), run'[m] = run[m]
    PROVE  Knows(m)'
<1>1. CASE ChatOf[m] # c \/ state[c] = value
  <2>1. state'[ChatOf[m]] = state[ChatOf[m]]
    BY <1>1, PutWrites, RunTypes
  <2>. QED
    BY <2>1, KnowsStays
<1>2. CASE ChatOf[m] = c /\ state[c] # value
  <2>1. m \notin Readers(c)
    BY <1>2, PutWrites
  <2>2. run[m].pc \in Ended \cup {"guard", "get_outside_pending", "get_pending"}
    BY <1>2, <2>1 DEF Readers
  <2>3. run'[m].pc \notin {"get_outside_context", "set_outside_pending"} \cup ForClient \cup ForName
    BY <2>2 DEF Ended, ForClient, ForName
  <2>. QED
    BY <2>3 DEF Knows
<1>. QED
  BY <1>1, <1>2

\* A chat whose client has a name gets no new question.
LEMMA QuestionStays ==
    ASSUME NEW c \in Chats, NoNewQuestion(c), api'[c] = api[c],
           state'[c] = "awaiting_name" => state[c] = "awaiting_name" \/ Closing(c),
           cache'[c] = "nameless" =>
               /\ cache[c] = "nameless"
               /\ \A m \in Of(c) : At(m, "invalidate") => run'[m].pc = "invalidate",
           \A m \in Of(c) : run[m].pc \in {"invalidate", "send_thanks", "delete_pending"} =>
               run'[m].pc \in {"invalidate", "send_thanks", "delete_pending"},
           \A m \in Of(c) : run'[m].pc = "set_pending_1" /\ m \notin stale' =>
               (At(m, "set_pending_1") /\ m \notin stale) \/ (api[c] \in Messages => Closing(c))
    PROVE  NoNewQuestion(c)'
<1>. SUFFICES ASSUME api[c] \in Messages, api'[c] \in Messages
              PROVE  NoNewQuestion(c)'
  BY DEF NoNewQuestion
<1>1. Closing(c) => Closing(c)'
  BY DEF Closing, Of
<1>2. (state[c] = "awaiting_name" => Closing(c))
  BY DEF NoNewQuestion
<1>3. cache'[c] = "nameless" => \E m \in Of(c) : run'[m].pc = "invalidate"
  BY DEF NoNewQuestion, At
<1>4. \A m \in Of(c) : run'[m].pc = "set_pending_1" /\ m \notin stale' => Closing(c)
  BY DEF NoNewQuestion
<1>. QED
  BY <1>1, <1>2, <1>3, <1>4 DEF NoNewQuestion, At, Of

\* A step of an execution moves no other, and writes at most the state of its chat.
LEMMA StepWrites ==
    ASSUME TypeOK, NEW m \in Messages, Step(m)
    PROVE  /\ Others(m) /\ stale \subseteq stale'
           /\ \/ UNCHANGED <<state, stale>>
              \/ \E value \in States : Put(m, ChatOf[m], value)
<1>1. run[m].pending \in States
  BY RunTypes
<1>2. None \in States /\ "awaiting_name" \in States /\ PendingStateToWrite(m) \in States
  BY <1>1 DEF States, PendingStateToWrite
<1>3. \/ UNCHANGED <<state, stale>>
      \/ \E value \in States : Put(m, ChatOf[m], value)
  BY <1>2, OutsideMoves, ClientsMoves, NameMoves
  DEF Step, keys, history, BusinessHoursGuard, GetOutsideHoursPending, GetOutsideHoursContext,
      SetOutsideHoursContext, SendNotice, GetPending, GetContext, GetClient2, PostClient, PushContext2,
      SendResponse, GetClient1, NameExtractor, AddName, InvalidateClientContext, SendResponse1
<1>4. Others(m)
  BY OutsideMoves, AnswerMoves, ClientsMoves, NameMoves, GuardMoves DEF Step, Fails, Moved, Pends
<1>5. ChatOf[m] \in Chats
  BY RunTypes
<1>. QED
  BY <1>3, <1>4, <1>5, PutWrites

\* After any step, an execution that is not stale knows the state of its chat.
LEMMA StepKeepsKnowledge ==
    ASSUME TypeOK, TypeOK', NEW m \in Messages, Step(m), failures' = 0,
           NEW n \in Messages, n \notin stale', Knows(n)
    PROVE  Knows(n)'
<1>1. Others(m) /\ (UNCHANGED <<state, stale>> \/ \E value \in States : Put(m, ChatOf[m], value))
  BY StepWrites
<1>2. ChatOf[m] \in Chats
  BY RunTypes
<1>3. CASE n # m
  <2>1. run'[n] = run[n]
    BY <1>1, <1>3 DEF Others
  <2>2. CASE UNCHANGED state
    BY <2>1, <2>2, KnowsStays
  <2>3. ASSUME NEW value \in States, Put(m, ChatOf[m], value)
        PROVE  Knows(n)'
    BY <1>2, <1>3, <2>1, <2>3, WriteOutdates
  <2>. QED
    BY <1>1, <2>2, <2>3
<1>4. CASE n = m
  <2>1. ~Fails(m)
    BY DEF Fails
  <2>2. CASE BusinessHoursGuard(m)
    BY <1>4, <2>2, GuardMoves DEF Knows, ForName, ForClient
  <2>3. CASE GetOutsideHoursPending(m)
    BY <1>4, <2>1, <2>3, OutsideMoves DEF GetOutsideHoursPending, keys, Pends, Knows, ForName, ForClient
  <2>4. CASE GetOutsideHoursContext(m)
    <3>1. run[m].pc = "get_outside_context" /\ UNCHANGED state
          /\ run'[m].pc \in {"notified", "set_outside_pending"} /\ run'[m].pending = run[m].pending
      BY <2>1, <2>4, OutsideMoves DEF GetOutsideHoursContext, At, keys, Moved
    <3>. QED
      BY <1>4, <3>1 DEF Knows, ForName, ForClient
  <2>5. CASE SetOutsideHoursPending(m) \/ SetOutsideHoursContext(m) \/ SendNotice(m)
    <3>1. run'[m].pc \in {"set_outside_context", "send_notice", "notified"}
      BY <2>1, <2>5, OutsideMoves DEF Moved
    <3>. QED
      BY <1>4, <3>1 DEF Knows, ForName, ForClient
  <2>6. CASE GetPending(m)
    <3>1. PICK pc \in {"answered", "get_context", "get_client_1", "dropped"} :
             /\ Pends(m, pc, state[ChatOf[m]])
             /\ pc = "get_context" => state[ChatOf[m]] = None
             /\ pc = "get_client_1" => state[ChatOf[m]] = "awaiting_name"
      BY <2>1, <2>6, AnswerMoves
    <3>2. UNCHANGED state
      BY <2>6 DEF GetPending, keys
    <3>3. run'[m].pc \notin {"get_outside_context", "set_outside_pending"}
      BY <3>1 DEF Pends
    <3>4. run'[m].pc \in ForClient => state[ChatOf[m]] = None
      BY <3>1 DEF Pends, ForClient
    <3>5. run'[m].pc \in ForName => state[ChatOf[m]] = "awaiting_name"
      BY <3>1 DEF Pends, ForName
    <3>. QED
      BY <1>4, <3>2, <3>3, <3>4, <3>5 DEF Knows
  <2>7. CASE GetContext(m) \/ GetClient2(m) \/ PostClient(m) \/ PushContext2(m)
    <3>1. run[m].pc \in ForClient /\ UNCHANGED state
      BY <2>7 DEF GetContext, GetClient2, PostClient, PushContext2, At, keys, ForClient
    <3>2. run'[m].pc \in {"answered", "set_pending_1", "get_client_2", "push_context", "post_client", "failed"}
      BY <2>1, <2>7, AnswerMoves, ClientsMoves, KnownOrAskStep DEF Moved
    <3>. QED
      BY <1>4, <3>1, <3>2 DEF Knows, ForName, ForClient
  <2>8. CASE SetPendingState1(m) \/ SetPendingState(m)
    <3>1. run'[m].pc \in {"send_question", "asked"} /\ Put(m, ChatOf[m], "awaiting_name")
      BY <2>1, <2>8, ClientsMoves DEF Moved
    <3>2. state'[ChatOf[m]] = "awaiting_name"
      BY <1>2, <3>1 DEF Put, TypeOK
    <3>. QED
      BY <1>4, <3>1, <3>2 DEF Knows, ForName, ForClient
  <2>9. CASE SendResponse(m) \/ GetClient1(m) \/ NameExtractor(m) \/ AddName(m) \/ InvalidateClientContext(m)
               \/ SendResponse1(m)
    <3>1. run[m].pc \in ForName /\ UNCHANGED state
      BY <2>9 DEF SendResponse, GetClient1, NameExtractor, AddName, InvalidateClientContext, SendResponse1, At,
                  keys, ForName
    <3>2. run'[m].pc \in ForName
      BY <2>1, <2>9, ClientsMoves, NameMoves DEF Moved, ForName
    <3>. QED
      BY <1>4, <3>1, <3>2 DEF Knows, ForName, ForClient
  <2>10. CASE DeletePending(m)
    <3>1. run'[m].pc = "named"
      BY <2>1, <2>10, NameMoves DEF Moved
    <3>. QED
      BY <1>4, <3>1 DEF Knows, ForName, ForClient
  <2>. QED
    BY <2>2, <2>3, <2>4, <2>5, <2>6, <2>7, <2>8, <2>9, <2>10 DEF Step
<1>. QED
  BY <1>3, <1>4

\* The steps of m that neither close a question nor open one.
LEMMA QuietQuestion ==
    ASSUME NEW m \in Messages, Others(m), NoNewQuestion(ChatOf[m]), stale \subseteq stale',
           api'[ChatOf[m]] = api[ChatOf[m]], cache'[ChatOf[m]] = cache[ChatOf[m]],
           state'[ChatOf[m]] = "awaiting_name" => state[ChatOf[m]] = "awaiting_name" \/ Closing(ChatOf[m]),
           run[m].pc \notin {"invalidate", "send_thanks", "delete_pending"}, run'[m].pc # "set_pending_1"
    PROVE  NoNewQuestion(ChatOf[m])'
<1>. DEFINE c == ChatOf[m]
<1>1. c \in Chats
  BY ChatAssumption
<1>2. \A k \in Of(c) : k = m \/ run'[k] = run[k]
  BY DEF Of, Others
<1>. QED
  BY <1>1, <1>2, QuestionStays DEF At

\* No step of an execution leaves its named client with a new question: the ones that ask
\* would have raced with the one that took the name.
LEMMA StepKeepsNoQuestion ==
    ASSUME TypeOK, TypeOK', NEW m \in Messages, Step(m), failures' = 0, m \notin stale => Knows(m),
           ChatOf[m] \notin raced', NoNewQuestion(ChatOf[m])
    PROVE  NoNewQuestion(ChatOf[m])'
<1>. DEFINE c == ChatOf[m]
<1>1. /\ Others(m) /\ stale \subseteq stale' /\ c \in Chats /\ m \in Of(c)
      /\ \A k \in Of(c) : k = m \/ run'[k] = run[k]
  BY StepWrites, RunTypes DEF Of, Others
<1>2. ~Fails(m)
  BY DEF Fails
<1>3. CASE BusinessHoursGuard(m) \/ GetOutsideHoursPending(m) \/ GetOutsideHoursContext(m)
             \/ SetOutsideHoursContext(m) \/ SendNotice(m)
  <2>1. run[m].pc \notin {"invalidate", "send_thanks", "delete_pending"} /\ run'[m].pc # "set_pending_1"
    BY <1>2, <1>3, GuardMoves, OutsideMoves
    DEF BusinessHoursGuard, GetOutsideHoursPending, GetOutsideHoursContext, SetOutsideHoursContext, SendNotice, At,
        Moved, Pends
  <2>2. UNCHANGED <<api, cache, state>>
    BY <1>3 DEF BusinessHoursGuard, GetOutsideHoursPending, GetOutsideHoursContext, SetOutsideHoursContext,
                SendNotice, keys, clients
  <2>. QED
    BY <1>1, <2>1, <2>2, QuietQuestion
<1>4. CASE SetOutsideHoursPending(m)
  <2>1. /\ run[m].pc = "set_outside_pending" /\ run'[m].pc = "set_outside_context"
        /\ Put(m, c, PendingStateToWrite(m)) /\ UNCHANGED <<api, cache>>
    BY <1>2, <1>4, OutsideMoves DEF SetOutsideHoursPending, At, Moved, clients
  <2>2. m \notin stale /\ state[c] = run[m].pending
    BY <1>1, <2>1 DEF Put, Knows
  <2>3. state'[c] = PendingStateToWrite(m)
    BY <1>1, <2>1 DEF Put, TypeOK
  <2>4. state'[c] = "awaiting_name" => state[c] = "awaiting_name"
    BY <2>2, <2>3 DEF PendingStateToWrite
  <2>. QED
    BY <1>1, <2>1, <2>4, QuietQuestion
<1>5. CASE GetPending(m) \/ SendResponse(m) \/ GetClient1(m) \/ NameExtractor(m)
  <2>1. run[m].pc \notin {"invalidate", "send_thanks", "delete_pending"} /\ run'[m].pc # "set_pending_1"
    BY <1>2, <1>5, AnswerMoves, ClientsMoves, NameMoves
    DEF GetPending, SendResponse, GetClient1, NameExtractor, At, Moved, Pends
  <2>2. UNCHANGED <<api, cache, state>>
    BY <1>5 DEF GetPending, SendResponse, GetClient1, NameExtractor, keys, clients
  <2>. QED
    BY <1>1, <2>1, <2>2, QuietQuestion
<1>6. CASE GetContext(m)
  <2>1. UNCHANGED <<api, cache, state>> /\ run[m].pc = "get_context"
    BY <1>6 DEF GetContext, keys, clients, At
  <2>2. run'[m].pc = "set_pending_1" => cache[c] = "nameless"
    BY <1>2, <1>6, AnswerMoves DEF Moved
  <2>3. api[c] \in Messages /\ cache[c] = "nameless" => Closing(c)
    BY DEF NoNewQuestion, Closing, At
  <2>. QED
    BY <1>1, <2>1, <2>2, <2>3, QuestionStays DEF At
<1>7. CASE GetClient2(m)
  <2>1. run[m].pc = "get_client_2" /\ run'[m].pc # "set_pending_1"
    BY <1>2, <1>7, AnswerMoves DEF GetClient2, At
  <2>2. UNCHANGED <<api, cache, state>>
    BY <1>7 DEF GetClient2, keys, clients
  <2>. QED
    BY <1>1, <2>1, <2>2, QuietQuestion
<1>8. CASE PostClient(m)
  <2>1. run[m].pc = "post_client" /\ UNCHANGED state
    BY <1>8 DEF PostClient, At
  <2>2. CASE Moved(m, "failed") /\ UNCHANGED <<api, cache>>
    <3>1. run'[m].pc # "set_pending_1"
      BY <2>2 DEF Moved
    <3>. QED
      BY <1>1, <2>1, <2>2, <3>1, QuietQuestion
  <2>3. CASE api' = [api EXCEPT ![c] = "nameless"]
    BY <1>1, <2>3, ChatAssumption DEF NoNewQuestion, TypeOK
  <2>. QED
    BY <1>2, <1>8, <2>2, <2>3, ClientsMoves
<1>9. CASE PushContext2(m)
  <2>1. /\ run[m].pc = "push_context" /\ run'[m].pc = KnownOrAsk(run[m].client) /\ UNCHANGED <<state, api>>
        /\ cache' = [cache EXCEPT ![c] = IF NamePresent(run[m].client) THEN "named" ELSE "nameless"]
        /\ api[c] = run[m].client
    BY <1>2, <1>9, ClientsMoves DEF PushContext2, At, Moved, clients
  <2>2. CASE api[c] \notin Messages
    BY <2>1, <2>2 DEF NoNewQuestion
  <2>3. CASE api[c] \in Messages
    <3>. NamePresent(api[c])
      BY <2>3, ChatAssumption DEF NamePresent
    <3>1. run'[m].pc = "answered"
      BY <2>1, <2>3 DEF KnownOrAsk
    <3>2. cache'[c] = "named"
      BY <1>1, <2>1, <2>3 DEF TypeOK
    <3>. QED
      BY <1>1, <2>1, <3>1, <3>2, QuestionStays DEF At
  <2>. QED
    BY <2>2, <2>3
<1>10. CASE SetPendingState1(m)
  <2>1. /\ run[m].pc = "set_pending_1" /\ run'[m].pc = "send_question" /\ UNCHANGED <<api, cache>>
        /\ Put(m, c, "awaiting_name")
    BY <1>2, <1>10, ClientsMoves DEF SetPendingState1, At, Moved, clients
  <2>2. m \notin stale
    BY <1>1, <2>1 DEF Put
  <2>3. CASE api[c] \in Messages
    <3>1. Closing(c)
      BY <1>1, <2>1, <2>2, <2>3 DEF NoNewQuestion, At
    <3>. QED
      BY <1>1, <2>1, <3>1, QuietQuestion
  <2>4. CASE api[c] \notin Messages
    BY <2>1, <2>4 DEF NoNewQuestion
  <2>. QED
    BY <2>3, <2>4
<1>11. CASE SetPendingState(m)
  <2>1. /\ run[m].pc = "set_pending" /\ run'[m].pc = "asked" /\ UNCHANGED <<api, cache>>
        /\ Put(m, c, "awaiting_name")
    BY <1>2, <1>11, ClientsMoves DEF SetPendingState, At, Moved, clients
  <2>2. state[c] = "awaiting_name"
    BY <1>1, <2>1 DEF Put, Knows, ForName
  <2>. QED
    BY <1>1, <2>1, <2>2, QuietQuestion
<1>12. CASE AddName(m)
  <2>1. run'[m].pc = "invalidate"
    BY <1>2, <1>12, NameMoves DEF Moved
  <2>2. Closing(c)' /\ \E k \in Of(c) : At(k, "invalidate")'
    BY <1>1, <2>1 DEF Closing, Of, At
  <2>. QED
    BY <2>2 DEF NoNewQuestion, Of
<1>13. CASE InvalidateClientContext(m)
  <2>1. /\ run'[m].pc = "send_thanks" /\ UNCHANGED <<api, state>>
        /\ cache' = [cache EXCEPT ![c] = None]
    BY <1>2, <1>13, NameMoves DEF InvalidateClientContext, Moved, clients
  <2>2. cache'[c] # "nameless"
    BY <1>1, <2>1, ChatAssumption DEF TypeOK
  <2>. QED
    BY <1>1, <2>1, <2>2, QuestionStays DEF At
<1>14. CASE SendResponse1(m)
  <2>1. run[m].pc = "send_thanks" /\ run'[m].pc = "delete_pending" /\ UNCHANGED <<api, state, cache>>
    BY <1>2, <1>14, NameMoves DEF SendResponse1, Moved, At, keys, clients
  <2>. QED
    BY <1>1, <2>1, QuestionStays DEF At
<1>15. CASE DeletePending(m)
  <2>1. /\ run[m].pc = "delete_pending" /\ run'[m].pc = "named" /\ UNCHANGED <<api, cache>>
        /\ Put(m, c, None) /\ None \in States
    BY <1>2, <1>15, NameMoves DEF DeletePending, Moved, At, States, clients
  <2>2. m \notin stale /\ state[c] = "awaiting_name"
    BY <1>1, <2>1 DEF Put, Knows, ForName
  <2>3. state'[c] = None /\ Readers(c) \ {m} \subseteq stale' /\ None # "awaiting_name"
    BY <1>1, <2>1, <2>2, PutWrites, ChatAssumption
  <2>4. \A k \in Of(c) : run'[k].pc = "set_pending_1" => k \in stale'
    <3>. SUFFICES ASSUME NEW k \in Of(c), run'[k].pc = "set_pending_1"
                  PROVE  k \in stale'
      OBVIOUS
    <3>1. k # m /\ run[k].pc = "set_pending_1"
      BY <1>1, <2>1
    <3>2. k \in Readers(c)
      BY <3>1 DEF Readers, Of, Ended
    <3>. QED
      BY <2>3, <3>1, <3>2
  <2>5. api[c] \in Messages /\ cache[c] = "nameless" => \E k \in Of(c) : At(k, "invalidate")'
    <3>. SUFFICES ASSUME NEW k \in Of(c), At(k, "invalidate")
                  PROVE  \E l \in Of(c) : At(l, "invalidate")'
      BY DEF NoNewQuestion
    <3>1. run'[k].pc = "invalidate"
      BY <1>1, <2>1 DEF At
    <3>. QED
      BY <3>1 DEF At
  <2>. QED
    BY <2>1, <2>3, <2>4, <2>5 DEF NoNewQuestion, At, Of
<1>. QED
  BY <1>3, <1>4, <1>5, <1>6, <1>7, <1>8, <1>9, <1>10, <1>11, <1>12, <1>13, <1>14, <1>15 DEF Step

\* Every node of an execution keeps QuestionInv.
LEMMA StepKeepsQuestion ==
    ASSUME TypeOK, TypeOK', QuestionInv, NEW m \in Messages, Step(m), failures = 0, failures' = 0,
           raced \subseteq raced'
    PROVE  QuestionInv'
<1>1. /\ \A n \in Messages \ stale : Knows(n)
      /\ \A c \in Chats \ raced : NoNewQuestion(c)
  BY DEF QuestionInv
<1>2. Others(m) /\ stale \subseteq stale'
  BY StepWrites
<1>3. ASSUME NEW n \in Messages \ stale' PROVE Knows(n)'
  BY <1>1, <1>2, StepKeepsKnowledge
<1>4. ASSUME NEW c \in Chats \ raced' PROVE NoNewQuestion(c)'
  <2>1. NoNewQuestion(c)
    BY <1>1
  <2>2. CASE c = ChatOf[m]
    BY <1>1, <2>1, <2>2, StepKeepsNoQuestion
  <2>3. CASE c # ChatOf[m]
    <3>1. state'[c] = state[c]
      BY <2>3, OtherChatsUntouched DEF Untouched
    <3>2. api'[c] = api[c] /\ cache'[c] = cache[c]
      BY <2>3 DEF TypeOK, Step, keys, clients, BusinessHoursGuard, GetOutsideHoursPending, GetOutsideHoursContext,
         SetOutsideHoursPending, SetOutsideHoursContext, SendNotice, GetPending, GetContext, GetClient2, PostClient,
         PushContext2, SetPendingState1, SendResponse, SetPendingState, GetClient1, NameExtractor, AddName,
         InvalidateClientContext, SendResponse1, DeletePending
    <3>3. \A k \in Of(c) : run'[k] = run[k]
      BY <1>2, <2>3 DEF Of, Others
    <3>. QED
      BY <1>2, <2>1, <3>1, <3>2, <3>3, QuestionStays DEF At
  <2>. QED
    BY <2>2, <2>3
<1>. QED
  BY <1>3, <1>4 DEF QuestionInv

\* Who takes the state away leaves whoever has read it with a stale value.
LEMMA RemovalKeepsQuestion ==
    ASSUME TypeOK, TypeOK', QuestionInv, NEW d \in Chats, UNCHANGED <<api, cache, run>>, failures = 0,
           raced \subseteq raced', stale \subseteq stale',
           state'[d] = None, \A c \in Chats \ {d} : state'[c] = state[c],
           \A n \in Messages : n \notin stale' /\ Knows(n) => Knows(n)'
    PROVE  QuestionInv'
<1>1. /\ \A n \in Messages \ stale : Knows(n)
      /\ \A c \in Chats \ raced : NoNewQuestion(c)
  BY DEF QuestionInv
<1>2. ASSUME NEW c \in Chats \ raced' PROVE NoNewQuestion(c)'
  <2>1. state'[c] = "awaiting_name" => state[c] = "awaiting_name"
    BY ChatAssumption
  <2>. QED
    BY <1>1, <2>1, QuestionStays DEF At
<1>. QED
  BY <1>1, <1>2 DEF QuestionInv

\* Steps that write neither a key nor an execution.
LEMMA UntouchedQuestion ==
    ASSUME QuestionInv, UNCHANGED <<api, cache, run, state>>, failures = 0, raced \subseteq raced',
           stale' \cap Messages = stale \cap Messages
    PROVE  QuestionInv'
<1>1. /\ \A n \in Messages \ stale : Knows(n)
      /\ \A c \in Chats \ raced : NoNewQuestion(c)
  BY DEF QuestionInv
<1>2. ASSUME NEW n \in Messages \ stale' PROVE Knows(n)'
  BY <1>1, KnowsStays
<1>3. ASSUME NEW c \in Chats \ raced' PROVE NoNewQuestion(c)'
  BY <1>1, QuestionStays DEF At, Of
<1>. QED
  BY <1>2, <1>3 DEF QuestionInv

\* The panel takes the client of the chat from its messages, or the cached one away.
LEMMA PanelKeepsQuestion ==
    ASSUME TypeOK, QuestionInv, NEW d \in Chats, Panel(d), failures = 0, raced \subseteq raced'
    PROVE  QuestionInv'
<1>1. /\ \A n \in Messages \ stale : Knows(n)
      /\ \A c \in Chats \ raced : NoNewQuestion(c)
  BY DEF QuestionInv
<1>2. UNCHANGED <<run, state, stale>>
  BY DEF Panel, ClientCreate, ClientUpdate, InvalidateFromPanel, keys, history
<1>3. ASSUME NEW n \in Messages \ stale' PROVE Knows(n)'
  BY <1>1, <1>2, KnowsStays
<1>4. ASSUME NEW c \in Chats \ raced' PROVE NoNewQuestion(c)'
  <2>1. CASE ClientCreate(d) \/ ClientUpdate(d)
    <3>1. CASE c = d
      <4>1. api'[c] \notin Messages
        BY <2>1, <3>1, ChatAssumption DEF ClientCreate, ClientUpdate, TypeOK
      <4>. QED
        BY <4>1 DEF NoNewQuestion
    <3>2. CASE c # d
      <4>1. api'[c] = api[c] /\ cache'[c] = cache[c]
        BY <2>1, <3>2 DEF ClientCreate, ClientUpdate, TypeOK, keys
      <4>. QED
        BY <1>1, <1>2, <4>1, QuestionStays DEF At, Of
    <3>. QED
      BY <3>1, <3>2
  <2>2. CASE InvalidateFromPanel(d)
    <3>1. api' = api /\ (cache'[c] = cache[c] \/ cache'[c] = None)
      BY <2>2 DEF InvalidateFromPanel, TypeOK
    <3>2. None # "nameless"
      BY ChatAssumption
    <3>. QED
      BY <1>1, <1>2, <3>1, <3>2, QuestionStays DEF At, Of
  <2>. QED
    BY <2>1, <2>2 DEF Panel
<1>. QED
  BY <1>3, <1>4 DEF QuestionInv

\* No question is open at first.
LEMMA InitHasNoQuestion == Init => QuestionInv
<1>. SUFFICES ASSUME Init PROVE QuestionInv
  OBVIOUS
<1>1. \A m \in Messages : Knows(m)
  BY DEF Init, Knows, ForName, ForClient
<1>2. \A c \in Chats : NoNewQuestion(c)
  BY ChatAssumption DEF Init, NoNewQuestion
<1>. QED
  BY <1>1, <1>2 DEF QuestionInv

\* QuestionInv is inductive.
LEMMA NextKeepsQuestion == TypeOK /\ QuestionInv /\ [Next]_vars => QuestionInv'
<1>. SUFFICES ASSUME TypeOK, QuestionInv, [Next]_vars, failures' = 0 PROVE QuestionInv'
  BY DEF QuestionInv
<1>1. TypeOK'
  BY NextKeepsTypes
<1>2. CASE Next
  <2>1. failures = 0 /\ raced \subseteq raced'
    BY <1>2, FailuresGrow, RacedGrows DEF TypeOK
  <2>2. ASSUME NEW m \in Messages, Step(m) PROVE QuestionInv'
    BY <1>1, <2>1, <2>2, StepKeepsQuestion
  <2>3. ASSUME NEW d \in Chats, OutsideHoursResumeSchedule(d) PROVE QuestionInv'
    BY <2>1, <2>3, UntouchedQuestion, ChatAssumption DEF OutsideHoursResumeSchedule, keys, clients, history
  <2>4. CASE GetOutsideHoursState \/ SendOutsideHoursResume \/ DeleteOutsideHoursContext
    <3>1. UNCHANGED <<api, cache, run, state, stale>>
      BY <2>4 DEF GetOutsideHoursState, SendOutsideHoursResume, DeleteOutsideHoursContext, keys, clients, history
    <3>. QED
      BY <2>1, <3>1, UntouchedQuestion
  <2>5. ASSUME NEW d \in Chats, Panel(d) PROVE QuestionInv'
    BY <2>1, <2>5, PanelKeepsQuestion
  <2>6. ASSUME NEW d \in Chats, Opens(d) \/ Closes(d) \/ ContextExpires(d) PROVE QuestionInv'
    <3>1. UNCHANGED <<api, cache, run, state, stale>>
      BY <2>6 DEF Opens, Closes, ContextExpires, keys, clients, history
    <3>. QED
      BY <2>1, <3>1, UntouchedQuestion
  <2>7. ASSUME NEW d \in Chats, StateExpires(d) PROVE QuestionInv'
    <3>1. /\ stale' = stale \cup Readers(d) /\ UNCHANGED <<api, cache, run>>
          /\ state'[d] = None /\ \A c \in Chats \ {d} : state'[c] = state[c]
      BY <2>7 DEF StateExpires, TypeOK, clients
    <3>2. ASSUME NEW n \in Messages, n \notin stale', Knows(n) PROVE Knows(n)'
      <4>1. CASE ChatOf[n] # d
        BY <3>1, <3>2, <4>1, RunTypes, KnowsStays
      <4>2. CASE ChatOf[n] = d
        <5>1. run[n].pc \in Ended \cup {"guard", "get_outside_pending", "get_pending"}
          BY <3>1, <3>2, <4>2 DEF Readers
        <5>2. run'[n].pc \notin {"get_outside_context", "set_outside_pending"} \cup ForClient \cup ForName
          BY <3>1, <5>1 DEF Ended, ForClient, ForName
        <5>. QED
          BY <5>2 DEF Knows
      <4>. QED
        BY <4>1, <4>2
    <3>. QED
      BY <1>1, <2>1, <3>1, <3>2, RemovalKeepsQuestion
  <2>. QED
    BY <1>2, <2>2, <2>3, <2>4, <2>5, <2>6, <2>7 DEF Next, Resume, Clock
<1>3. CASE UNCHANGED vars
  BY <1>3, UntouchedQuestion DEF vars, keys, clients, history
<1>. QED
  BY <1>2, <1>3

\* A chat whose client has the name one of its messages gave is not left waiting for one,
\* unless a call failed or a key was overwritten that had changed since it was read.
THEOREM NamedChatsAreNotAsked == Spec => []QuestionClosed
<1>1. TypeOK /\ QuestionInv => QuestionClosed
  <2>. SUFFICES ASSUME TypeOK, QuestionInv, NEW c \in Chats, state[c] = "awaiting_name", api[c] \in Messages,
                       Resting(c), ~Excused(c)
                PROVE  FALSE
    BY DEF QuestionClosed
  <2>1. failures = 0 /\ c \notin raced
    BY DEF Excused, TypeOK
  <2>2. Closing(c)
    BY <2>1 DEF QuestionInv, NoNewQuestion
  <2>. QED
    BY <2>2 DEF Closing, Of, Resting, Ended
<1>. QED
  BY <1>1, InitTypes, NextKeepsTypes, InitHasNoQuestion, NextKeepsQuestion, PTL DEF Spec
=============================================================================
