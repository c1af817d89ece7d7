------------------------------ MODULE Attendance ------------------------------
(***************************************************************************)
(* Whether a message is attended: the business's hours and plan in the API, *)
(* the business context that businesses-prod keeps of them in Redis, the    *)
(* updates that delete it, and the guard of main-prod that reads it. Each   *)
(* execution reads the context, or the API and then writes the context.     *)
(***************************************************************************)
EXTENDS BusinessHours

CONSTANTS
    Executions,   \* executions of main-prod, of any chats of the business
    Schedules,    \* the opening hours an update can set
    Ttl,          \* ticks a context lives (a day in the code)
    CleanupAt,    \* minute of the daily cleanup
    MaxUpdates,   \* bound: updates of the business
    MaxFailures   \* bound: calls that fail

ASSUME AttendanceAssumption ==
    /\ Schedules \subseteq OpeningHours
    /\ Ttl \in Nat \ {0} /\ CleanupAt \in Minutes
    /\ MaxUpdates \in Nat /\ MaxFailures \in Nat

VARIABLES
    now,        \* the moment
    business,   \* the row: hours, plan, and the number of updates so far
    entry,      \* key business_context: None, or what an execution read, and its age
    update,     \* "idle", or "committed": the cached context is not deleted yet
    run,        \* execution -> node it calls next, the context it holds, its decision
    behind,     \* history: something was pushed that an update had changed meanwhile
    failures

vars == <<now, business, entry, update, run, behind, failures>>

Init ==
    /\ now \in Moments
    /\ business \in [hours : OpeningHours, plan : Plans, version : {0}]
    /\ entry = None /\ update = "idle"
    /\ run = [e \in Executions |-> [pc |-> "idle", context |-> None, decision |-> None]]
    /\ behind = FALSE /\ failures = 0

At(e, pc) == run[e].pc = pc
Fail == failures < MaxFailures /\ failures' = failures + 1
Ok == UNCHANGED failures
GoTo(e, pc) == run' = [run EXCEPT ![e].pc = pc]
Hold(e, pc, context) == run' = [run EXCEPT ![e] = [pc |-> pc, context |-> context, decision |-> None]]

\* What an execution reads of the API, the status of that moment included.
BusinessData ==
    [hours |-> business.hours, plan |-> business.plan, version |-> business.version,
     status |-> AttendanceStatusAt(business.hours, business.plan, now), age |-> 0]

-----------------------------------------------------------------------------
\* businesses-prod.

HasData == entry # None
ErrorReport18(e) == GoTo(e, "get_business")
ErrorReport19(e) == GoTo(e, "guard")
ErrorReport1(e) == GoTo(e, "idle")

\* Mutant of GetContext: every read gives the context another day.
GetContextSliding(e) ==
    /\ At(e, "idle") /\ Ok
    /\ IF HasData THEN Hold(e, "guard", entry) /\ entry' = [entry EXCEPT !.age = 0]
       ELSE GoTo(e, "get_business") /\ UNCHANGED entry
    /\ UNCHANGED <<now, business, update, behind>>
GetContext(e) ==
    /\ At(e, "idle")
    /\ \/ /\ Ok
          /\ IF HasData THEN Hold(e, "guard", entry) ELSE GoTo(e, "get_business")
       \/ Fail /\ ErrorReport18(e)
    /\ UNCHANGED <<now, business, entry, update, behind>>

GetBusiness(e) ==
    /\ At(e, "get_business")
    /\ \/ Ok /\ Hold(e, "push_context", BusinessData)
       \/ Fail /\ ErrorReport1(e)
    /\ UNCHANGED <<now, business, entry, update, behind>>

PushContext(e) ==
    /\ At(e, "push_context")
    /\ \/ /\ Ok /\ entry' = [run[e].context EXCEPT !.age = 0] /\ GoTo(e, "guard")
          /\ behind' = (behind \/ run[e].context.version # business.version)
       \/ Fail /\ ErrorReport19(e) /\ UNCHANGED <<entry, behind>>
    /\ UNCHANGED <<now, business, update>>

\* main-prod: the decision on a message that arrives now.
Guard(e) ==
    LET context == run[e].context IN
    /\ At(e, "guard") /\ Ok
    /\ run' = [run EXCEPT ![e] =
          [pc |-> "decided", context |-> context,
           decision |-> BusinessHoursGuard(context.hours, context.plan, context.status, now)]]
    /\ UNCHANGED <<now, business, entry, update, behind>>

\* The next message of some chat.
Again(e) ==
    /\ At(e, "decided") /\ Ok
    /\ run' = [run EXCEPT ![e] = [pc |-> "idle", context |-> None, decision |-> None]]
    /\ UNCHANGED <<now, business, entry, update, behind>>

-----------------------------------------------------------------------------
\* The backend: an update is committed, then the context is deleted, best effort.

CommitUpdate(hours, plan) ==
    /\ update = "idle" /\ business.version < MaxUpdates /\ Ok
    /\ business' = [hours |-> hours, plan |-> plan, version |-> business.version + 1]
    /\ update' = "committed"
    /\ UNCHANGED <<now, entry, run, behind>>

\* Mutant of InvalidateBusinessContext: nothing is deleted.
InvalidateNothing == update = "committed" /\ update' = "idle" /\ UNCHANGED <<now, business, entry, run, behind, failures>>
InvalidateBusinessContext ==
    /\ update = "committed" /\ update' = "idle"
    /\ \/ Ok /\ entry' = None
       \/ Fail /\ UNCHANGED entry
    /\ UNCHANGED <<now, business, run, behind>>

CacheCleanup ==
    /\ now.minutes = CleanupAt /\ entry # None /\ entry' = None
    /\ UNCHANGED <<now, business, update, run, behind, failures>>

Tick ==
    /\ now' = Later(now, 1)
    /\ entry' = IF entry = None \/ entry.age + 1 = Ttl THEN None ELSE [entry EXCEPT !.age = @ + 1]
    /\ UNCHANGED <<business, update, run, behind, failures>>

Next ==
    \/ \E e \in Executions :
          GetContext(e) \/ GetBusiness(e) \/ PushContext(e) \/ Guard(e) \/ Again(e)
    \/ \E hours \in Schedules, plan \in Plans : CommitUpdate(hours, plan)
    \/ InvalidateBusinessContext \/ CacheCleanup \/ Tick

Spec == Init /\ [][Next]_vars
\* The clock goes on.
FairSpec == Spec /\ WF_vars(Tick)

-----------------------------------------------------------------------------
\* Properties.

Context == [hours : OpeningHours, plan : Plans, version : 0..MaxUpdates,
            status : [plan : Plans, business_is_open : BOOLEAN, allowed : BOOLEAN,
                      block_reason : {None, "inside_business_hours", "outside_business_hours"}],
            age : Nat]
TypeOK ==
    /\ now \in Moments /\ update \in {"idle", "committed"}
    /\ business \in [hours : OpeningHours, plan : Plans, version : 0..MaxUpdates]
    /\ entry \in Context \cup {None}
    /\ run = [e \in Executions |-> [pc |-> run[e].pc, context |-> run[e].context,
                                   decision |-> run[e].decision]]
    /\ \A e \in Executions :
          At(e, "push_context") \/ At(e, "guard") => run[e].context \in Context
    /\ behind \in BOOLEAN /\ failures \in 0..MaxFailures

\* The guard and the backend, two programs, agree on what the hours mean, for
\* every plan at every moment.
HoursAgree ==
    /\ IsOpenNow(business.hours, now) = IsOpenAt(business.hours, now)
    /\ \A plan \in Plans :
          FallbackAllowed(business.hours, plan, now) = AttendanceStatusAt(business.hours, plan, now).allowed

\* What a refused client is told (and what the hourly resume waits for) is the
\* first moment at which the backend attends again, or nothing if it never does.
PromiseIsFirst ==
    \A plan \in Plans :
        LET status == AttendanceStatusAt(business.hours, plan, now)
            decision == BusinessHoursGuard(business.hours, plan, status, now)
            attended == {delta \in 1..WeekDays * DayMinutes :
                            AttendanceStatusAt(business.hours, plan, Later(now, delta)).allowed}
        IN ~decision.allowed =>
              decision.next_allowed_in = IF attended = {} THEN None ELSE Min(attended)

\* After an update whose deletion of the context did not fail, the next message
\* is judged by the new hours, unless an execution pushed what it read before.
UpdateReaches ==
    entry # None /\ update = "idle" /\ failures = 0 /\ ~behind => entry.version = business.version

\* Even then an old context does not last: reading it does not keep it alive.
EventuallyFresh ==
    []<>(entry = None \/ entry.version = business.version)

\* The backend decides (tests/test_n8n_workflows.py:23): a context that is taken
\* from the cache says what the backend says at that moment.
AttendanceFollowed ==
    [][\A e \in Executions : At(e, "idle") /\ run'[e].pc = "guard" =>
          \/ update # "idle" \/ failures > 0 \/ behind
          \/ run'[e].context.status = AttendanceStatusAt(business.hours, business.plan, now)]_vars
=============================================================================
