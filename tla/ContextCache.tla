---------------------------- MODULE ContextCache ----------------------------
(***************************************************************************)
(* The professionals and services that the workflows professionals-prod and *)
(* services-prod keep in Redis: reads that look there first, then ask the   *)
(* API and write what they got, against the API's updates, which commit and *)
(* then delete the keys. A key expires after a day, or at the daily         *)
(* cleanup, at any time. A row is its version; a rename, which changes the  *)
(* key as well, is an update like any other.                                *)
(***************************************************************************)
EXTENDS Integers, FiniteSets

CONSTANTS
    Professionals, Services,
    Reads,        \* executions of the two workflows
    None,
    MaxUpdates,   \* bound: updates of all rows
    MaxFailures   \* bound: calls that fail

ASSUME CacheAssumption ==
    /\ Professionals \cap Services = {} /\ None \notin Professionals \cup Services \cup Int
    /\ MaxUpdates \in Nat /\ MaxFailures \in Nat

Items == Professionals \cup Services
KindOf(i) == IF i \in Professionals THEN Professionals ELSE Services

VARIABLES
    row,       \* item -> number of updates committed
    entry,     \* item -> its key *_context: None or the version it holds
    update,    \* the items whose update is committed and not yet answered
    read,      \* execution -> node it calls next, what it asks for and what it got
    behind,    \* history: the items written to the cache behind an update
    failures

cacheVars == <<row, entry, update, read, behind, failures>>

NotReading == [pc |-> "idle", item |-> None, fresh |-> FALSE, since |-> 0, got |-> None,
               rows |-> None, left |-> {}]

CacheInit ==
    /\ row = [i \in Items |-> 0] /\ entry = [i \in Items |-> None]
    /\ update = {} /\ behind = {} /\ failures = 0
    /\ read = [r \in Reads |-> NotReading]

ReadAt(r, pc) == read[r].pc = pc
Fail == failures < MaxFailures /\ failures' = failures + 1
Ok == UNCHANGED failures
ReadGoes(r, pc) == read' = [read EXCEPT ![r].pc = pc]
Answer(r, version) == read' = [read EXCEPT ![r].pc = "done", ![r].got = version]

\* The last version that its update's answer has confirmed.
Confirmed(i) == IF i \in update THEN row[i] - 1 ELSE row[i]

Push(r, i, version) ==
    /\ entry' = [entry EXCEPT ![i] = version]
    /\ behind' = IF version = row[i] THEN behind ELSE behind \cup {i}

-----------------------------------------------------------------------------
\* Reports of the two workflows: those that stop, and those that go on.
StopRead(r) == ReadGoes(r, "failed")
ProfessionalsErrorReport2(r) == StopRead(r)
ProfessionalsErrorReport1(r) == StopRead(r)
ProfessionalsErrorReport(r) == StopRead(r)
ServicesErrorReport2(r) == StopRead(r)
ServicesErrorReport12(r) == StopRead(r)
ServicesErrorReport11(r) == StopRead(r)
ProfessionalsErrorReport26(r) == ReadGoes(r, "done")
ProfessionalsErrorReport24(r) == ReadGoes(r, "done")
ServicesErrorReport24(r) == ReadGoes(r, "done")
ServicesErrorReport22(r) == ReadGoes(r, "done")
\* In the list the report leads nowhere and the node that waits for both branches
\* gets one: the caller is left with the report, in which there is no context.
ProfessionalsErrorReport18(r) == Answer(r, None)
ProfessionalsErrorReport27(r) == Answer(r, None)
ServicesErrorReport(r) == Answer(r, None)
ServicesErrorReport1(r) == Answer(r, None)
\* Professionals are then asked of the API; services look for data in the error
\* itself and find no service in it.
ProfessionalsErrorReport25(r) == ReadGoes(r, "get_by_id")
ProfessionalsErrorReport23(r) == ReadGoes(r, "get_by_name")
ServicesErrorReport23(r) == Answer(r, None)
ServicesErrorReport21(r) == Answer(r, None)

Report(r, professionals, services) ==
    \/ read[r].item \in Professionals /\ professionals
    \/ read[r].item \in Services /\ services

-----------------------------------------------------------------------------
\* A read of the item i by its id or name, or of the list i is in.

\* Mutant of FreshId: the wish for the row itself is not looked at.
NeverFresh(r, fresh) == FALSE
FreshId(r, fresh) == fresh

StartRead(r, i, by, fresh) ==
    /\ ReadAt(r, "idle") /\ Ok
    /\ read' = [read EXCEPT ![r] = [NotReading EXCEPT
                  !.item = i, !.fresh = fresh, !.since = Confirmed(i),
                  !.pc = CASE by = "list" -> "get_all"
                           [] by = "name" -> "get_context_2"
                           [] by = "id" /\ FreshId(r, fresh) -> "get_by_id"
                           [] OTHER -> "get_context_1"]]

\* The list: what the cache does not have is written, what it has is left.
GetAll(r) ==
    /\ ReadAt(r, "get_all")
    /\ \/ /\ Ok
          /\ read' = [read EXCEPT ![r].pc = "get_context", ![r].rows = row, ![r].got = row[read[r].item]]
       \/ Fail /\ Report(r, ProfessionalsErrorReport2(r), ServicesErrorReport2(r))
    /\ UNCHANGED <<row, entry, update, behind>>

Compare(r) == {i \in KindOf(read[r].item) : entry[i] = None}

GetContext(r) ==
    /\ ReadAt(r, "get_context")
    /\ \/ /\ Ok
          /\ read' = [read EXCEPT ![r].left = Compare(r),
                                  ![r].pc = IF Compare(r) = {} THEN "done" ELSE "push_context"]
       \/ Fail /\ Report(r, ProfessionalsErrorReport18(r), ServicesErrorReport(r))
    /\ UNCHANGED <<row, entry, update, behind>>

PushContext(r) ==
    /\ ReadAt(r, "push_context")
    /\ \/ /\ Ok
          /\ \E i \in read[r].left :
                /\ Push(r, i, read[r].rows[i])
                /\ read' = [read EXCEPT ![r].left = @ \ {i},
                                        ![r].pc = IF read[r].left = {i} THEN "done" ELSE "push_context"]
       \/ Fail /\ Report(r, ProfessionalsErrorReport27(r), ServicesErrorReport1(r)) /\ UNCHANGED <<entry, behind>>
    /\ UNCHANGED <<row, update>>

HasData(r) == entry[read[r].item] # None

GetContext1(r) ==
    /\ ReadAt(r, "get_context_1")
    /\ \/ Ok /\ IF HasData(r) THEN Answer(r, entry[read[r].item]) ELSE ReadGoes(r, "get_by_id")
       \/ Fail /\ Report(r, ProfessionalsErrorReport25(r), ServicesErrorReport23(r))
    /\ UNCHANGED <<row, entry, update, behind>>

GetById(r) ==
    /\ ReadAt(r, "get_by_id")
    /\ \/ Ok /\ read' = [read EXCEPT ![r].pc = "push_context_1", ![r].got = row[read[r].item]]
       \/ Fail /\ Report(r, ProfessionalsErrorReport1(r), ServicesErrorReport12(r))
    /\ UNCHANGED <<row, entry, update, behind>>

PushContext1(r) ==
    /\ ReadAt(r, "push_context_1")
    /\ \/ Ok /\ Push(r, read[r].item, read[r].got) /\ ReadGoes(r, "done")
       \/ Fail /\ Report(r, ProfessionalsErrorReport26(r), ServicesErrorReport24(r)) /\ UNCHANGED <<entry, behind>>
    /\ UNCHANGED <<row, update>>

GetContext2(r) ==
    /\ ReadAt(r, "get_context_2")
    /\ \/ Ok /\ IF HasData(r) THEN Answer(r, entry[read[r].item]) ELSE ReadGoes(r, "get_by_name")
       \/ Fail /\ Report(r, ProfessionalsErrorReport23(r), ServicesErrorReport21(r))
    /\ UNCHANGED <<row, entry, update, behind>>

GetByName(r) ==
    /\ ReadAt(r, "get_by_name")
    /\ \/ Ok /\ read' = [read EXCEPT ![r].pc = "push_context_2", ![r].got = row[read[r].item]]
       \/ Fail /\ Report(r, ProfessionalsErrorReport(r), ServicesErrorReport11(r))
    /\ UNCHANGED <<row, entry, update, behind>>

PushContext2(r) ==
    /\ ReadAt(r, "push_context_2")
    /\ \/ Ok /\ Push(r, read[r].item, read[r].got) /\ ReadGoes(r, "done")
       \/ Fail /\ Report(r, ProfessionalsErrorReport24(r), ServicesErrorReport22(r)) /\ UNCHANGED <<entry, behind>>
    /\ UNCHANGED <<row, update>>

ReadStep(r) ==
    \/ GetAll(r) \/ GetContext(r) \/ PushContext(r)
    \/ GetContext1(r) \/ GetById(r) \/ PushContext1(r)
    \/ GetContext2(r) \/ GetByName(r) \/ PushContext2(r)

-----------------------------------------------------------------------------
\* The API: an update is answered after its keys are deleted, or three
\* attempts to delete them failed.

CommitUpdate(i) ==
    /\ i \notin update /\ Cardinality({change \in Items \X (1..MaxUpdates) : change[2] <= row[change[1]]}) < MaxUpdates
    /\ row' = [row EXCEPT ![i] = @ + 1] /\ update' = update \cup {i}
    /\ Ok /\ UNCHANGED <<entry, read, behind>>

\* Mutant of Patterns: the pattern matches no key.
NoPattern(i) == {}

\* Every service's key, or the keys of that professional only.
Patterns(i) == IF i \in Services THEN Services ELSE {i}

InvalidatePatterns(i) ==
    /\ i \in update /\ update' = update \ {i}
    /\ \/ Ok /\ entry' = [j \in Items |-> IF j \in Patterns(i) THEN None ELSE entry[j]]
       \/ Fail /\ UNCHANGED entry
    /\ UNCHANGED <<row, read, behind>>

Expires(i) ==
    /\ entry[i] # None /\ entry' = [entry EXCEPT ![i] = None]
    /\ Ok /\ UNCHANGED <<row, update, read, behind>>

ApiStep == \E i \in Items : CommitUpdate(i) \/ InvalidatePatterns(i) \/ Expires(i)

-----------------------------------------------------------------------------
\* Properties.

\* A read that starts after an update was answered sees that update: what it gets
\* is no older, unless the cache was written behind an update or a call failed.
ReadsSeeUpdates ==
    \A r \in Reads : ReadAt(r, "done") /\ read[r].got # None /\ failures = 0 /\ read[r].item \notin behind =>
        read[r].got >= read[r].since
=============================================================================
