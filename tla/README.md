# Beautyflow API: models, checks and proofs

Beautyflow is a booking back end for beauty salons: a FastAPI application over
PostgreSQL and Redis, driven by an admin panel and by n8n workflows that talk to
clients on WhatsApp through the Evolution API. This directory holds TLA+ models of
its logic, the TLC configurations that check them on small instances, and TLAPS
proofs of what matters most. Paths below are relative to the repository's `src/src/`
unless they say otherwise. `PROJECT.json` is the index: components, runs, the lines
each definition models, hazards, findings and theorems.

## 1. Inventory

Every HTTP request runs in one SQLAlchemy session, hence in one READ COMMITTED
transaction at a time (`core/database.py`). Sync handlers run in a thread pool, async
ones on an event loop, and several worker processes may serve: any two requests can
interleave between any two statements or awaits. Components meet in the database
tables, in Redis, in the Evolution API, and through n8n, which calls the API over HTTP.

| Component | State | Operations | Hard behaviour | Correct when | Model |
| --- | --- | --- | --- | --- | --- |
| Appointments (`services/appointment_service.py`) | `appointments` | create, update, complete, confirm, cancel, delete | reads before it locks; column-wise UPDATE; exclusion constraint; autoflush | nobody is booked twice, closed time is free, closed appointments stay closed | `Scheduling` |
| Schedule blocks (`services/schedule_block_service.py`) | `schedule_blocks` | create, cancel | no constraint spans blocks and appointments | active blocks meet neither each other nor bookings | `Scheduling` |
| Reminders (`services/appointment_reminder_service.py`, `src/workflows/appointments-prod.workflow.ts`) | `appointment_reminders` | schedule, skip, recalculate (always fails), claim, mark sent, mark failed | appointments read without a lock; leases, retries, late and lost answers, a consumer that may die | a confirmed start has its reminder; attempts bounded, none stuck, a record of delivery is true | `Reminders` |
| Availability (`services/availability_service.py`) | `availabilities` | slots, suggestions, create, update, delete | arithmetic on clocks, gaps and intervals | offers exactly what a booking accepts | `Slots` |
| Evolution instance (`services/evolution_instance_service.py`) | one row per business; the remote instance | provision, status, QR code, logout, delete | awaits between read and save; calls that fail after they took effect | no instance without a row, no phone without a webhook | `EvolutionInstance` |
| Business settings (`services/business_service.py`) | opening hours, plan, limits | update | hours computed twice, in Python and in JavaScript | both programs agree; the promised opening is the first one | `BusinessHours`, `Attendance`, partly |
| Context caches (`services/redis_cache_invalidator.py`, `src/workflows/{businesses,professionals,services,cache-cleanup}-prod`) | Redis keys | fill, invalidate, clean up | commit, then invalidate; a fill may come late | an answered update is seen by every later read | `Attendance`, `ContextCache`, partly |
| Message buffer (`src/workflows/main-prod.workflow.ts`) | `chat_buffer`, `chat_block`, `personal_block` | push, read, wait, decide, answer, delete | an execution per message, all at once; a failed call may have taken effect | no message is lost or answered twice, silence is explained | `MessageBuffer`, `ErrorReports` |
| Chat state (`main-prod`, `clients-prod`, `pending state-prod`) | `state`, `outside_hours_context`, `client_context`, clients in the API | notice out of hours, question for the name, hourly resume; the panel stores and names clients | one key, three writers; several writes per step, each may fail | nobody waits unknowingly or for no opening; a message is not stored as a name | `ChatState` |
| Appointment tool (`src/workflows/appointments-prod.workflow.ts`) | a claim per mail, the sent folder | book, move, cancel, read; mail the professional | repeated and overlapping calls, stale contexts, failing mail | each change mailed once, to the current address | `AppointmentTool` |
| Error workflow (`src/workflows/error-prod.workflow.ts`) | none | classify, tell | a report it cannot read | the right people are told | `ErrorReports` |
| Authentication (`services/auth_service.py`, `user_service.py`) | `user_refresh_tokens`, users | login, refresh, revoke, change password, deactivate | rotation against revocation | a session ends when its user says so | no (section 6) |
| Rate limiter (`middlewares/rate_limit.py`) | Redis counters, a local dictionary | dispatch | INCR and EXPIRE are two calls; fallback | at most the limit per window | no (section 6) |
| Professionals, services, clients, links | one table each | create, update, deactivate | other components read them | one-row edits | as updates in `ContextCache`, creation and naming of clients in `ChatState`, inputs elsewhere |
| Integrations, scope, admin panel, health, logging, migrations, templates | none, or pure I/O | - | - | - | no |

How they interact. An appointment request writes its row and, in the same transaction,
inserts, revives or skips reminders. Business settings feed all three: the cancellation
limit says how long before the start a reminder is due, the slot settings decide what is offered and what a
booking accepts. The n8n execution claims reminders over HTTP, sends them through the
business's Evolution instance and reports each result. Every write of business data is
followed by an invalidation of the caches n8n reads from. A client's message passes the
gates of `main-prod` (blocks, attendance, the chat's state), joins the buffer, and is
answered by one of the executions of its burst, whose agent may call the appointment
tool; what fails on the way goes to the error workflow.

## 2. Modules

| Module | Content |
| --- | --- |
| `Scheduling` | the two tables, open transactions and their locks; one action per operation and per statement that can wait |
| `Calendar` | abstract specification: book, move, settle, shut, reopen, one change at a time |
| `SchedulingRefinement` | the committed tables read as a `Calendar` (refinement mapping) |
| `SchedulingInvariant`, `SchedulingProofs` | the inductive invariants of open transactions, without and with the locks they hold; theorems, the refinement of `Calendar` among them |
| `Reminders` | the outbox, the requests that fill and empty it, the n8n executions |
| `RemindersInvariant`, `RemindersProofs` | the inductive invariants; theorems |
| `Slots`, `SlotsProofs` | the algorithms of `get_slots` and `check_and_suggest` as operators over an agenda that every writing operation changes; theorems |
| `EvolutionInstance` | the handlers cut at their awaits, the remote instance, the phone |
| `EvolutionInvariant`, `EvolutionProofs` | the inductive invariant; theorems |
| `BusinessHours` | opening hours, attendance and the next opening, once as the backend computes them and once as the guard of `main-prod` does |
| `Attendance`, `AttendanceProofs` | `BusinessHours` under a clock, with the business row, its cached context, updates, invalidation and the guard; theorems |
| `ErrorReports` | whom the error workflow tells of which error |
| `MessageBuffer` | the executions of one chat's messages, composed with `ErrorReports` |
| `MessageBufferInvariant`, `MessageBufferProofs` | the inductive invariants; theorems |
| `ChatState` | who writes a chat's state: notice, question for the name, hourly resume |
| `ChatStateInvariant`, `ChatStateProofs` | the inductive invariants; theorems |
| `ContextCache` | the cached contexts of professionals and services, their readers and updates |
| `AppointmentTool` | the calls of the tool, composed with `ContextCache` |
| `AppointmentToolInvariant`, `AppointmentToolProofs` | the inductive invariants; theorems |
| `MCScheduling`, `MCReminders`, `MCRemindersCounted`, `MCSlots`, `MCEvolution`, `MCAttendance`, `MCMessageBuffer`, `MCChatState`, `MCAppointmentTool` | small instances for TLC |

`MessageBuffer` extends `ErrorReports`, `Attendance` extends `BusinessHours`, and
`AppointmentTool` extends `ContextCache`: they are compositions. The other seams are
stated where they are cut.
`Scheduling` takes opening hours, links and slot alignment as the constant `Bookable`
(they are checked before anything is locked and can only refuse). `Reminders` cuts the
requests of `Scheduling` where they load and where they flush, and leaves out whether the time is
free. `Slots` makes every operation one step, since `Scheduling` covers what happens when they
overlap. `MessageBuffer` has the calls of a notice out of hours and of the question for a
name with what they do to the buffer; `ChatState` says when they are made and what they do
to the chat's keys, and takes it that a message which passes is answered.

### Scheduling

State: `appointments` and `blocks` are the committed rows; `schedule_lock` is the holder
of `pg_advisory_xact_lock` for each professional (`services/scheduling_lock.py`); `tx` holds
for each open transaction its position, operation, row id, the row *as it read it* and
the row it wants to write. A request goes `CreateAppointment` / `UpdateAppointment` / ...
(read and validate), `LockSchedule` (lock, then query the blocks, and for a block also
the bookings), `InsertAppointment` / `WriteAppointment` / `InsertBlock` / `WriteBlock`
(flush: row lock and exclusion constraint, which waits for uncommitted rivals), `Commit`.
`MergeAppointment` is what the ORM's UPDATE does: only columns that differ from the
loaded ones are written. `FlushedByQuery` says when the UPDATE of `update` is sent by an
autoflush instead of the guarded commit. `Crash` may end any transaction before its commit. PostgreSQL enters a row in the index of the
exclusion constraint before it checks it, so that two writers may find each other; in the
model one of them comes first.

### Reminders

State: the clock `now`, the reminder distance `lead` (`cancel_limit_hours + 6`), the
committed rows, the open API `request`s, the n8n executions `worker`, and the history
variables `handed` (reminders a claim has handed out), `delivered` (messages each
reminder brought to the client), `overlap` (two requests were open at once) and `mixed`
(appointments whose row was left with columns of two requests). A request first loads its
appointment, without a lock, and decides on the row it wants (`Load`, called by
`CreateAppointment`, `UpdateAppointment`, `ConfirmAppointment`, `CloseAppointment`, `ManualReminder`).
Its first query on the reminders flushes the UPDATE of the columns it changes (`FlushScheduled`,
`FlushClosed`, `QueryManual`): from then on it holds the appointment's row (`Holds`), unless it
changes nothing, and has read the reminders, those to skip `FOR UPDATE`. `CommitRequest`
writes, `AbortRequest` may end it anywhere. A worker does
`Claim` (one transaction: clean-up, claim with SKIP LOCKED, terminal failures), `Send`
(each item with the node's retries; a lost answer may hide a delivered message), then
for each item `ReadSent` or `ReadFailed` and `CommitReport`, because `mark_sent` and
`mark_failed` read the row without a lock and write it later. `answered = FALSE` is a
report whose answer is lost, so that it is made again. The send node is taken to hand on its
items one by one; which clients lack a phone is left open. `lead` does not change: the request
that would change it fails (section 3).

### Slots

`SlotsForDate`, `BuildGaps`, `GenerateSlots`, `AlignToSlot` and `CheckAndSuggest` are the
functions of those names; `Bookable` is `_validate_appointment`. One professional, one
time zone without clock changes, ticks of a quarter of an hour. Whether booking is
enabled and everybody active is checked the same way on both sides and is left out.
The loop of `_build_gaps` over the sorted items is a set: each item closes the stretch from
the cursor that the items before it leave (`Cursor`), and equal starts add an empty one.

### EvolutionInstance

State: the `row` of the business, the `remote` instance (its state, whether its webhook
is set, whether a QR code of it is on a screen), the open `request`s with the row they
read and the state they will save, and the history variable `overlap`. One action per
call of the Evolution API: the call may take effect and answer, take effect and lose its
answer, or do nothing (`EvolutionClient._request` turns all failures into
`EvolutionAPIError`). `Save` and `SaveError` are UPDATEs that only name a changed column
and fail if the row is gone. `Scan`, `CodeExpires` and `Disconnect` are the phone.
The link of a business to its integrations does not change, and a closed instance is
taken to open again through a QR code only.

### BusinessHours and Attendance

A moment is a day of the week and a minute. `IsOpenAt` and `AttendanceStatusAt` are the
backend (`models/business_model.py`), `IsOpenNow`, `GetNextOpenAt`, `GetCurrentCloseAt` and
`FallbackAllowed` the JavaScript of the node `BusinessHoursGuard`. In `Attendance` an
execution reads `business_context` from Redis (`GetContext`), or asks the API
(`GetBusiness`) and writes what it got (`PushContext`, with a lifetime), and then decides
(`Guard`). `CommitUpdate` and `InvalidateBusinessContext` are the two steps of an update;
the deletion may fail, which the code only logs. `Tick` moves the clock, ages the
context and lets it expire. The history variable `behind` says that something was pushed that
an update had changed since it was read.

### MessageBuffer

Per message an execution `run[m]`: the node it is at, what it read and will answer. Each
action is one node that calls something, with its error output; the nodes between are
operators of the same name. `GetBuffer1`, the wait, and `GetBuffer2` with
`CompareBuffers` are the debounce: only an execution that finds the buffer as it left it
answers all of it. `StopAndError` ends an execution and sends a report, which
`ErrorTrigger` turns into an apology if `ErrorReports` has one for the client. A push that
failed may have been carried out, a failed read goes on empty. What a message is
classified as is any of six routes; the list of services or professionals is read on its own
route, the appointments of a client after the client. A message out of hours takes
`GetOutsideHoursPending`, and if the client is to be told, `SetOutsideHoursPending`,
`DeleteNoticeBuffer` and `SendNotice`: the notice is sent the way of every answer, which
deletes the buffer first. `ClientUpdate` is a name given in the panel. The history variable `overlap`
says that executions came in each other's way: a message was pushed while another
execution read or answered, a name was taken while messages waited or given in the panel while the
bot asked for it, or a notice out of hours deleted waiting messages or wrote a state that cut an
answer off. The wait makes the first unlikely, and nothing makes any of it impossible.

### ChatState

Per chat the keys `state`, `outside_hours_context` and `client_context` and the client in
the API, per message an execution, and the hourly resume. A refused message sets state
and context in two calls and then sends the notice; a nameless client is asked and the
state is set after the message is sent. `ClientCreate`, `ClientUpdate` and
`InvalidateFromPanel` are the panel and the API's other callers, who know nothing of the state.
The resume takes any one waiting chat (the first of `KEYS`) and ends if that one is not due. For
a due chat it reads the state: with one, the send fails and the resume is over, without one
the context is deleted. `StateExpires` and `ContextExpires` are the lifetimes, a day and a week. The
histories `noticed`, `stale` and `raced` record what a chat was told and what was written
although it had changed since it was read.

### ContextCache and AppointmentTool

A row is the number of its updates, a cached context the number it shows. An update
commits and deletes the keys of its item, of which any call may fail; a read looks in
Redis, else asks the API and writes; a request for a fresh context (`FreshId`) skips the
first. A call of the tool validates, writes the appointment, reads the service from the
cache and the professional fresh, and then mails: `EventKey` names message, change and
start, `FindSentNotification` searches the sent folder, `ClaimNotification` increments
the claim, `SendEmail` sends and reports a failure. A claim lives five minutes, longer
than the calls from the search to the mail, and may expire at any other time.

## 3. Runs

At most two requests and two executions are open at once in every run but `bursts`: each known
hazard is a race of two actors, and each rule compares two rows or two keys. Times and
settings are sets of two to four values in which each comparison of the code comes out
both ways, at equality too. The third message of `bursts` is the business's own, which
blocks the chat while two others race.

| Run | Instance | Shows |
| --- | --- | --- |
| `appointments` | 2 requests, 2 appointments, 2 professionals, services of 1 and 2 minutes, up to 4 bookable triples | `NoDoubleBooking`, that whoever waits waits for a request that is further on (`WaitsForLater`), and that every commit is a step of `Calendar` |
| `blocks` | 2 requests, 1 appointment, 2 blocks, 4 periods, one editor per appointment | `BlockedTimeFree`, `BlocksDisjoint` |
| `requests` | 2 requests, 1 appointment to confirm, 1 block, fairness | `RequestsEnd` (no circle of waits), `ClosedStaysClosed`, `ConfirmationKept` |
| `reminder_races` | 2 executions, 2 requests, 3 reminders, 2 starts, 2 attempts of 2 tries, in three scenarios: requests that create and confirm for one start and executions all at once, followed up to 3 deliveries; requests alone that also move and cancel; executions at once with requests in turn that create and cancel | `StartsHaveReminders`, `ScheduleNeverClashes`, `SentWasDelivered`, `SentUndoneOnlyByStaleRead`, `DeliveriesCounted`, `WaitingStaysCurrent` |
| `reminders_settled` | 2 starts, 2 reminders, 1 request, 1 execution, fairness, in two scenarios: appointments that are moved and confirmed, or that start at the horizon, get reminders by hand and are closed | `EventuallySettled`, `WaitingIsCurrent` |
| `slots_offered` | 3 dates, hour of 4 and day of 12 ticks, week of 2 days, intervals of 15, 30, 45 minutes, notices up to past midnight, a block across midnight | offers and suggestions are exact: `OffersKeepRules`, `BookableIsOffered`, `SuggestionsComplete`, `OffersStand` |
| `whatsapp_instance` | 2 requests, 2 integrations, 2 keys | `NoOrphan`, `WorksForOwner`, `OpenHasWebhook` when no delete overlaps another request |
| `attendance` | all opening hours of a week of 2 days of 3 minutes, all plans, 1 update to 2 schedules, 1 failing call, a context of 3 ticks | `HoursAgree`, `PromiseIsFirst`, `UpdateReaches`, `EventuallyFresh` |
| `bursts` | an audio and a quoting text of a client, a text of the business, in or out of hours, the client named or not, 1 failing call | `NothingLost`, `AnsweredOnce`, `SilenceExplained`, `EventuallyAnswered` |
| `chat_state` | 1 chat, 2 messages (one with a name), 2 openings, 1 failing call | `QuestionClosed`, `DroppedChatsWait`, `WaitingKnows`, `NoticedOnce` |
| `tool` | 2 executions of one message, 2 starts, 1 professional, 1 service, 1 update, 1 failing call | `ReadsSeeUpdates`, `RecipientCurrent`, `MailedOnce`, `EveryChangeMailed`, `LastMailTrue` |
| `merged_update` | smallest instance that shows it | the finding below |

Clock, ids, updates, openings and failures are the bounded quantities, each a constant
of its module or of its MC module. `Horizon` bounds the clock of `Reminders` (long enough
for all attempts, each one lease), `Times` and `Days` that of `Slots`, the id sets the rows
ever inserted; one failure is enough to reach every error output, at any node; one
update, because what a reader can hold is either older or not. Two days of three minutes have
intervals at either end of a day, one in the middle, and a next opening over the end of the week.
The scenarios of `reminder_races` and `reminders_settled`, told apart by `lead`, are the action
constraints `Scenarios` of `MCRemindersCounted` and `MCReminders`: they restrict who opens a request for
what and how far a run is followed, not what the actions do. In the third of `reminder_races` no
reminder is started over and no requests overlap, so there `DeliveriesCounted` and
`WaitingStaysCurrent` hold without their exemptions; the first two are those in which requests read what
others are about to change. Deadlock is checked except where executions simply end (`bursts`,
`chat_state`, `tool`).

Symmetry is used only in runs without liveness. `blocks` uses `SerialSpec`, the program
whose clients never edit one appointment from two requests at once: without that
assumption `BlockedTimeFree` is false (`merged_update`).

What the properties exempt, and why, is part of what they say. `StartsHaveReminders` and
`ScheduleNeverClashes` exempt an appointment whose row was left with columns of two requests (`mixed`),
which happens (below); all other overlaps of requests they cover. `NothingLost`, `AnsweredOnce`,
`SilenceExplained` and `EventuallyAnswered` hold of executions that do not come in each other's way
(`overlap`): the node waits instead of locking, and a notice out of hours deletes what waits.
`AnsweredOnce` exempts a buffer that could not be deleted (`kept`): the code reports it
and goes on. The properties of `ChatState` exempt a chat of which something was overwritten
that had changed since it was read, or a failed call (`Excused`): each answer consists of several
writes without a transaction. So they say what the undisturbed orders of messages, openings, resumes and
expiring keys can do, and not what a failure leaves. `UpdateReaches` and `ReadsSeeUpdates` exempt a context written
behind an update (`behind`) and a failed deletion: both last until the key expires, which is
what `EventuallyFresh` bounds. `MailedOnce` exempts a search or claim that failed
(`unguarded`): the workflow then mails rather than not.
`DeliveriesCounted` exempts the step by which a request starts a reminder over that had failed or been
skipped (`StartsOver`): its attempts begin at 0 again, as the code means them to. `WaitingStaysCurrent`
speaks of the time before two requests are open at once (`overlap`).
`LastMailTrue` speaks of calls one after the other (`overlap`) that fail nowhere, and
not of a message that makes the same change twice with another between (`repeated`),
which has one event key.

### Findings

`merged_update`: `update()` reads the row before it takes the lock and writes only
changed columns. Two updates of one appointment, one changing the professional and
one the time, lock different professionals and commit a mixture neither validated,
inside an active block.

Five more defects are reproduced by configurations that no run lists; TLC violates the
property named here:

| Configuration | Property | Defect |
| --- | --- | --- |
| `Scheduling_final.cfg` (`MCScheduling`) | `CompletedIsFinal` | a status change checks the status long before it writes (`services/appointment_service.py:455`); a cancel that read first overwrites a completion |
| `Scheduling_conflict.cfg` (`MCScheduling`) | `ConflictReported` | the first reminder query of `update()` autoflushes the UPDATE (`services/appointment_service.py:414`), so the exclusion violation is raised outside `_commit_or_raise_conflict` and ends as 500 instead of 409 |
| `Slots_aligned.cfg` (`MCSlots`) | `SuggestedIsAligned` | offers are aligned to the minute of the hour, bookings to the minutes since midnight (`services/availability_service.py:112`): with an interval that does not divide 60, starts are offered that a booking refuses |
| `Attendance_followed.cfg` (`MCAttendance`) | `AttendanceFollowed` | the backend's attendance status is cached with the context for a day (`src/workflows/businesses-prod.workflow.ts:259`) and obeyed by the guard (`main-prod.workflow.ts:4894`): a business that has closed or opened since is judged by the old moment, while `tests/test_n8n_workflows.py:23` has the guard follow the backend |
| `ChatState_due.cfg` (`MCChatState`) | `ResumesAllDue` | the hourly resume looks at the first of the waiting chats only and ends if that one is not due (`pending state-prod.workflow.ts:328`); if it is, the send takes instance and recipient from the output of the Redis get before it (`:434`), which holds the state alone, and fails: no chat in a state is ever resumed, though its notice said "as soon as" (`main-prod.workflow.ts:5047`) |

Known defects that the models reach, each exempted by the history variable named and by nothing else:

- `Reminders`, `mixed`: `confirm` and `update` load the appointment without a lock
  (`services/appointment_service.py:382`, `:440`) and decide on its reminder by what they loaded. A confirm
  that loaded the old start while a pending appointment is moved leaves a confirmed row whose
  start has no reminder. Two later confirms that change nothing send no UPDATE, so nothing makes the
  one wait for the other, and both insert the same reminder: one ends on the unique index.
- `Reminders`, `overlap`: an update that changes nothing, but loaded the appointment before another one
  moved it, sets the skipped reminder of the old start back. `handed`: a late report of a failure
  does the same to a reminder that was skipped while it was sent.
- `MessageBuffer`, `overlap`: the notice out of hours goes on to `DeleteBuffer`
  (`main-prod.workflow.ts:7274`, `:7213`), so a message that still waits there when the business closes
  is deleted, and its execution, finding another buffer, ends without an answer. The state
  written with the notice also cuts off an answer that is not yet past `HasPending1`.
- `ChatState`, `raced`: the question's state is written after the message is sent
  (`clients-prod.workflow.ts:672`), over the deletion by an execution that took the name meanwhile.

And three that need no race. A client that is named in the panel or through the API
(`services/client_service.py:96`) while the bot waits for the name stays in `awaiting_name`, and its next
message is stored as its name: `QuestionClosed` speaks of names given in the chat. A chat out of hours
whose resume fails keeps its state, and its messages are dropped, for up to a week. A change of
`cancel_limit_hours` always fails: its recalculation (`repositories/appointment_reminder_repo.py:135`)
asks for `FOR UPDATE` over the outer join of `joinedload`, which PostgreSQL refuses, and the update of
the business is rolled back; so `Reminders` has no such step.

Not findings, because no line of the repository promises otherwise, but stated as
hazards: the minimum notice is applied to offers of the current date only; a stale
request or report can take back the record of a delivery (so "sent is final" is false, and
`SentUndoneOnlyByStaleRead` says what is true); a provision that overlaps a delete can
leave a remote instance without a row; a client's quotation mark makes the report of a
failure unreadable, so that nobody apologises.

## 4. Fairness

- `Scheduling`: `SF(Progress(t))` for each transaction. PostgreSQL grants advisory and row
  locks in the order they were asked for, so a wait that can end again and again does
  end. Nothing is assumed of clients, and crashes are never forced nor excluded.
- `Reminders`: the clock runs; a request ends, by commit or abort; an execution that is
  alive goes on, and its report gets the row lock in the end; answers are not lost for
  ever, since n8n tries each call three times. `SF(QuietClaim(w))`: requests last
  seconds, claims come every hour, so some meet no request. Nothing says that a send
  succeeds or that an execution is not killed.
- `MessageBuffer`: n8n runs a started execution to its end (`WF(Step(m))` past its first
  node) and starts the error workflow for each report. No message has to come.
- `Attendance`: the clock goes on. Neither reads, updates nor invalidations need to
  happen: the context ends by its age alone.
- `Slots`, `EvolutionInstance`, `ChatState` and `AppointmentTool` have no liveness property. That of
  `ChatState` would be that a waiting chat is resumed, which the code does not do (section 3).

## 5. Proofs

All constants are arbitrary: any number of requests, rows, professionals, services, intervals,
workers, attempts, times, messages, chats, calls, updates and failures. Assumptions are the
`ASSUME`s of the modules (times are integers, durations positive, the "no row" values are
not rows, a message has one of four kinds) and nothing else. Each inductive invariant was
checked by TLC before it was proved: `Scheduling_lock.cfg` (`MCScheduling`), `ChatState_inv.cfg`
(`MCChatState`), `Reminders_inv.cfg` (`MCReminders`), `MessageBuffer_inv.cfg`
(`MCMessageBuffer`) and `AppointmentTool_inv.cfg` (`MCAppointmentTool`) repeat that for five of them.

`SchedulingProofs`. `NoDoubleBooking` is not inductive: it says nothing of the rows open
transactions have written but not committed. `IInv` adds what they keep true between
their steps: a transaction carries a row of the table it works on (`Carries`), the key of
an insert is its own (`InsertsAlone`), no two transactions have written versions of one
row (`RowLocksExclude`), a written row fits all committed and all other written rows
(`WrittenFits`, the exclusion constraint), and a request moves status and confirmation
one way only (`MovesForward`). There is one lemma per kind of step. Theorems:
`InductiveInvariant`, `TypeCorrect`, `NobodyBookedTwice`, and from `MovesForward` at the
commit, `ClosedForGood` and `ConfirmedForGood`. They hold under `Spec`, with any number of editors.

Which request holds a professional's lock is not in `IInv`, since bookings do not need it.
Blocks do: `BlocksInv` says that a new block that is through its check holds the lock of its
professional and stays clear of all committed blocks (`BlockChecked`), that its key is its
own (`InsertsBlockAlone`) and that the other block operation only ends blocks
(`WantsStatus`). It is inductive relative to `IInv` under `Spec`. `SerialInv` is about both tables and needs
`OneEditorPerAppointment`: an edit still sees the slot the table has (`EditsCurrentSlot`), the
other operations write the slot they found (`KeepsSlot`), a checked booking stays clear of blocks
and a checked block of bookings (`BookingChecked`, `BlockSparesBookings`), each under the lock.
Deadlock is a safety property and is proved: `WaitsForLater` says that an open request goes on
at once (`GoesOn`) or waits for another one (`WaitsFor`: the holder of the advisory lock, of a row, or
an uncommitted rival), and that whoever is waited for is at a later `Stage` (lock, then write, then
end). It needs `HoldersOpen`, that the holder of a lock is open and past its queries, besides `IInv`.
Stages only rise, so waiting is no circle, some open request goes on (`SomebodyGoesOn`), and each
step of a request leads on or ends it (`OnlyForward`). Theorems: `WaitingIsNoCircle`,
`NeverAllWaiting`, `StepsLeadOn`. That `GoesOn(t)` is `ENABLED Progress(t)`, which the prover cannot
say, TLC checks in `Scheduling_lock.cfg` (`GoesOnMeansProgress`); with it and the fairness of
section 4 the three are the argument for `RequestsEnd`.
For `Calendar` every commit is matched with its operation: the written row fits by
`NoDoubleBooking'`, `BlocksDisjoint'` and `BlockedTimeFree'`, and all else is a stutter. Theorems:
`BlocksInvariant`, `BlocksApart`, `SerialInvariant`, `ClosedTimeStaysFree`,
`ImplementsCalendar`, and `AppointmentsImplementCalendar` for a service without blocks. That the
abstract specification is worth implementing is a theorem too: each of its steps keeps slots apart
that were apart (`CalendarStepKeepsApart`), so nobody is in two places (`NobodyInTwoPlaces`)
in whatever implements it (`CalendarKeepsApart`), the service included (`ServiceKeepsApart`).

`RemindersProofs`. `SentWasDelivered` needs to know that what a worker will report as
sent was delivered (`ReportsFit`), that a request writes only `pending` over a row it read
when it was not sent, or inserts under a key of its own (`WantsFit`), that the rows it
skips are still active rows of the appointment it holds (`SkipsHold`: they are locked), that a request
that has not flushed yet writes nothing and changes what its operation says (`SessionsFit`), and that
no two hold one appointment (`RequestsApart`). `OutboxInv` is their
conjunction. Three more invariants are inductive relative to it. `ScheduleInv` is about appointments
that are not `mixed`: a confirmed start has its reminder (`StartsHaveReminders`), so had the row
a request loaded, however long ago (`ReadsCovered`), and a request that changes the row into another such
one found the reminder of its start or brings it (`RowsCovered`); whoever brings one holds the
appointment, and there is none yet (`FreshWantsAlone`). A request that changes nothing loaded a row that
had its reminder, and reminders never vanish, so it brings none: the case in which the lock would be
missing; hence `ScheduleNeverClashes`. `WaitingInv`: a request skips the
waiting reminders its change makes wrong (`ChangesCover`) and writes one only for the
appointment as it leaves it (`WantsCurrent`); hence `WaitingIsCurrent` of every state, if
requests come one after the other (`[]Alone`), and `WaitingStaysCurrent` up to the first time they do
not. `HoldInv`: an execution that sends nothing holds nothing (`IdleHoldsNothing`), and a request
leaves the attempts it read unless it starts the reminder over (`WantsKeepCount`). Then
`CountStep` compares each step's deliveries and the number of executions that may still send a reminder
with its attempts: a claim adds an attempt for the one execution it adds, a send uses up what that
execution held, and all else leaves the count or lets somebody go. Theorems: `OutboxSafe`,
`OutboxTypeCorrect`, `SentOnlyDelivered`, `SentStays`, `ScheduleSafe`, `StartsAreReminded`, `SchedulesFit`,
`WaitingStays`, `WaitingStaysWhileAlone`, `DeliveriesAreCounted`.

`EvolutionProofs`. All three properties are conditional on `~overlap`. `NoOrphan` and
`WorksForOwner` carry each other through a request that goes on: it works on the row that
is there. A delete needs to be alone (`DeletesAlone`) and to have removed the remote
instance before it removes the row (`RemovesLast`). `OpenHasWebhook` needs to know that a QR
code is asked for or about to be shown only once the webhook is set
(`ScannedAfterWebhook`), although the request that set it may be another one.
`EvolutionInv` is their conjunction. Theorems: `InstanceSafe`, `NeverOrphaned`,
`OwnerWorks`, `ConnectedWithWebhook`.

`AttendanceProofs`. `HoursAgree` follows from the types alone, for every week and day length:
no stored interval reaches over midnight (`OpeningHours`), so the guard's two cases for
such intervals never hold and its third is the backend's test (`IsOpenSame`). `UpdateReaches`
is inductive together with the types: a push is compared with the row when it is made
(`behind`), a commit opens the gap that only the deletion closes. `PromiseIsFirst` is about
the guard's arithmetic: a number of minutes is so many days and so many minutes of a day in
one way only, so a later moment is one weekday and minute (`LaterSplit`); the guard's
candidates, from today to the same weekday next week, are the starts still to come, so
before the least of them everything is unattended (`CloseIsFirst`, `OpeningIsFirst`). That there
is a least one is the well-foundedness of the naturals. Theorems: `AttendanceTypes`, `AttendanceHoursAgree`,
`AttendancePromiseIsFirst`, `AttendanceUpdateReaches`.

`MessageBufferProofs`. `NothingLost` and `AnsweredOnce` are not inductive: that the buffer may be deleted
depends on what all executions have read. `BufferInv` adds, for executions that do
not come in each other's way: of two that wait, the one that pushed first has not read the other's message, and at
most one is between its push and its read (`Window`, so that at most one finds the buffer unchanged);
the buffer is empty or still what a deciding execution took, and no other takes the same
(`Decision`); what was answered has left the buffer (`Cleared`); texts of answers are disjoint
(`Apart`); and every pushed message is in the buffer or in an answer (`Covered`). `Texts`
says what an execution at a node has read, and that a message not yet pushed is nowhere. There is
one lemma per kind of step, and the actions are sorted under them. `SilenceExplained`
speaks of the chat at rest, `SilenceInv` of how it got there: as long as the buffer is not
empty, somebody answers for it (`SomebodyAnswers`): an execution that has yet to read it, has
seen it as it is, has taken all of it, or failed on the way; whoever failed is heard of, by a report under
way, an apology, or one of the reasons not to be (`FailureHeard`); and a chat asked for a name has
none, so that an execution which the question diverts has itself asked it (`NameAsked`,
`AskedReplied`). At rest only the answered, the spam and the failed are left
(`SilenceHasReason`). The attempt to prove it corrected the model, which kept no record of
an apology that could not be sent: with one failure TLC could not tell, with two the
property was false. The safety half of `EventuallyAnswered` is proved as well: each step of an
execution raises its `Stage`, and nobody else touches it (`ExecutionsLeadOn`), so it is over after at most
as many steps as there are stages; and when the started executions are over, none came in another's way and no
call failed (`FailuresCounted` relates the count to what stopped), every pushed message is
answered or spam (`AnsweredAtRest`). What is left to TLC is that a started execution
always has a next step (`NobodyWaits`, of `ENABLED`, in `MessageBuffer_inv.cfg`) and that fairness
takes it. Theorems: `BufferAlways`, `BufferNothingLost`, `BufferAnsweredOnce`,
`BufferSilenceExplained`, `BufferLeadsOn`, `BufferAnsweredAtRest`.

`AppointmentToolProofs`. `MailedOnce`: a call about to mail holds the claim of its event
key, which no other such call has and no sent mail carries, and a call that passed the search before
the mail was sent finds the claim still held (`MailInv`). `RecipientCurrent`: the address a call
holds was read fresh, after the update it must see (`CurrentInv`), since the professional
is asked for with `FreshId` and versions only grow. `ReadsSeeUpdates` needs what a key holds as
well as what a read holds (`EntryCurrent`, `ReadCurrent`): an answered update has deleted the
key, and what is pushed later was read later or counts as behind. `EveryChangeMailed`: a
claimed change is mailed or about to be (`ChangesInv`), so whoever finds a claim or a sent
mail may end. `LastMailTrue` says in addition that as long as nothing overlaps only the
running call is unmailed (`LastInv`). Theorems: `ToolMailedOnce`, `ToolRecipientCurrent`,
`ToolReadsSeeUpdates`, `ToolEveryChangeMailed`, `ToolLastMailTrue`.

`ChatStateProofs`. `WaitInv` holds of every chat without excuse. `DroppedChatsWait` (`Found`) needs to know
that the context the resume is about to delete is the one it found due, and that a chat then in the
state out of hours is about to get another context (`ResumeFollows`): the state may be written between
the resume's read and its deletion. `NoticedOnce` needs that of an opening still to come
only the execution that wrote the context tells, or has told (`ToldOnce`). `QuestionClosed` rests on
`QuestionInv`: an execution that is not `stale` knows its chat's state (`Knows`), so one
that takes a name and one that asks anew cannot both pass without one of them racing; and the
cached client shows no name only until the name is stored (`NoNewQuestion`). A name given in the panel is
none that a message gave, so the invariant says nothing of that chat. Theorems: `DroppedChatsDoWait`,
`WaitingChatsAreTold`, `ToldOfAnOpeningOnce`, `NamedChatsAreNotAsked`.

`SlotsProofs`. The state needs no more than its types; the work is in the algorithms, for
every agenda, even one whose bookings overlap. No item meets a gap (`GapsAreFree`), and
whatever stretch of the window no item meets lies in a gap (`FreeIsInGap`): the one that
ends at the first item after the stretch. A candidate is aligned by less than one interval
(`AlignIs`), so when the interval divides the hour, and the hour the day, the candidates of a
gap are all multiples of the interval that fit in it, from wherever the gap starts
(`MultiplesAdd`, `GenerateIs`). Hence `OfferIs`: `SlotsForDate` names only starts that fit,
and on the regular grid all of them. `OffersKeepRules`, `BookableIsOffered` and
`OffersStand` follow (the last from `OfferIs` before and after the step). For
`SuggestionsComplete` the number of offers below an offer is a one-to-one map onto the places of
`Ascending` (`AscendingIs`); later, earlier and following offers have nothing in common, so
the concatenation names each once (`ConcatEnumerates`), and so does its beginning (`FirstOnes`).
Theorems: `SlotsTypes`, `OffersAreKept`, `NothingIsHidden`, `OffersAreStable`,
`SuggestionsAreComplete`.

Model-checked only: liveness (`RequestsEnd`, `EventuallySettled`, `EventuallyAnswered`,
`EventuallyFresh`), which is out of the prover's reach, and the findings. Of
`RequestsEnd` and `EventuallyAnswered` the safety part is proved. Every other property of a run is a theorem.

## 6. Not modelled

- Refresh tokens and passwords (`services/auth_service.py:110`): their one interaction is the
  rotation of a token against a password change or a deactivation, two short
  transactions on rows of one user, and what must hold of it is a matter of access rather
  than of the booking logic. Token encoding and key files are functions of their input.
- The rate limiter (`middlewares/rate_limit.py:82`): a counter per window and process that
  nothing else reads; that INCR and EXPIRE are two calls matters only if the process
  dies between them.
- The saved status of an Evolution instance may be older than the instance's
  (`services/evolution_instance_service.py:287`). That it comes to show a state that lasts needs the
  fairness of the page that polls, on an instance too large for TLC's liveness check.
- The classifier's and the agent's answers are arbitrary choices; prompts, the rules that
  correct a classification, message texts and templates are left out, and so is the
  availabilities tool, a pure query over what `Slots` models.
- A client is not deactivated, does not lose its name and keeps its phone number
  (`services/client_service.py:96`), so that a chat keeps its client.
- `ContextCache` treats a rename as an update and leaves out that an update of a link deletes
  the contexts of both ends. A read of a client's appointments joins the contexts of the
  first appointment to all (`appointments-prod.workflow.ts:2624`); the model reads one.
- Uniqueness of rows and links, which constraints of single tables decide; scope checks
  and the admin panel's rendering; health, logging, headers, migrations. Time zones with
  clock changes are left out of `Slots` and `BusinessHours`.

Each component's entry in `PROJECT.json` says the same at its place.
