-------------------------- MODULE AttendanceProofs --------------------------
(***************************************************************************)
(* What holds of Attendance for any week, any number of executions and      *)
(* updates: the types, that guard and backend agree on the hours and on the *)
(* next time they attend, and that an update reaches the cached context.    *)
(***************************************************************************)
EXTENDS Attendance, WellFoundedInduction, TLAPS

\* The moment after is a moment: the clock of Tick.
LEMMA LaterMoment ==
    ASSUME NEW m \in Moments
    PROVE  Later(m, 1) \in Moments
<1>1. WeekDays \in Nat \ {0} /\ DayMinutes \in Nat \ {0} BY HoursAssumption
<1>2. m.weekday \in Nat /\ m.minutes \in Nat BY <1>1 DEF Moments, Days, Minutes
<1> DEFINE total == m.weekday * DayMinutes + m.minutes + 1
<1>3. total \in Nat BY <1>1, <1>2
<1>4. total \div DayMinutes \in Nat /\ total % DayMinutes \in 0..DayMinutes - 1 BY <1>1, <1>3
<1> DEFINE days == total \div DayMinutes
<1>5. days \in Nat BY <1>4
<1>6. days % WeekDays \in 0..WeekDays - 1 BY <1>1, <1>5
<1> QED BY <1>4, <1>6 DEF Later, Moments, Days, Minutes

\* The status of any moment has the type of a context's.
LEMMA StatusType ==
    ASSUME NEW hours, NEW plan \in Plans, NEW m
    PROVE  AttendanceStatusAt(hours, plan, m) \in
              [plan : Plans, business_is_open : BOOLEAN, allowed : BOOLEAN,
               block_reason : {None, "inside_business_hours", "outside_business_hours"}]
BY DEF AttendanceStatusAt, IsOpenAt, Plans

-----------------------------------------------------------------------------
\* What a step writes of the run of one execution keeps the part of the type that
\* is about runs, if the context it leaves for the push and the guard is one.
RunOK(r) ==
    /\ r = [e \in Executions |-> [pc |-> r[e].pc, context |-> r[e].context, decision |-> r[e].decision]]
    /\ \A e \in Executions : r[e].pc \in {"push_context", "guard"} => r[e].context \in Context

\* An execution assigned a whole record keeps its type.
LEMMA RunStep ==
    ASSUME NEW r, RunOK(r), NEW e \in Executions, NEW next, NEW pc, NEW context, NEW decision,
           next = [r EXCEPT ![e] = [pc |-> pc, context |-> context, decision |-> decision]],
           pc \in {"push_context", "guard"} => context \in Context
    PROVE  RunOK(next)
BY DEF RunOK

\* A run is a record of its three fields, whichever of them a step rewrites.
LEMMA RunParts ==
    ASSUME NEW r, RunOK(r), NEW e \in Executions
    PROVE  /\ r[e] = [pc |-> r[e].pc, context |-> r[e].context, decision |-> r[e].decision]
           /\ r = [d \in Executions |-> r[d]]
BY DEF RunOK

\* So does one that goes on with its context.
LEMMA GoToType ==
    ASSUME RunOK(run), NEW e \in Executions, NEW pc, GoTo(e, pc),
           pc \in {"push_context", "guard"} => run[e].context \in Context
    PROVE  RunOK(run')
<1> DEFINE c == run[e].context
<1> DEFINE d == run[e].decision
<1>1. [run[e] EXCEPT !.pc = pc] = [pc |-> pc, context |-> c, decision |-> d]
  <2>1. run[e] = [pc |-> run[e].pc, context |-> c, decision |-> d] BY RunParts
  <2> HIDE DEF c, d
  <2> QED BY <2>1
<1>2. run' = [run EXCEPT ![e] = [run[e] EXCEPT !.pc = pc]] BY RunParts DEF GoTo
<1>3. run' = [run EXCEPT ![e] = [pc |-> pc, context |-> c, decision |-> d]] BY <1>1, <1>2
<1> QED BY <1>3, RunStep

\* And one that goes on with another context.
LEMMA HoldType ==
    ASSUME RunOK(run), NEW e \in Executions, NEW pc, NEW context \in Context, Hold(e, pc, context)
    PROVE  RunOK(run')
BY RunStep DEF Hold

\* A failed call counts.
LEMMA FailType ==
    ASSUME failures \in 0..MaxFailures, Fail \/ Ok
    PROVE  failures' \in 0..MaxFailures
BY AttendanceAssumption DEF Fail, Ok

-----------------------------------------------------------------------------
\* Every reachable state of the clock, the business, its context in Redis and the
\* executions that hold one has its type.
THEOREM AttendanceTypes == Spec => []TypeOK
<1> DEFINE Business == [hours : OpeningHours, plan : Plans, version : 0..MaxUpdates]
<1> DEFINE Inv == /\ now \in Moments /\ update \in {"idle", "committed"}
                  /\ business \in Business /\ entry \in Context \cup {None}
                  /\ RunOK(run) /\ behind \in BOOLEAN /\ failures \in 0..MaxFailures
<1>1. Init => Inv
  <2> SUFFICES ASSUME Init PROVE Inv
    OBVIOUS
  <2>1. business \in Business
    BY AttendanceAssumption DEF Init
  <2>2. 0 \in 0..MaxFailures BY AttendanceAssumption
  <2>3. RunOK(run) BY DEF Init, RunOK
  <2> QED BY <2>1, <2>2, <2>3 DEF Init
<1>2. Inv /\ [Next]_vars => Inv'
  <2> SUFFICES ASSUME Inv, [Next]_vars PROVE Inv'
    OBVIOUS
  <2>1. ASSUME NEW e \in Executions, GetContext(e) PROVE Inv'
    <3>1. UNCHANGED <<now, business, entry, update, behind>> /\ (Fail \/ Ok) BY <2>1 DEF GetContext
    <3>2. RunOK(run')
      <4>1. CASE entry # None /\ Hold(e, "guard", entry) BY <4>1, HoldType
      <4>2. CASE GoTo(e, "get_business") BY <4>2, GoToType
      <4> QED BY <2>1, <4>1, <4>2 DEF GetContext, HasData, ErrorReport18
    <3> QED BY <3>1, <3>2, FailType
  <2>2. ASSUME NEW e \in Executions, GetBusiness(e) PROVE Inv'
    <3>1. UNCHANGED <<now, business, entry, update, behind>> /\ (Fail \/ Ok) BY <2>2 DEF GetBusiness
    <3>2. BusinessData \in Context
      BY StatusType DEF BusinessData, Context
    <3>3. RunOK(run')
      <4>1. CASE Hold(e, "push_context", BusinessData) BY <3>2, <4>1, HoldType
      <4>2. CASE GoTo(e, "idle") BY <4>2, GoToType
      <4> QED BY <2>2, <4>1, <4>2 DEF GetBusiness, ErrorReport1
    <3> QED BY <3>1, <3>3, FailType
  <2>3. ASSUME NEW e \in Executions, PushContext(e) PROVE Inv'
    <3>1. UNCHANGED <<now, business, update>> /\ (Fail \/ Ok) /\ GoTo(e, "guard") /\ At(e, "push_context")
      BY <2>3 DEF PushContext, ErrorReport19
    <3>2. run[e].context \in Context BY <3>1 DEF RunOK, At
    <3>3. RunOK(run') BY <3>1, <3>2, GoToType
    <3>4. [run[e].context EXCEPT !.age = 0] \in Context BY <3>2 DEF Context
    <3>5. entry' \in Context \cup {None} BY <2>3, <3>4 DEF PushContext
    <3>6. behind' \in BOOLEAN BY <2>3 DEF PushContext
    <3> QED BY <3>1, <3>3, <3>5, <3>6, FailType
  <2>4. ASSUME NEW e \in Executions, Guard(e) PROVE Inv'
    <3>1. UNCHANGED <<now, business, entry, update, behind>> /\ Ok BY <2>4 DEF Guard
    <3> DEFINE held == run[e].context
    <3> DEFINE decision == BusinessHoursGuard(held.hours, held.plan, held.status, now)
    <3>2. run' = [run EXCEPT ![e] = [pc |-> "decided", context |-> held, decision |-> decision]]
      BY <2>4 DEF Guard
    <3>3. RunOK(run') BY <3>2, RunStep
    <3> QED BY <3>1, <3>3, FailType
  <2>5. ASSUME NEW e \in Executions, Again(e) PROVE Inv'
    <3>1. UNCHANGED <<now, business, entry, update, behind>> /\ Ok BY <2>5 DEF Again
    <3>2. run' = [run EXCEPT ![e] = [pc |-> "idle", context |-> None, decision |-> None]]
      BY <2>5 DEF Again
    <3>3. RunOK(run')
      <4> DEFINE pc == "idle"
      <4>1. pc \notin {"push_context", "guard"} OBVIOUS
      <4>2. run' = [run EXCEPT ![e] = [pc |-> pc, context |-> None, decision |-> None]] BY <3>2
      <4> HIDE DEF pc
      <4> QED BY <4>1, <4>2, RunStep
    <3> QED BY <3>1, <3>3, FailType
  <2>6. ASSUME NEW hours \in Schedules, NEW plan \in Plans, CommitUpdate(hours, plan) PROVE Inv'
    <3>1. business.version + 1 \in 0..MaxUpdates BY <2>6, AttendanceAssumption DEF CommitUpdate
    <3>2. business' \in Business BY <2>6, <3>1, AttendanceAssumption DEF CommitUpdate
    <3> QED BY <2>6, <3>2, FailType DEF CommitUpdate
  <2>7. CASE InvalidateBusinessContext
    BY <2>7, FailType DEF InvalidateBusinessContext
  <2>8. CASE CacheCleanup
    BY <2>8 DEF CacheCleanup
  <2>9. CASE Tick
    <3>1. entry # None => [entry EXCEPT !.age = @ + 1] \in Context BY DEF Context
    <3> QED BY <2>9, <3>1, LaterMoment DEF Tick
  <2>10. CASE UNCHANGED vars
    BY <2>10 DEF vars
  <2> QED BY <2>1, <2>2, <2>3, <2>4, <2>5, <2>6, <2>7, <2>8, <2>9, <2>10 DEF Next
<1>3. Inv => TypeOK BY DEF TypeOK, RunOK, At
<1> QED BY <1>1, <1>2, <1>3, PTL DEF Spec

-----------------------------------------------------------------------------
\* Guard and backend agree on what stored hours mean, for every plan: no interval
\* the services store reaches over midnight, so the guard's two extra cases never hold.
LEMMA IsOpenSame ==
    ASSUME NEW hours \in OpeningHours, NEW m \in Moments
    PROVE  IsOpenNow(hours, m) = IsOpenAt(hours, m)
<1>1. WeekDays \in Nat \ {0} /\ DayMinutes \in Nat \ {0} BY HoursAssumption
<1>2. m.weekday \in Days /\ PreviousDay(m.weekday) \in Days
  BY <1>1 DEF Moments, Days, PreviousDay
<1>3. ASSUME NEW d \in Days, hours[d] # None
      PROVE  /\ hours[d].start \in Int /\ hours[d].end \in Int
             /\ hours[d].start < hours[d].end
  BY <1>1, <1>3 DEF OpeningHours, NormalizeOpeningHourItems, Interval, Minutes
<1>4. hours[PreviousDay(m.weekday)] # None => ~AfterMidnight(hours[PreviousDay(m.weekday)], m)
  BY <1>2, <1>3 DEF AfterMidnight
<1>5. hours[m.weekday] # None => ~OverMidnight(hours[m.weekday], m)
  BY <1>2, <1>3 DEF OverMidnight
<1>6. m.minutes \in Int BY <1>1 DEF Moments, Minutes
<1>7. hours[m.weekday] # None =>
        (SameDay(hours[m.weekday], m) <=> /\ hours[m.weekday].start <= m.minutes
                                          /\ m.minutes < hours[m.weekday].end)
  BY <1>2, <1>3, <1>6 DEF SameDay
<1> QED BY <1>4, <1>5, <1>7 DEF IsOpenNow, IsOpenAt

\* In every reachable state the assistant's guard and the backend agree on whether the
\* business is open and whether its plan lets it be attended.
THEOREM AttendanceHoursAgree == Spec => []HoursAgree
<1>1. TypeOK => HoursAgree
  <2> SUFFICES ASSUME TypeOK PROVE HoursAgree
    OBVIOUS
  <2>1. now \in Moments /\ business.hours \in OpeningHours BY DEF TypeOK
  <2>2. IsOpenNow(business.hours, now) = IsOpenAt(business.hours, now) BY <2>1, IsOpenSame
  <2>3. ASSUME NEW plan \in Plans
        PROVE  FallbackAllowed(business.hours, plan, now)
                 = AttendanceStatusAt(business.hours, plan, now).allowed
    BY <2>2 DEF FallbackAllowed, AttendanceStatusAt, Plans
  <2> QED BY <2>2, <2>3 DEF HoursAgree
<1> QED BY <1>1, AttendanceTypes, PTL

\* Once the deletion that follows an update is done, and did not fail, what the
\* cache holds is what the row holds, unless an older read was pushed meanwhile.
THEOREM AttendanceUpdateReaches == Spec => []UpdateReaches
<1>1. Init => UpdateReaches BY DEF Init, UpdateReaches
<1>2. TypeOK /\ UpdateReaches /\ [Next]_vars => UpdateReaches'
  <2> SUFFICES ASSUME TypeOK, UpdateReaches, [Next]_vars PROVE UpdateReaches'
    OBVIOUS
  <2>1. failures \in Nat BY AttendanceAssumption DEF TypeOK
  <2>2. Fail => failures' # 0 BY <2>1 DEF Fail
  <2>3. ASSUME NEW e \in Executions, GetContext(e) \/ GetBusiness(e) \/ Guard(e) \/ Again(e)
        PROVE  UpdateReaches'
    BY <2>2, <2>3 DEF UpdateReaches, GetContext, GetBusiness, Guard, Again, Ok
  <2>4. ASSUME NEW e \in Executions, PushContext(e) PROVE UpdateReaches'
    <3>1. CASE Fail BY <2>2, <3>1 DEF UpdateReaches
    <3>2. CASE ~Fail
      <4>1. /\ Ok /\ entry' = [run[e].context EXCEPT !.age = 0]
            /\ behind' = (behind \/ run[e].context.version # business.version)
            /\ UNCHANGED <<business, update>> /\ At(e, "push_context")
        BY <2>4, <3>2 DEF PushContext
      <4>2. run[e].context \in Context BY <4>1 DEF TypeOK
      <4>3. entry'.version = run[e].context.version BY <4>1, <4>2 DEF Context
      <4>4. ~behind' => run[e].context.version = business.version BY <4>1
      <4> QED BY <4>1, <4>3, <4>4 DEF UpdateReaches
    <3> QED BY <3>1, <3>2
  <2>5. ASSUME NEW hours \in Schedules, NEW plan \in Plans, CommitUpdate(hours, plan)
        PROVE  UpdateReaches'
    BY <2>5 DEF UpdateReaches, CommitUpdate
  <2>6. CASE InvalidateBusinessContext
    BY <2>2, <2>6 DEF UpdateReaches, InvalidateBusinessContext
  <2>7. CASE CacheCleanup
    BY <2>7 DEF UpdateReaches, CacheCleanup
  <2>8. CASE Tick
    <3>1. entry' # None => entry # None /\ entry'.version = entry.version
      BY <2>8 DEF Tick, TypeOK, Context
    <3> QED BY <2>8, <3>1 DEF UpdateReaches, Tick
  <2>9. CASE UNCHANGED vars
    BY <2>9 DEF vars, UpdateReaches
  <2> QED BY <2>3, <2>4, <2>5, <2>6, <2>7, <2>8, <2>9 DEF Next
<1> QED BY <1>1, <1>2, AttendanceTypes, PTL DEF Spec

-----------------------------------------------------------------------------
(* The promised moment. Whole days and minutes first: what division gives is the *)
(* only way to write a number of minutes as days and minutes of a day.           *)

\* Multiplication spread over a sum.
LEMMA Distributes ==
    ASSUME NEW a \in Int, NEW b \in Int, NEW c \in Int
    PROVE  (a + b) * c = a * c + b * c
OBVIOUS

\* Division with its remainder.
LEMMA Divides ==
    ASSUME NEW t \in Int, NEW n \in Nat \ {0}
    PROVE  /\ t \div n \in Int /\ t % n \in 0..n - 1
           /\ t = (t \div n) * n + (t % n)
<1>1. n \in Int /\ n > 0 OBVIOUS
<1>2. t \div n \in Int /\ t % n \in 0..n - 1 BY <1>1
<1>3. t = n * (t \div n) + (t % n) BY <1>1
<1>4. n * (t \div n) = (t \div n) * n BY <1>1, <1>2
<1> QED BY <1>2, <1>3, <1>4

\* One time more is at least n more.
LEMMA OneMore ==
    ASSUME NEW c \in Int, NEW d \in Int, c >= d + 1, NEW n \in Nat
    PROVE  c * n >= d * n + n
<1> DEFINE k == c - d - 1
<1>1. k \in Nat /\ k + 1 \in Int /\ c = d + (k + 1) OBVIOUS
<1> HIDE DEF k
<1>2. c * n = d * n + (k + 1) * n BY <1>1, Distributes
<1>3. (k + 1) * n = k * n + n BY <1>1
<1>4. k * n \in Nat /\ d * n \in Int BY <1>1
<1> QED BY <1>2, <1>3, <1>4

\* The quotient and the remainder are the only such numbers.
LEMMA DividesOnce ==
    ASSUME NEW d \in Int, NEW n \in Nat \ {0}, NEW x \in 0..n - 1
    PROVE  (d * n + x) \div n = d /\ (d * n + x) % n = x
<1> DEFINE t == d * n + x
<1> DEFINE q == t \div n
<1> DEFINE r == t % n
<1>1. d * n \in Int /\ t \in Int OBVIOUS
<1>2. q \in Int /\ r \in 0..n - 1 /\ t = q * n + r
  <2> HIDE DEF t
  <2> QED BY <1>1, Divides
<1>3. q * n \in Int BY <1>2
<1> HIDE DEF q, r
<1>4. q >= d + 1 => q * n >= d * n + n BY <1>2, OneMore
<1>5. d >= q + 1 => d * n >= q * n + n BY <1>2, OneMore
<1>6. q = d BY <1>1, <1>2, <1>3, <1>4, <1>5
<1>7. r = x BY <1>1, <1>2, <1>6
<1> QED BY <1>6, <1>7 DEF q, r

\* A set of natural numbers that is not empty has a least element.
LEMMA LeastNatural ==
    ASSUME NEW S \in SUBSET Nat, S # {}
    PROVE  \E x \in S : \A y \in S : x <= y
<1> DEFINE R == OpToRel(<, Nat)
<1>1. IsWellFoundedOn(R, Nat) BY NatLessThanWellFounded
<1>2. \E x \in S : \A y \in S : <<y, x>> \notin R
  <2> HIDE DEF R
  <2> QED BY <1>1, WFMin
<1>3. PICK x \in S : \A y \in S : <<y, x>> \notin R BY <1>2
<1>4. \A y \in S : ~(y < x) BY <1>3 DEF OpToRel
<1>5. \A y \in S : x <= y
  <2> HIDE DEF R
  <2> QED BY <1>4
<1> QED BY <1>5

\* Min names it.
LEMMA MinIs ==
    ASSUME NEW S \in SUBSET Int, NEW x \in S, \A y \in S : x <= y
    PROVE  Min(S) = x
<1> DEFINE z == Min(S)
<1>1. z \in S /\ \A y \in S : z <= y BY DEF Min
<1> HIDE DEF z
<1>2. z \in Int /\ z <= x /\ x <= z BY <1>1
<1>3. z = x BY <1>2
<1> QED BY <1>3 DEF z

\* A moment some minutes after the midnight of a day to come.
LEMMA LaterSplit ==
    ASSUME NEW m \in Moments, NEW delta \in Nat, NEW d \in Nat, NEW x \in Minutes,
           m.minutes + delta = d * DayMinutes + x
    PROVE  Later(m, delta) = [weekday |-> (m.weekday + d) % WeekDays, minutes |-> x]
<1>1. /\ m.weekday \in Nat /\ m.minutes \in Nat /\ DayMinutes \in Nat \ {0} /\ x \in 0..DayMinutes - 1
      /\ m.weekday * DayMinutes \in Int /\ d * DayMinutes \in Int
  BY HoursAssumption DEF Moments, Days, Minutes
<1>2. m.weekday + d \in Int BY <1>1
<1>3. (m.weekday + d) * DayMinutes = m.weekday * DayMinutes + d * DayMinutes BY <1>1, Distributes
<1> DEFINE w == m.weekday * DayMinutes
<1> DEFINE l == d * DayMinutes
<1> DEFINE s == (m.weekday + d) * DayMinutes
<1>4. w + m.minutes + delta = s + x
  <2>1. w \in Int /\ l \in Int /\ m.minutes + delta = l + x /\ s = w + l
    BY <1>1, <1>3
  <2> HIDE DEF w, l, s
  <2> QED BY <1>1, <2>1
<1>5. /\ ((m.weekday + d) * DayMinutes + x) \div DayMinutes = m.weekday + d
      /\ ((m.weekday + d) * DayMinutes + x) % DayMinutes = x
  BY <1>1, <1>2, DividesOnce
<1> QED BY <1>4, <1>5 DEF Later

\* Every minute of the week to come is one.
LEMMA LaterParts ==
    ASSUME NEW m \in Moments, NEW delta \in 1..WeekDays * DayMinutes
    PROVE  \E d \in 0..WeekDays, x \in Minutes : m.minutes + delta = d * DayMinutes + x
<1>1. /\ m.minutes \in Nat /\ m.minutes < DayMinutes /\ DayMinutes \in Nat \ {0}
      /\ WeekDays \in Nat /\ WeekDays * DayMinutes \in Nat
  BY HoursAssumption DEF Moments, Minutes
<1> DEFINE t == m.minutes + delta
<1> DEFINE q == t \div DayMinutes
<1> DEFINE r == t % DayMinutes
<1>2. t \in Int /\ 0 <= t /\ t < WeekDays * DayMinutes + DayMinutes BY <1>1
<1>3. q \in Int /\ r \in 0..DayMinutes - 1 /\ t = q * DayMinutes + r
  <2> HIDE DEF t
  <2> QED BY <1>1, <1>2, Divides
<1>4. q * DayMinutes \in Int BY <1>1, <1>3
<1> HIDE DEF t, q, r
<1>5. q >= WeekDays + 1 => q * DayMinutes >= WeekDays * DayMinutes + DayMinutes BY <1>1, <1>3, OneMore
<1>6. 0 >= q + 1 => 0 * DayMinutes >= q * DayMinutes + DayMinutes BY <1>1, <1>3, OneMore
<1>7. 0 * DayMinutes = 0 BY <1>1
<1>8. q \in 0..WeekDays BY <1>1, <1>2, <1>3, <1>4, <1>5, <1>6, <1>7
<1> QED BY <1>3, <1>8 DEF t, Minutes

\* Stored hours: an interval of a day, and the weekday some days later.
LEMMA HoursOf ==
    ASSUME NEW hours \in OpeningHours, NEW d \in Days, hours[d] # None
    PROVE  /\ hours[d].start \in Minutes /\ hours[d].end \in Minutes
           /\ hours[d].start < hours[d].end
BY DEF OpeningHours, NormalizeOpeningHourItems, Interval

\* Whether the business is open at such a moment.
LEMMA OpenLater ==
    ASSUME NEW hours, NEW m \in Moments, NEW delta \in Nat, NEW d \in Nat, NEW x \in Minutes,
           m.minutes + delta = d * DayMinutes + x
    PROVE  IsOpenAt(hours, Later(m, delta)) <=>
              /\ hours[(m.weekday + d) % WeekDays] # None
              /\ hours[(m.weekday + d) % WeekDays].start <= x
              /\ x < hours[(m.weekday + d) % WeekDays].end
BY LaterSplit DEF IsOpenAt

\* The weekday that many days later is one, and the same after none.
LEMMA WeekdayLater ==
    ASSUME NEW m \in Moments, NEW d \in Nat
    PROVE  (m.weekday + d) % WeekDays \in Days /\ (m.weekday + 0) % WeekDays = m.weekday
<1>1. WeekDays \in Nat \ {0} /\ m.weekday \in 0..WeekDays - 1 BY HoursAssumption DEF Moments, Days
<1>2. m.weekday + d \in Int /\ m.weekday + 0 = 0 * WeekDays + m.weekday BY <1>1
<1>3. (0 * WeekDays + m.weekday) % WeekDays = m.weekday BY <1>1, DividesOnce
<1> QED BY <1>1, <1>2, <1>3, Divides DEF Days

\* Today's closing, as the guard finds it, is the first minute at which the
\* business is closed.
LEMMA CloseIsFirst ==
    ASSUME NEW hours \in OpeningHours, NEW m \in Moments, IsOpenAt(hours, m)
    PROVE  LET closed == {delta \in 1..WeekDays * DayMinutes : ~IsOpenAt(hours, Later(m, delta))}
           IN  closed # {} /\ GetCurrentCloseAt(hours, m) = Min(closed)
<1> DEFINE N == WeekDays * DayMinutes
<1> DEFINE closed == {delta \in 1..N : ~IsOpenAt(hours, Later(m, delta))}
<1> DEFINE today == hours[m.weekday]
<1> DEFINE yesterday == hours[PreviousDay(m.weekday)]
<1> DEFINE e == today.end - m.minutes
<1>1. /\ WeekDays \in Nat \ {0} /\ DayMinutes \in Nat \ {0} /\ N \in Nat
      /\ m.weekday \in Days /\ PreviousDay(m.weekday) \in Days
      /\ m.minutes \in Nat /\ m.minutes < DayMinutes
  BY HoursAssumption DEF Moments, Days, Minutes, PreviousDay
<1>2. today # None /\ today.start <= m.minutes /\ m.minutes < today.end BY DEF IsOpenAt
<1>3. today.start \in Minutes /\ today.end \in Minutes /\ today.start < today.end
  BY <1>1, <1>2, HoursOf
<1>4. N >= DayMinutes
  <2>1. WeekDays \in Int /\ WeekDays >= 0 + 1 BY <1>1
  <2>2. N >= 0 * DayMinutes + DayMinutes BY <1>1, <2>1, OneMore
  <2>3. 0 * DayMinutes = 0 BY <1>1
  <2> HIDE DEF N
  <2> QED BY <1>1, <2>2, <2>3
<1>5. e \in 1..N
  <2> HIDE DEF N
  <2> QED BY <1>1, <1>2, <1>3, <1>4 DEF Minutes
<1>6. ASSUME NEW delta \in 1..e
      PROVE  IsOpenAt(hours, Later(m, delta)) <=> delta < e
  <2> DEFINE x == m.minutes + delta
  <2>1. x \in Minutes /\ delta \in Nat BY <1>1, <1>2, <1>3, <1>5 DEF Minutes
  <2>2. x = 0 * DayMinutes + x BY <1>1, <2>1 DEF Minutes
  <2>3. (m.weekday + 0) % WeekDays = m.weekday BY WeekdayLater
  <2>4. 0 \in Nat OBVIOUS
  <2>5. IsOpenAt(hours, Later(m, delta)) <=> today # None /\ today.start <= x /\ x < today.end
    BY <2>1, <2>2, <2>3, <2>4, OpenLater
  <2> QED BY <1>1, <1>2, <1>3, <2>1, <2>5 DEF Minutes
<1>7. e \in closed BY <1>5, <1>6
<1>8. \A delta \in closed : e <= delta
  <2> SUFFICES ASSUME NEW delta \in closed, delta < e PROVE FALSE
    BY <1>1, <1>5
  <2>1. delta \in 1..e BY <1>1, <1>5
  <2> QED BY <1>6, <2>1
<1>9. Min(closed) = e
  <2>1. closed \in SUBSET Int BY <1>1
  <2> HIDE DEF closed, e
  <2> QED BY <1>7, <1>8, <2>1, MinIs
<1>10. GetCurrentCloseAt(hours, m) = e
  <2>1. SameDay(today, m) /\ ~OverMidnight(today, m)
    BY <1>1, <1>2, <1>3 DEF SameDay, OverMidnight, Minutes
  <2>2. yesterday # None => ~AfterMidnight(yesterday, m)
    <3>1. yesterday # None =>
            yesterday.start \in Minutes /\ yesterday.end \in Minutes /\ yesterday.start < yesterday.end
      BY <1>1, HoursOf
    <3> QED BY <3>1 DEF AfterMidnight, Minutes
  <2>3. Min({e}) = e
    <3>1. {e} \in SUBSET Int /\ e \in {e} /\ \A y \in {e} : e <= y BY <1>1, <1>5
    <3> HIDE DEF e
    <3> QED BY <3>1, MinIs
  <2>4. GetCurrentCloseAt(hours, m) = Min({e})
    <3>1. /\ today # None /\ SameDay(today, m) /\ ~(today # None /\ OverMidnight(today, m))
          /\ ~(yesterday # None /\ AfterMidnight(yesterday, m))
      BY <1>2, <2>1, <2>2
    <3> QED BY <3>1, Zenon DEF GetCurrentCloseAt
  <2> QED BY <2>3, <2>4
<1> QED BY <1>7, <1>9, <1>10

\* The next opening, as the guard finds it, is the first minute at which the
\* business is open, and there is none if it never is.
LEMMA OpeningIsFirst ==
    ASSUME NEW hours \in OpeningHours, NEW m \in Moments, ~IsOpenAt(hours, m)
    PROVE  LET open == {delta \in 1..WeekDays * DayMinutes : IsOpenAt(hours, Later(m, delta))}
           IN  GetNextOpenAt(hours, m) = IF open = {} THEN None ELSE Min(open)
<1> DEFINE N == WeekDays * DayMinutes
<1> DEFINE open == {delta \in 1..N : IsOpenAt(hours, Later(m, delta))}
<1> DEFINE Day(d) == (m.weekday + d) % WeekDays
<1> DEFINE Until(d) == d * DayMinutes + hours[Day(d)].start - m.minutes
<1> DEFINE offsets == {d \in 0..WeekDays : hours[Day(d)] # None}
<1> DEFINE ahead == {delta \in {Until(d) : d \in offsets} : delta > 0}
<1>1. /\ WeekDays \in Nat \ {0} /\ DayMinutes \in Nat \ {0} /\ N \in Nat
      /\ m.weekday \in Nat /\ m.minutes \in Nat /\ m.minutes < DayMinutes
  BY HoursAssumption DEF Moments, Days, Minutes
<1>2. ASSUME NEW d \in offsets
      PROVE  /\ d \in Nat /\ d <= WeekDays /\ d * DayMinutes \in Nat
             /\ hours[Day(d)].start \in Minutes /\ hours[Day(d)].end \in Minutes
             /\ hours[Day(d)].start < hours[Day(d)].end
             /\ Until(d) \in Int
  <2>1. d \in Nat /\ d <= WeekDays /\ d * DayMinutes \in Nat BY <1>1
  <2>2. Day(d) \in Days /\ hours[Day(d)] # None BY <2>1, WeekdayLater
  <2> DEFINE h == hours[Day(d)]
  <2>3. h.start \in Minutes /\ h.end \in Minutes /\ h.start < h.end
    <3> HIDE DEF Day
    <3> QED BY <2>2, HoursOf
  <2> HIDE DEF Day
  <2> QED BY <1>1, <2>1, <2>3 DEF Minutes
\* A start to come within the week is a minute at which the business is open.
<1>3. ASSUME NEW d \in offsets, Until(d) \in 1..N
      PROVE  Until(d) \in open
  <2> DEFINE x == hours[Day(d)].start
  <2> DEFINE delta == Until(d)
  <2>1. x \in Minutes /\ x < hours[Day(d)].end /\ d \in Nat /\ d * DayMinutes \in Nat /\ delta \in 1..N
    BY <1>2, <1>3
  <2>2. x \in Nat /\ delta \in Nat BY <1>1, <2>1 DEF Minutes
  <2>3. m.minutes + delta = d * DayMinutes + x
    <3> DEFINE l == d * DayMinutes
    <3>1. delta = l + x - m.minutes OBVIOUS
    <3> HIDE DEF l, x, delta
    <3> QED BY <1>1, <2>1, <2>2, <3>1 DEF l
  <2>4. IsOpenAt(hours, Later(m, delta)) <=>
           hours[Day(d)] # None /\ hours[Day(d)].start <= x /\ x < hours[Day(d)].end
    <3> HIDE DEF x, delta
    <3> QED BY <2>1, <2>2, <2>3, OpenLater
  <2> QED BY <2>1, <2>2, <2>4
\* Whenever the business is open, it has opened since, at one of the starts to come.
<1>4. ASSUME NEW delta \in open
      PROVE  \E d \in offsets : Until(d) > 0 /\ Until(d) <= delta
  <2>1. delta \in 1..N /\ delta \in Nat /\ IsOpenAt(hours, Later(m, delta)) BY <1>1
  <2>2. PICK d \in 0..WeekDays, x \in Minutes : m.minutes + delta = d * DayMinutes + x
    BY <2>1, LaterParts
  <2>3. d \in Nat /\ d * DayMinutes \in Nat /\ x \in Nat BY <1>1 DEF Minutes
  <2>4. hours[Day(d)] # None /\ hours[Day(d)].start <= x /\ x < hours[Day(d)].end
    BY <2>1, <2>2, <2>3, OpenLater
  <2>5. d \in offsets BY <2>4
  <2> DEFINE s == hours[Day(d)].start
  <2> DEFINE l == d * DayMinutes
  <2>6. s \in Nat /\ s <= x /\ l \in Nat /\ Until(d) = l + s - m.minutes /\ m.minutes + delta = l + x
    BY <1>2, <2>2, <2>3, <2>4, <2>5 DEF Minutes
  <2>7. Until(d) <= delta
    <3> HIDE DEF s, l, Until
    <3> QED BY <1>1, <2>1, <2>3, <2>6
  <2>8. Until(d) > 0
    <3>1. CASE d = 0
      <4>1. Day(d) = m.weekday BY <3>1, WeekdayLater
      <4>2. l = 0 BY <1>1, <3>1
      <4>3. ~(s <= m.minutes /\ m.minutes < hours[Day(d)].end)
        BY <2>4, <4>1 DEF IsOpenAt
      <4>4. hours[Day(d)].end \in Nat BY <1>2, <2>5 DEF Minutes
      <4> DEFINE e == hours[Day(d)].end
      <4>5. x < e /\ e \in Nat /\ ~(s <= m.minutes /\ m.minutes < e) BY <2>4, <4>3, <4>4
      <4> HIDE DEF s, l, Until, e
      <4> QED BY <1>1, <2>1, <2>3, <2>6, <4>2, <4>5
    <3>2. CASE d # 0
      <4>1. d \in Int /\ d >= 0 + 1 BY <2>3, <3>2
      <4>2. l >= 0 * DayMinutes + DayMinutes BY <1>1, <4>1, OneMore
      <4>3. 0 * DayMinutes = 0 BY <1>1
      <4> HIDE DEF s, l, Until
      <4> QED BY <1>1, <2>6, <4>2, <4>3
    <3> QED BY <3>1, <3>2
  <2> QED BY <2>5, <2>7, <2>8
<1>5. GetNextOpenAt(hours, m) = IF ahead = {} THEN None ELSE Min(ahead)
  BY DEF GetNextOpenAt
<1>6. CASE ahead = {}
  <2>1. open = {} BY <1>4, <1>6
  <2> QED BY <1>5, <1>6, <2>1
<1>7. CASE ahead # {}
  <2>1. ahead \in SUBSET Nat /\ ahead \in SUBSET Int
    <3> HIDE DEF Until, offsets
    <3> QED BY <1>2
  <2>2. PICK a \in ahead : \A y \in ahead : a <= y
    <3> HIDE DEF ahead
    <3> QED BY <1>7, <2>1, LeastNatural
  <2>3. PICK d \in offsets : a = Until(d) /\ a > 0 OBVIOUS
  <2>4. a \in Nat BY <2>1
\* The start of the same weekday a week later is not the first of those to come.
  <2>5. a <= N
    <3>1. CASE d < WeekDays
      <4> DEFINE l == d * DayMinutes
      <4> DEFINE s == hours[Day(d)].start
      <4>1. WeekDays >= d + 1 /\ WeekDays \in Int /\ d \in Int BY <1>1, <1>2, <3>1
      <4>2. N >= l + DayMinutes BY <1>1, <4>1, OneMore
      <4>3. l \in Nat /\ s \in Nat /\ s < DayMinutes /\ a = l + s - m.minutes
        BY <1>1, <1>2, <2>3 DEF Minutes
      <4> HIDE DEF N, l, s
      <4> QED BY <1>1, <4>2, <4>3
    <3>2. CASE d = WeekDays
      <4>1. Day(WeekDays) = Day(0)
        <5>1. m.weekday \in 0..WeekDays - 1 BY DEF Moments, Days
        <5> DEFINE once == 1
        <5>2. once \in Int /\ once * WeekDays + m.weekday = m.weekday + WeekDays BY <1>1
        <5> HIDE DEF once
        <5>3. (once * WeekDays + m.weekday) % WeekDays = m.weekday BY <1>1, <5>1, <5>2, DividesOnce
        <5>4. 0 \in Nat OBVIOUS
        <5> QED BY <5>2, <5>3, <5>4, WeekdayLater
      <4>2. 0 \in offsets BY <1>1, <3>2, <4>1
      <4> DEFINE s == hours[Day(0)].start
      <4>3. s \in Nat /\ Until(0) = 0 * DayMinutes + s - m.minutes /\ a = N + s - m.minutes
        BY <1>2, <2>3, <3>2, <4>1, <4>2 DEF Minutes
      <4>4. 0 * DayMinutes = 0 BY <1>1
      <4>5. Until(0) = s - m.minutes
        <5> HIDE DEF s, Until
        <5> QED BY <1>1, <4>3, <4>4
      <4>6. s - m.minutes > 0 => a <= s - m.minutes
        <5>1. s - m.minutes > 0 => s - m.minutes \in ahead
          <6> HIDE DEF s, Until, offsets
          <6> QED BY <4>2, <4>5
        <5> HIDE DEF ahead, s, Until
        <5> QED BY <2>2, <5>1
      <4>7. N >= 0 * DayMinutes + DayMinutes BY <1>1, OneMore
      <4> HIDE DEF s, N, Until
      <4> QED BY <1>1, <2>4, <4>3, <4>4, <4>6, <4>7
    <3>3. d < WeekDays \/ d = WeekDays BY <1>1, <1>2
    <3> QED BY <3>1, <3>2, <3>3
  <2>6. a \in open
    <3>1. Until(d) \in 1..N
      <4> HIDE DEF Until, N
      <4> QED BY <1>1, <2>3, <2>4, <2>5
    <3> HIDE DEF Until, open
    <3> QED BY <1>3, <2>3, <3>1
  <2>7. \A y \in open : a <= y
    <3> SUFFICES ASSUME NEW y \in open PROVE a <= y
      OBVIOUS
    <3>1. PICK c \in offsets : Until(c) > 0 /\ Until(c) <= y
      <4> HIDE DEF Until, offsets, open
      <4> QED BY <1>4
    <3>2. Until(c) \in ahead /\ Until(c) \in Int
      <4> HIDE DEF Until, offsets
      <4> QED BY <1>2, <3>1
    <3>3. a <= Until(c)
      <4> HIDE DEF Until, ahead
      <4> QED BY <2>2, <3>2
    <3>4. y \in Int BY <1>1
    <3> HIDE DEF Until
    <3> QED BY <2>4, <3>1, <3>2, <3>3, <3>4
  <2>8. Min(open) = a /\ Min(ahead) = a
    <3>1. open \in SUBSET Int BY <1>1
    <3> HIDE DEF open, ahead
    <3> QED BY <2>1, <2>2, <2>6, <2>7, <3>1, MinIs
  <2>9. open # {} BY <2>6
  <2>10. GetNextOpenAt(hours, m) = IF open = {} THEN None ELSE Min(open)
    <3> HIDE DEF open, ahead
    <3> QED BY <1>5, <1>7, <2>8, <2>9
  <2> QED BY <2>10
<1> QED BY <1>6, <1>7

\* At every moment of every week, what the guard promises a client whom the plan does
\* not let it attend is the first minute at which the backend attends again, or nothing
\* if it never does.
THEOREM AttendancePromiseIsFirst == Spec => []PromiseIsFirst
<1>1. ASSUME TypeOK PROVE PromiseIsFirst
  <2>1. business.hours \in OpeningHours /\ now \in Moments BY <1>1 DEF TypeOK
  <2> DEFINE hours == business.hours
  <2> DEFINE N == WeekDays * DayMinutes
  <2> DEFINE Status(plan) == AttendanceStatusAt(hours, plan, now)
  <2> DEFINE Decision(plan) == BusinessHoursGuard(hours, plan, Status(plan), now)
  <2> DEFINE attended(plan) == {delta \in 1..N : AttendanceStatusAt(hours, plan, Later(now, delta)).allowed}
  <2>2. SUFFICES ASSUME NEW plan \in Plans, ~Decision(plan).allowed
        PROVE  Decision(plan).next_allowed_in = IF attended(plan) = {} THEN None ELSE Min(attended(plan))
    BY DEF PromiseIsFirst
  <2>3. IsOpenNow(hours, now) = IsOpenAt(hours, now) BY <2>1, IsOpenSame
  <2>4. ~Status(plan).allowed
    BY <2>2, <2>3 DEF BusinessHoursGuard, FallbackAllowed, AttendanceStatusAt, Plans
  <2>5. CASE plan = "after_hours"
    <3>1. IsOpenAt(hours, now) BY <2>4, <2>5 DEF AttendanceStatusAt
    <3>2. Decision(plan).next_allowed_in = GetCurrentCloseAt(hours, now)
      BY <2>2, <2>3, <2>5, <3>1 DEF BusinessHoursGuard, FallbackAllowed, AttendanceStatusAt
    <3>3. attended(plan) = {delta \in 1..N : ~IsOpenAt(hours, Later(now, delta))}
      BY <2>5 DEF AttendanceStatusAt
    <3> HIDE DEF Decision, attended, hours
    <3> QED BY <2>1, <3>1, <3>2, <3>3, CloseIsFirst DEF hours
  <2>6. CASE plan = "business_hours"
    <3>1. ~IsOpenAt(hours, now) BY <2>4, <2>6 DEF AttendanceStatusAt
    <3>2. Decision(plan).next_allowed_in = GetNextOpenAt(hours, now)
      BY <2>2, <2>3, <2>6, <3>1 DEF BusinessHoursGuard, FallbackAllowed, AttendanceStatusAt
    <3>3. attended(plan) = {delta \in 1..N : IsOpenAt(hours, Later(now, delta))}
      BY <2>6 DEF AttendanceStatusAt
    <3> HIDE DEF Decision, attended, hours
    <3> QED BY <2>1, <3>1, <3>2, <3>3, OpeningIsFirst DEF hours
  <2>7. plan # "always" BY <2>4 DEF AttendanceStatusAt
  <2> QED BY <2>5, <2>6, <2>7 DEF Plans
<1> QED BY <1>1, AttendanceTypes, PTL
=============================================================================
