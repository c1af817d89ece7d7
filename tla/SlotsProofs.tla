----------------------------- MODULE SlotsProofs -----------------------------
(***************************************************************************)
(* What is offered is what can be booked: for any calendar, opening hours,  *)
(* durations, intervals and notices, and any bookings and blocks.           *)
(***************************************************************************)
EXTENDS Slots, FiniteSetTheorems, SequenceTheorems, WellFoundedInduction, TLAPS

-----------------------------------------------------------------------------
(* Numbers *)

\* Multiplication distributes.
LEMMA Distributes ==
    ASSUME NEW a \in Int, NEW b \in Int, NEW c \in Int
    PROVE  (a + b) * c = a * c + b * c
OBVIOUS

\* Division with its remainder.
LEMMA Divides ==
    ASSUME NEW t \in Int, NEW n \in Nat \ {0}
    PROVE  /\ t \div n \in Int /\ t % n \in 0..n - 1
           /\ t = (t \div n) * n + (t % n)
<1>1. n \in Int /\ n > 0 OBVIOUS
<1>2. t \div n \in Int /\ t % n \in 0..n - 1 BY <1>1
<1>3. t = n * (t \div n) + (t % n) BY <1>1
<1>4. n * (t \div n) = (t \div n) * n BY <1>1, <1>2
<1> QED BY <1>2, <1>3, <1>4

\* One time more is at least n more.
LEMMA OneMore ==
    ASSUME NEW c \in Int, NEW d \in Int, c >= d + 1, NEW n \in Nat
    PROVE  c * n >= d * n + n
<1> DEFINE k == c - d - 1
<1>1. k \in Nat /\ k + 1 \in Int /\ c = d + (k + 1) OBVIOUS
<1> HIDE DEF k
<1>2. c * n = d * n + (k + 1) * n BY <1>1, Distributes
<1>3. (k + 1) * n = k * n + n BY <1>1
<1>4. k * n \in Nat /\ d * n \in Int BY <1>1
<1> QED BY <1>2, <1>3, <1>4

\* The quotient and the remainder are the only such numbers.
LEMMA DividesOnce ==
    ASSUME NEW d \in Int, NEW n \in Nat \ {0}, NEW x \in 0..n - 1
    PROVE  (d * n + x) \div n = d /\ (d * n + x) % n = x
<1> DEFINE t == d * n + x
<1> DEFINE q == t \div n
<1> DEFINE r == t % n
<1>1. d * n \in Int /\ t \in Int OBVIOUS
<1>2. q \in Int /\ r \in 0..n - 1 /\ t = q * n + r
  <2> HIDE DEF t
  <2> QED BY <1>1, Divides
<1>3. q * n \in Int BY <1>2
<1> HIDE DEF q, r
<1>4. q >= d + 1 => q * n >= d * n + n BY <1>2, OneMore
<1>5. d >= q + 1 => d * n >= q * n + n BY <1>2, OneMore
<1>6. q = d BY <1>1, <1>2, <1>3, <1>4, <1>5
<1>7. r = x BY <1>1, <1>2, <1>6
<1> QED BY <1>6, <1>7 DEF q, r

\* A multiple changes no remainder.
LEMMA SameRemainder ==
    ASSUME NEW d \in Int, NEW n \in Nat \ {0}, NEW x \in Int
    PROVE  (d * n + x) % n = x % n
<1> DEFINE q == x \div n
<1> DEFINE r == x % n
<1>1. q \in Int /\ r \in 0..n - 1 /\ x = q * n + r BY Divides
<1> HIDE DEF q, r
<1>2. d + q \in Int /\ (d + q) * n = d * n + q * n BY <1>1, Distributes
<1>3. d * n \in Int /\ q * n \in Int BY <1>1
<1>4. d * n + x = (d + q) * n + r BY <1>1, <1>2, <1>3
<1>5. ((d + q) * n + r) % n = r BY <1>1, <1>2, DividesOnce
<1> QED BY <1>4, <1>5 DEF r

\* A time of the day or of the hour is on the same place of a grid that fits.
LEMMA GridFits ==
    ASSUME NEW t \in Int, NEW n \in Nat \ {0}, NEW k \in Nat \ {0}, n % k = 0
    PROVE  (t % n) % k = t % k
<1> DEFINE q == t \div n
<1> DEFINE r == t % n
<1> DEFINE c == n \div k
<1>1. q \in Int /\ r \in Int /\ t = q * n + r BY Divides
<1>2. c \in Int /\ n = c * k BY Divides
<1> HIDE DEF q, r, c
<1>3. q * n = (q * c) * k
  <2>1. q * (c * k) = (q * c) * k BY <1>1, <1>2
  <2> QED BY <1>2, <2>1
<1>4. q * c \in Int BY <1>1, <1>2
<1> DEFINE e == q * c
<1>5. e \in Int /\ t = e * k + r BY <1>1, <1>3, <1>4
<1> HIDE DEF e
<1>6. (e * k + r) % k = r % k BY <1>1, <1>5, SameRemainder
<1> QED BY <1>5, <1>6 DEF r

\* A grid that fits the hour, which fits the day, fits the day.
LEMMA GridOfDay ==
    ASSUME NEW n \in Nat \ {0}, NEW h \in Nat \ {0}, NEW k \in Nat \ {0}, n % h = 0, h % k = 0
    PROVE  n % k = 0
<1> DEFINE c == n \div h
<1> DEFINE e == h \div k
<1>1. c \in Int /\ n = c * h BY Divides
<1>2. e \in Int /\ h = e * k BY Divides
<1> HIDE DEF c, e
<1>3. c * (e * k) = (c * e) * k BY <1>1, <1>2
<1>4. n = (c * e) * k + 0 BY <1>1, <1>2, <1>3
<1> DEFINE f == c * e
<1>5. f \in Int /\ n = f * k + 0 BY <1>1, <1>2, <1>4
<1> HIDE DEF f
<1>6. (f * k + 0) % k = 0 BY <1>5, DividesOnce
<1> QED BY <1>5, <1>6

\* A set of natural numbers that is not empty has a least element.
LEMMA LeastNatural ==
    ASSUME NEW S \in SUBSET Nat, S # {}
    PROVE  \E x \in S : \A y \in S : x <= y
<1> DEFINE R == OpToRel(<, Nat)
<1>1. IsWellFoundedOn(R, Nat) BY NatLessThanWellFounded
<1>2. \E x \in S : \A y \in S : <<y, x>> \notin R
  <2> HIDE DEF R
  <2> QED BY <1>1, WFMin
<1>3. PICK x \in S : \A y \in S : <<y, x>> \notin R BY <1>2
<1>4. \A y \in S : ~(y < x) BY <1>3 DEF OpToRel
<1>5. \A y \in S : x <= y
  <2> HIDE DEF R
  <2> QED BY <1>4
<1> QED BY <1>5

\* A set of integers with an upper bound has a greatest element, and Max names it.
LEMMA MaxExists ==
    ASSUME NEW S \in SUBSET Int, S # {}, NEW b \in Int, \A y \in S : y <= b
    PROVE  Max(S) \in S /\ Max(S) \in Int /\ \A y \in S : y <= Max(S)
<1> DEFINE T == {b - y : y \in S}
<1>0. \A y \in S : y \in Int /\ b - y \in Nat OBVIOUS
<1>1. T \in SUBSET Nat /\ T # {} BY <1>0
<1>2. PICK x \in T : \A y \in T : x <= y
  <2> HIDE DEF T
  <2> QED BY <1>1, LeastNatural
<1>3. PICK z \in S : x = b - z BY <1>2
<1>4. \A y \in S : z >= y
  <2> SUFFICES ASSUME NEW y \in S PROVE z >= y
    OBVIOUS
  <2>1. b - y \in T OBVIOUS
  <2>2. x <= b - y BY <1>2, <2>1
  <2> HIDE DEF T
  <2> QED BY <1>0, <1>3, <2>2
<1> DEFINE m == Max(S)
<1>5. m \in S /\ \A y \in S : m >= y BY <1>4 DEF Max
<1> HIDE DEF m
<1> QED BY <1>5 DEF m

\* One with a lower bound has a least one, and Min names it.
LEMMA MinExists ==
    ASSUME NEW S \in SUBSET Int, S # {}, NEW b \in Int, \A y \in S : b <= y
    PROVE  Min(S) \in S /\ Min(S) \in Int /\ \A y \in S : Min(S) <= y
<1> DEFINE T == {y - b : y \in S}
<1>0. \A y \in S : y \in Int /\ y - b \in Nat OBVIOUS
<1>1. T \in SUBSET Nat /\ T # {} BY <1>0
<1>2. PICK x \in T : \A y \in T : x <= y
  <2> HIDE DEF T
  <2> QED BY <1>1, LeastNatural
<1>3. PICK z \in S : x = z - b BY <1>2
<1>4. \A y \in S : z <= y
  <2> SUFFICES ASSUME NEW y \in S PROVE z <= y
    OBVIOUS
  <2>1. y - b \in T OBVIOUS
  <2>2. x <= y - b BY <1>2, <2>1
  <2> HIDE DEF T
  <2> QED BY <1>0, <1>3, <2>2
<1> DEFINE m == Min(S)
<1>5. m \in S /\ \A y \in S : m <= y BY <1>4 DEF Min
<1> HIDE DEF m
<1> QED BY <1>5 DEF m

\* Of two numbers.
LEMMA MaxOfTwo ==
    ASSUME NEW a \in Int, NEW b \in Int
    PROVE  Max({a, b}) = IF a < b THEN b ELSE a
<1> DEFINE m == Max({a, b})
<1>1. m \in {a, b} /\ m >= a /\ m >= b
  <2>1. \E x \in {a, b} : \A y \in {a, b} : x >= y OBVIOUS
  <2> QED BY <2>1 DEF Max
<1> HIDE DEF m
<1>2. m = IF a < b THEN b ELSE a BY <1>1
<1> QED BY <1>2 DEF m

\* And the lesser one.
LEMMA MinOfTwo ==
    ASSUME NEW a \in Int, NEW b \in Int
    PROVE  Min({a, b}) = IF a < b THEN a ELSE b
<1> DEFINE m == Min({a, b})
<1>1. m \in {a, b} /\ m <= a /\ m <= b
  <2>1. \E x \in {a, b} : \A y \in {a, b} : x <= y OBVIOUS
  <2> QED BY <2>1 DEF Min
<1> HIDE DEF m
<1>2. m = IF a < b THEN a ELSE b BY <1>1
<1> QED BY <1>2 DEF m

-----------------------------------------------------------------------------
(* The free stretches *)

IsSpan(i) == i.start \in Int /\ i.end \in Int /\ i.start < i.end

\* A clipped item lies in the window, and an item meets only what its clipped part
\* meets there.
LEMMA ClippedSpans ==
    ASSUME NEW items, \A i \in items : IsSpan(i), NEW from \in Int, NEW to \in Int, from < to
    PROVE  /\ \A c \in Clipped(from, to, items) :
                  /\ IsSpan(c) /\ from <= c.start /\ c.end <= to
                  /\ \E i \in items : i.start <= c.start /\ c.end <= i.end
                                      /\ (c.start = i.start \/ c.start = from)
                                      /\ (c.end = i.end \/ c.end = to)
           /\ \A i \in items : \/ i.end <= from \/ to <= i.start
                               \/ \E c \in Clipped(from, to, items) :
                                     /\ i.start <= c.start /\ c.end <= i.end
                                     /\ c.start = i.start \/ c.start = from
                                     /\ c.end = i.end \/ c.end = to
<1> DEFINE Clip(i) == [start |-> Max({i.start, from}), end |-> Min({i.end, to})]
<1>1. ASSUME NEW i \in items, i.end > from, i.start < to
      PROVE  /\ IsSpan(Clip(i)) /\ from <= Clip(i).start /\ Clip(i).end <= to
             /\ i.start <= Clip(i).start /\ Clip(i).end <= i.end
             /\ Clip(i).start = i.start \/ Clip(i).start = from
             /\ Clip(i).end = i.end \/ Clip(i).end = to
  <2>1. i.start \in Int /\ i.end \in Int /\ i.start < i.end BY DEF IsSpan
  <2>2. Max({i.start, from}) = IF i.start < from THEN from ELSE i.start BY <2>1, MaxOfTwo
  <2>3. Min({i.end, to}) = IF i.end < to THEN i.end ELSE to BY <2>1, MinOfTwo
  <2> DEFINE a == Max({i.start, from})
  <2> DEFINE b == Min({i.end, to})
  <2>4. /\ a = (IF i.start < from THEN from ELSE i.start)
        /\ b = (IF i.end < to THEN i.end ELSE to)
    BY <2>2, <2>3
  <2>5. Clip(i).start = a /\ Clip(i).end = b OBVIOUS
  <2> HIDE DEF Clip, a, b
  <2>6. a \in Int /\ b \in Int /\ a < b /\ from <= a /\ b <= to /\ i.start <= a /\ b <= i.end
    BY <1>1, <2>1, <2>4
  <2> QED BY <2>4, <2>5, <2>6 DEF IsSpan
<1>2. Clipped(from, to, items) = {Clip(i) : i \in {j \in items : j.end > from /\ j.start < to}}
  BY DEF Clipped
<1> HIDE DEF Clip
<1>3. \A c \in Clipped(from, to, items) : \E i \in items : c = Clip(i) /\ i.end > from /\ i.start < to
  BY <1>2
<1>4. ASSUME NEW i \in items PROVE i.end <= from \/ to <= i.start \/ Clip(i) \in Clipped(from, to, items)
  BY <1>2 DEF IsSpan
<1>5. ASSUME NEW i \in items PROVE i.end <= from \/ to <= i.start \/ (i.end > from /\ i.start < to)
  BY DEF IsSpan
<1>6. ASSUME NEW c \in Clipped(from, to, items)
      PROVE  /\ IsSpan(c) /\ from <= c.start /\ c.end <= to
             /\ \E i \in items : i.start <= c.start /\ c.end <= i.end
                                 /\ (c.start = i.start \/ c.start = from)
                                 /\ (c.end = i.end \/ c.end = to)
  BY <1>1, <1>3
<1> QED BY <1>1, <1>4, <1>5, <1>6

\* The cursor is the start of the window or the end of one of the items done, and
\* none of them ends later.
LEMMA CursorIs ==
    ASSUME NEW done, NEW from \in Int, NEW to \in Int, from <= to,
           \A c \in done : c.end \in Int /\ c.end <= to
    PROVE  /\ Cursor(from, done) \in Int
           /\ from <= Cursor(from, done) /\ Cursor(from, done) <= to
           /\ \A c \in done : c.end <= Cursor(from, done)
           /\ Cursor(from, done) = from \/ \E c \in done : Cursor(from, done) = c.end
<1> DEFINE S == {from} \cup {c.end : c \in done}
<1>1. S \in SUBSET Int /\ S # {} /\ (\A y \in S : y <= to) /\ from \in S /\ \A c \in done : c.end \in S
  OBVIOUS
<1>2. \A y \in S : y = from \/ \E c \in done : y = c.end OBVIOUS
<1>3. Cursor(from, done) = Max(S) BY DEF Cursor
<1> HIDE DEF S
<1>4. Max(S) \in S /\ Max(S) \in Int /\ \A y \in S : y <= Max(S) BY <1>1, MaxExists
<1> QED BY <1>1, <1>2, <1>3, <1>4

\* What BuildGaps returns are stretches of the window which no item meets.
LEMMA GapsAreFree ==
    ASSUME NEW items, \A i \in items : IsSpan(i), NEW from \in Int, NEW to \in Int, from < to,
           NEW g \in BuildGaps(from, to, items)
    PROVE  /\ g.start \in Int /\ g.end \in Int
           /\ from <= g.start /\ g.start < g.end /\ g.end <= to
           /\ \A i \in items : i.end <= g.start \/ g.end <= i.start
<1> DEFINE clipped == Clipped(from, to, items)
<1> DEFINE Before(c) == {d \in clipped : d.start < c.start}
<1>1. \A c \in clipped : IsSpan(c) /\ from <= c.start /\ c.end <= to BY ClippedSpans
<1>2. /\ g.start < g.end
      /\ \/ \E c \in clipped : g = [start |-> Cursor(from, Before(c)), end |-> c.start]
         \/ g = [start |-> Cursor(from, clipped), end |-> to]
  BY DEF BuildGaps
<1>3. ASSUME NEW done \in SUBSET clipped, g.start = Cursor(from, done), g.end \in Int, g.end <= to,
             \A d \in clipped : d \in done \/ g.end <= d.start
      PROVE  /\ g.start \in Int /\ from <= g.start
             /\ \A i \in items : i.end <= g.start \/ g.end <= i.start
  <2>1. \A d \in done : d.end \in Int /\ d.end <= to BY <1>1 DEF IsSpan
  <2>2. /\ g.start \in Int /\ from <= g.start
        /\ \A d \in done : d.end <= g.start
    BY <1>3, <2>1, CursorIs
  <2>3. ASSUME NEW i \in items PROVE i.end <= g.start \/ g.end <= i.start
    <3>1. i.start \in Int /\ i.end \in Int BY DEF IsSpan
    <3>2. CASE i.end <= from \/ to <= i.start BY <1>3, <2>2, <3>1, <3>2
    <3>3. CASE \E d \in clipped : /\ i.start <= d.start /\ d.end <= i.end
                                  /\ d.start = i.start \/ d.start = from
                                  /\ d.end = i.end \/ d.end = to
      <4>1. PICK d \in clipped : /\ i.start <= d.start /\ d.end <= i.end
                                 /\ d.start = i.start \/ d.start = from
                                 /\ d.end = i.end \/ d.end = to
        BY <3>3
      <4>2. d.end <= g.start \/ g.end <= d.start BY <1>3, <2>2
      <4> QED BY <1>2, <1>3, <2>2, <3>1, <4>1, <4>2
    <3> QED BY <3>2, <3>3, ClippedSpans
  <2> QED BY <2>2, <2>3
<1>4. CASE \E c \in clipped : g = [start |-> Cursor(from, Before(c)), end |-> c.start]
  <2>1. PICK c \in clipped : g = [start |-> Cursor(from, Before(c)), end |-> c.start] BY <1>4
  <2>2. g.start = Cursor(from, Before(c)) /\ g.end = c.start BY <2>1
  <2>3. c.start \in Int /\ c.start <= to BY <1>1 DEF IsSpan
  <2>4. \A d \in clipped : d \in Before(c) \/ c.start <= d.start BY <1>1 DEF IsSpan
  <2>5. Before(c) \in SUBSET clipped OBVIOUS
  <2> HIDE DEF clipped, Before
  <2> QED BY <1>2, <1>3, <2>2, <2>3, <2>4, <2>5
<1>5. CASE g = [start |-> Cursor(from, clipped), end |-> to]
  <2>1. g.start = Cursor(from, clipped) /\ g.end = to BY <1>5
  <2> HIDE DEF clipped
  <2> QED BY <1>2, <1>3, <2>1
<1> QED BY <1>2, <1>4, <1>5

\* And whatever stretch of the window no item meets lies in one of them.
LEMMA FreeIsInGap ==
    ASSUME NEW items, \A i \in items : IsSpan(i), NEW from \in Int, NEW to \in Int,
           NEW s \in Int, NEW e \in Int, from <= s, s < e, e <= to,
           \A i \in items : i.end <= s \/ e <= i.start
    PROVE  \E g \in BuildGaps(from, to, items) : g.start <= s /\ e <= g.end
<1> DEFINE clipped == Clipped(from, to, items)
<1> DEFINE Before(c) == {d \in clipped : d.start < c.start}
<1>1. \A c \in clipped : IsSpan(c) /\ from <= c.start /\ c.end <= to BY ClippedSpans
<1>2. \A c \in clipped : c.end <= s \/ e <= c.start
  <2> SUFFICES ASSUME NEW c \in clipped PROVE c.end <= s \/ e <= c.start
    OBVIOUS
  <2>1. PICK i \in items : i.start <= c.start /\ c.end <= i.end BY ClippedSpans
  <2>2. i.start \in Int /\ i.end \in Int /\ c.start \in Int /\ c.end \in Int BY <1>1 DEF IsSpan
  <2>3. i.end <= s \/ e <= i.start OBVIOUS
  <2> QED BY <2>1, <2>2, <2>3
<1>3. BuildGaps(from, to, items) =
         {g \in {[start |-> Cursor(from, Before(c)), end |-> c.start] : c \in clipped}
                \cup {[start |-> Cursor(from, clipped), end |-> to]} : g.start < g.end}
  BY DEF BuildGaps
<1>4. ASSUME NEW done \in SUBSET clipped, \A d \in done : d.end <= s
      PROVE  Cursor(from, done) \in Int /\ Cursor(from, done) <= s
  <2>1. \A d \in done : d.end \in Int /\ d.end <= s BY <1>1, <1>4 DEF IsSpan
  <2> HIDE DEF clipped
  <2> QED BY <2>1, CursorIs
<1> DEFINE After == {c \in clipped : e <= c.start}
<1>5. CASE After = {}
  <2>1. \A c \in clipped : c.end <= s BY <1>2, <1>5
  <2> DEFINE g == [start |-> Cursor(from, clipped), end |-> to]
  <2>2. Cursor(from, clipped) \in Int /\ Cursor(from, clipped) <= s BY <1>4, <2>1
  <2>3. g \in BuildGaps(from, to, items)
    <3> HIDE DEF clipped
    <3> QED BY <1>3, <2>2
  <2> QED BY <2>2, <2>3
<1>6. CASE After # {}
  <2> DEFINE starts == {c.start : c \in After}
  <2>1. starts \in SUBSET Int /\ starts # {} /\ \A y \in starts : e <= y BY <1>1, <1>6 DEF IsSpan
  <2>2. Min(starts) \in starts /\ \A y \in starts : Min(starts) <= y
    <3> HIDE DEF starts
    <3> QED BY <2>1, MinExists
  <2>3. PICK c \in clipped : e <= c.start /\ \A d \in After : c.start <= d.start BY <2>2
  <2>4. \A d \in Before(c) : d.end <= s
    <3> SUFFICES ASSUME NEW d \in clipped, d.start < c.start PROVE d.end <= s
      OBVIOUS
    <3>1. d.start \in Int /\ c.start \in Int BY <1>1 DEF IsSpan
    <3>2. d \notin After BY <2>3, <3>1
    <3> QED BY <1>2, <3>2
  <2>5. Before(c) \in SUBSET clipped OBVIOUS
  <2>6. Cursor(from, Before(c)) \in Int /\ Cursor(from, Before(c)) <= s
    <3> HIDE DEF Before, clipped
    <3> QED BY <1>4, <2>4, <2>5
  <2>7. c.start \in Int BY <1>1 DEF IsSpan
  <2> DEFINE g == [start |-> Cursor(from, Before(c)), end |-> c.start]
  <2>8. g.start <= s /\ e <= g.end /\ g.start < g.end
    <3>1. g.start = Cursor(from, Before(c)) /\ g.end = c.start OBVIOUS
    <3> HIDE DEF g, Before, clipped
    <3> QED BY <2>3, <2>6, <2>7, <3>1
  <2>9. g \in BuildGaps(from, to, items)
    <3> HIDE DEF clipped, Before
    <3> QED BY <1>3, <2>8
  <2> QED BY <2>8, <2>9
<1> QED BY <1>5, <1>6

-----------------------------------------------------------------------------
(* The grid *)

Multiple(x, k) == x % k = 0

\* The multiples of k are the numbers q * k.
LEMMA MultipleIs ==
    ASSUME NEW k \in Nat \ {0}
    PROVE  /\ \A q \in Int : Multiple(q * k, k)
           /\ \A x \in Int : Multiple(x, k) => \E q \in Int : x = q * k
<1>1. ASSUME NEW q \in Int PROVE Multiple(q * k, k)
  <2>1. (q * k + 0) % k = 0 BY DividesOnce
  <2>2. q * k \in Int OBVIOUS
  <2>3. q * k + 0 = q * k
    <3> DEFINE p == q * k
    <3> HIDE DEF p
    <3>1. p \in Int BY <2>2 DEF p
    <3>2. p + 0 = p BY <3>1
    <3> QED BY <3>2 DEF p
  <2> QED BY <2>1, <2>3 DEF Multiple
<1>2. ASSUME NEW x \in Int, Multiple(x, k) PROVE \E q \in Int : x = q * k
  <2> DEFINE q == x \div k
  <2>1. q \in Int /\ x = q * k + (x % k) BY Divides
  <2>2. x % k = 0 BY <1>2 DEF Multiple
  <2> HIDE DEF q
  <2>3. q * k \in Int BY <2>1
  <2>4. x = q * k BY <2>1, <2>2, <2>3
  <2> QED BY <2>1, <2>4
<1> QED BY <1>1, <1>2

\* So are their sums and differences.
LEMMA MultiplesAdd ==
    ASSUME NEW k \in Nat \ {0}, NEW a \in Int, NEW b \in Int, Multiple(a, k), Multiple(b, k)
    PROVE  Multiple(a + b, k) /\ Multiple(a - b, k)
<1>1. PICK p \in Int : a = p * k BY MultipleIs
<1>2. PICK q \in Int : b = q * k BY MultipleIs
<1>3. (p + q) * k = p * k + q * k BY Distributes
<1>4. (p - q) * k = p * k - q * k
  <2>1. -q \in Int /\ (-q) * k = -(q * k) OBVIOUS
  <2> DEFINE n == -q
  <2>2. n \in Int BY <2>1
  <2> HIDE DEF n
  <2>3. (p + n) * k = p * k + n * k BY <2>2, Distributes
  <2>4. p * k \in Int /\ q * k \in Int OBVIOUS
  <2>5. p + n = p - q BY DEF n
  <2>6. n * k = -(q * k) BY <2>1 DEF n
  <2>7. (p - q) * k = p * k + n * k BY <2>3, <2>5
  <2> QED BY <2>4, <2>6, <2>7
<1>5. p + q \in Int /\ p - q \in Int OBVIOUS
<1>6. Multiple((p + q) * k, k) /\ Multiple((p - q) * k, k)
  <2> DEFINE u == p + q
  <2> DEFINE v == p - q
  <2>1. u \in Int /\ v \in Int BY <1>5
  <2> HIDE DEF u, v
  <2>2. Multiple(u * k, k) /\ Multiple(v * k, k) BY <2>1, MultipleIs
  <2> QED BY <2>2 DEF u, v
<1> QED BY <1>1, <1>2, <1>3, <1>4, <1>6

\* A multiple that is less than k is none of it.
LEMMA SmallMultiple ==
    ASSUME NEW k \in Nat \ {0}, NEW x \in 0..k - 1, Multiple(x, k)
    PROVE  x = 0
BY DEF Multiple

\* Between a time and the candidate it is aligned to there is none on the grid.
LEMMA AlignIs ==
    ASSUME business.interval \in Nat \ {0}, NEW t \in Nat
    PROVE  /\ AlignToSlot(t) \in Nat /\ t <= AlignToSlot(t)
           /\ AlignToSlot(t) < t + business.interval
           /\ RegularGrid => Multiple(AlignToSlot(t), business.interval)
<1> DEFINE k == business.interval
<1> DEFINE r == (t % Hour) % k
<1>1. Hour \in Nat \ {0} BY CalendarAssumption
<1>2. r \in 0..k - 1
  <2>1. t % Hour \in Int BY <1>1, Divides
  <2> QED BY <2>1, Divides
<1>3. AlignToSlot(t) = IF r = 0 THEN t ELSE t + k - r BY DEF AlignToSlot
<1>4. k \in Nat \ {0} OBVIOUS
<1>5. t \in Int OBVIOUS
<1>6. RegularGrid => t % k = r BY <1>1, <1>4, <1>5, GridFits, Zenon DEF RegularGrid
<1> HIDE DEF k, r
<1>7. AlignToSlot(t) \in Nat /\ t <= AlignToSlot(t) /\ AlignToSlot(t) < t + k
  BY <1>2, <1>3, <1>4
<1>8. ASSUME RegularGrid PROVE Multiple(AlignToSlot(t), k)
  <2> DEFINE q == t \div k
  <2>1. q \in Int /\ t = q * k + r
    <3>1. q \in Int /\ t = q * k + (t % k) BY <1>4, <1>5, Divides, Zenon
    <3>2. t % k = r BY <1>6, <1>8
    <3> HIDE DEF q
    <3> QED BY <3>1, <3>2
  <2> HIDE DEF q
  <2>2. Multiple(q * k, k) /\ Multiple(1 * k, k)
    <3>1. 1 \in Int OBVIOUS
    <3> QED BY <1>4, <2>1, <3>1, MultipleIs, Zenon
  <2> DEFINE m == q * k
  <2>3. m \in Int /\ t = m + r /\ Multiple(m, k) BY <1>4, <2>1, <2>2
  <2> HIDE DEF m
  <2>4. Multiple(k, k)
    <3>1. 1 * k = k BY <1>4
    <3> QED BY <2>2, <3>1
  <2>5. Multiple(m + k, k) BY <1>4, <2>3, <2>4, MultiplesAdd
  <2>6. CASE r = 0 BY <1>3, <2>3, <2>6
  <2>7. CASE r # 0
    <3>1. AlignToSlot(t) = m + k BY <1>2, <1>3, <1>4, <2>3, <2>7
    <3> QED BY <2>5, <3>1
  <2> QED BY <2>6, <2>7
<1> QED BY <1>7, <1>8 DEF k

\* Of a time of the day, OnGrid says that the interval divides it.
LEMMA OnGridIs ==
    ASSUME business.interval \in Nat \ {0}, RegularGrid, NEW s \in Int
    PROVE  OnGrid(s) <=> Multiple(s, business.interval)
<1> DEFINE k == business.interval
<1>1. Hour \in Nat \ {0} /\ Day \in Nat \ {0} /\ Day % Hour = 0 /\ Hour % k = 0
  BY CalendarAssumption DEF RegularGrid
<1>2. k \in Nat \ {0} OBVIOUS
<1> HIDE DEF k
<1>3. Day % k = 0 BY <1>1, <1>2, GridOfDay
<1>4. (s % Day) % k = s % k BY <1>1, <1>2, <1>3, GridFits
<1> QED BY <1>4 DEF OnGrid, Multiple, k

\* The candidates of a stretch: on the regular grid, all that fit in.
LEMMA GenerateIs ==
    ASSUME business.interval \in Nat \ {0}, NEW gap, gap.start \in Nat, gap.end \in Int,
           NEW d \in Nat, NEW least \in Int, NEW s
    PROVE  /\ s \in GenerateSlots(gap, d, least) =>
                  /\ s \in Int /\ gap.start <= s /\ s + d <= gap.end /\ s >= least
                  /\ RegularGrid => OnGrid(s)
           /\ RegularGrid /\ s \in Int /\ gap.start <= s /\ s + d <= gap.end /\ s >= least /\ OnGrid(s)
                  => s \in GenerateSlots(gap, d, least)
<1> DEFINE k == business.interval
<1> DEFINE first == AlignToSlot(gap.start)
<1>1. /\ first \in Nat /\ gap.start <= first /\ first < gap.start + k
      /\ RegularGrid => Multiple(first, k)
  BY AlignIs
<1>2. GenerateSlots(gap, d, least) =
         {x \in first .. gap.end - d : Multiple(x - first, k) /\ x >= least}
  BY DEF GenerateSlots, Multiple
<1>3. k \in Nat \ {0} OBVIOUS
<1>4. ASSUME RegularGrid, s \in Int PROVE OnGrid(s) <=> Multiple(s, k) BY <1>4, OnGridIs
<1> HIDE DEF k, first
<1>5. ASSUME s \in GenerateSlots(gap, d, least)
      PROVE  /\ s \in Int /\ gap.start <= s /\ s + d <= gap.end /\ s >= least
             /\ RegularGrid => OnGrid(s)
  <2>1. s \in Int /\ first <= s /\ s <= gap.end - d /\ Multiple(s - first, k) /\ s >= least
    BY <1>1, <1>2, <1>5
  <2>2. ASSUME RegularGrid PROVE Multiple(s, k)
    <3> DEFINE b == s - first
    <3>1. b \in Int /\ Multiple(b, k) /\ first + b = s BY <1>1, <2>1
    <3> HIDE DEF b
    <3>2. Multiple(first + b, k) BY <1>1, <1>3, <2>2, <3>1, MultiplesAdd
    <3> QED BY <3>1, <3>2
  <2> QED BY <1>1, <1>4, <2>1, <2>2
<1>6. ASSUME RegularGrid, s \in Int, gap.start <= s, s + d <= gap.end, s >= least, OnGrid(s)
      PROVE  s \in GenerateSlots(gap, d, least)
  <2>1. Multiple(s, k) /\ Multiple(first, k) BY <1>1, <1>4, <1>6
  <2>2. Multiple(s - first, k) /\ Multiple(first - s, k) BY <1>1, <1>3, <1>6, <2>1, MultiplesAdd
  <2>3. first <= s
    <3> SUFFICES ASSUME s < first PROVE FALSE
      BY <1>1, <1>6
    <3> DEFINE b == first - s
    <3>1. b \in 0..k - 1 /\ b > 0 /\ Multiple(b, k) BY <1>1, <1>3, <1>6, <2>2
    <3> HIDE DEF b
    <3> QED BY <1>3, <3>1, SmallMultiple
  <2> QED BY <1>1, <1>2, <1>6, <2>2, <2>3
<1> QED BY <1>5, <1>6

-----------------------------------------------------------------------------
(* The state *)

\* The clock, the settings, the opening windows and the rows keep their types.
THEOREM SlotsTypes == Spec => []TypeOK
<1>1. Init => TypeOK BY CalendarAssumption DEF Init, TypeOK
<1>2. TypeOK /\ [Next]_vars => TypeOK'
  <2> SUFFICES ASSUME TypeOK, [Next]_vars PROVE TypeOK'
    OBVIOUS
  <2>1. ASSUME NEW a \in Appointments, Book(a) \/ Reschedule(a) PROVE TypeOK'
    <3>1. PICK s \in Starts, d \in Durations : appointments' = [appointments EXCEPT ![a] = Period(s, d)]
      BY <2>1 DEF Book, Reschedule
    <3>2. UNCHANGED <<now, business, availabilities, blocks>> BY <2>1 DEF Book, Reschedule
    <3>3. Period(s, d) \in {Period(u, e) : u \in Starts, e \in Durations} OBVIOUS
    <3> QED BY <3>1, <3>2, <3>3 DEF TypeOK
  <2>2. ASSUME NEW a \in Appointments, Close(a) PROVE TypeOK' BY <2>2 DEF Close, TypeOK
  <2>3. ASSUME NEW b \in Blocks, CreateBlock(b) \/ CancelBlock(b) PROVE TypeOK'
    BY <2>3 DEF CreateBlock, CancelBlock, TypeOK
  <2>4. ASSUME NEW w \in 0 .. Week - 1,
               CreateAvailability(w) \/ UpdateAvailability(w) \/ DeleteAvailability(w)
        PROVE  TypeOK'
    BY <2>4 DEF CreateAvailability, UpdateAvailability, DeleteAvailability, TypeOK
  <2>5. CASE UpdateBusiness BY <2>5 DEF UpdateBusiness, TypeOK
  <2>6. CASE Tick BY <2>6 DEF Tick, TypeOK
  <2>7. CASE UNCHANGED vars BY <2>7 DEF vars, TypeOK
  <2> QED BY <2>1, <2>2, <2>3, <2>4, <2>5, <2>6, <2>7 DEF Next
<1> QED BY <1>1, <1>2, PTL DEF Spec

\* What occupies the professional is a stretch of time.
LEMMA BusySpans == TypeOK => \A x : \A i \in Busy(x) : IsSpan(i)
<1> SUFFICES ASSUME TypeOK, NEW x, NEW i \in Busy(x) PROVE IsSpan(i)
  OBVIOUS
<1>1. CASE \E a \in Appointments : appointments[a] # NoRow /\ i = appointments[a]
  <2>1. PICK s \in Starts, d \in Durations : i = Period(s, d) BY <1>1 DEF TypeOK
  <2>2. s \in Int BY DEF Starts
  <2>3. d \in Int /\ d >= 1 BY MenuAssumption, CalendarAssumption
  <2>4. i.start = s /\ i.end = s + d BY <2>1 DEF Period
  <2> QED BY <2>2, <2>3, <2>4 DEF IsSpan
<1>2. CASE \E b \in Blocks : blocks[b] # NoRow /\ i = blocks[b]
  <2>1. i \in Periods BY <1>2 DEF TypeOK
  <2>2. i \in [start : Nat, end : Nat] /\ i.start < i.end BY <2>1, MenuAssumption
  <2> QED BY <2>2 DEF IsSpan
<1> QED BY <1>1, <1>2 DEF Busy

\* The dates that are offered are days, and the window of a day lies in it.
LEMMA DaysAre ==
    ASSUME TypeOK
    PROVE  /\ Day \in Nat \ {0} /\ now \in Nat /\ business.days \in Nat /\ business.notice \in Nat
           /\ business.interval \in Nat \ {0}
           /\ Today \in Nat /\ LastDate \in Nat /\ Today <= LastDate
           /\ \A date \in Nat : \/ Window(date) = NoWindow
                                \/ /\ Window(date).start \in 0 .. Day - 1
                                   /\ Window(date).end \in 0 .. Day - 1
                                   /\ Window(date).start < Window(date).end
<1>1. Day \in Nat \ {0} /\ Week \in Nat \ {0} BY CalendarAssumption
<1>2. business \in [interval : Nat \ {0}, notice : Nat, days : Nat \ {0}] BY MenuAssumption DEF TypeOK
<1>3. now \in Nat
  <2>1. now \in 0 .. Days * Day - 1 BY CalendarAssumption DEF TypeOK
  <2> QED BY <2>1
<1>4. Today \in Nat
  <2>1. now \div Day \in Int BY <1>1, <1>3, Divides
  <2>2. now \div Day \in Nat BY <1>1, <1>3
  <2> QED BY <2>2 DEF Today, DateOf
<1>5. LastDate \in Nat /\ Today <= LastDate BY <1>2, <1>4 DEF LastDate
<1>6. ASSUME NEW date \in Nat
      PROVE  \/ Window(date) = NoWindow
             \/ /\ Window(date).start \in 0 .. Day - 1
                /\ Window(date).end \in 0 .. Day - 1
                /\ Window(date).start < Window(date).end
  <2>1. date % Week \in 0 .. Week - 1 BY <1>1, Divides
  <2>2. Window(date) \in Windows \cup {NoWindow} BY <2>1 DEF TypeOK, Window
  <2> DEFINE w == Window(date)
  <2> HIDE DEF w
  <2>3. w \in Windows => w \in [start : 0 .. Day - 1, end : 0 .. Day - 1] /\ w.start < w.end
    BY MenuAssumption
  <2>4. w \in Windows => w.start \in 0 .. Day - 1 /\ w.end \in 0 .. Day - 1 /\ w.start < w.end BY <2>3
  <2> QED BY <2>2, <2>4 DEF w
<1> QED BY <1>1, <1>2, <1>3, <1>4, <1>5, <1>6

-----------------------------------------------------------------------------
(* What SlotsForDate answers *)

\* A time between two places of a day is in that day, at that place.
LEMMA InDay ==
    ASSUME NEW date \in Int, NEW s \in Int, Day \in Nat \ {0}, date * Day <= s, s < date * Day + Day
    PROVE  DateOf(s) = date /\ s % Day = s - date * Day
<1> DEFINE m == date * Day
<1> DEFINE u == s - m
<1>1. m \in Int OBVIOUS
<1>2. u \in 0 .. Day - 1 /\ s = m + u
  <2> HIDE DEF m
  <2> QED BY <1>1 DEF m
<1>3. (m + u) \div Day = date /\ (m + u) % Day = u
  <2> HIDE DEF u
  <2> QED BY <1>2, DividesOnce
<1> HIDE DEF m
<1>4. s \div Day = date /\ s % Day = u
  <2> HIDE DEF u
  <2> QED BY <1>2, <1>3
<1> QED BY <1>4 DEF DateOf, m

\* And conversely.
LEMMA DayOf ==
    ASSUME NEW s \in Int, Day \in Nat \ {0}
    PROVE  DateOf(s) \in Int /\ s % Day \in 0 .. Day - 1 /\ s = DateOf(s) * Day + (s % Day)
BY Divides DEF DateOf

\* Dates follow the order of the times.
LEMMA DatesOrdered ==
    ASSUME NEW s \in Int, NEW t \in Int, Day \in Nat \ {0}, DateOf(s) < DateOf(t)
    PROVE  s < t
<1> DEFINE a == DateOf(s)
<1> DEFINE b == DateOf(t)
<1> DEFINE u == s % Day
<1> DEFINE v == t % Day
<1>1. /\ a \in Int /\ u \in 0 .. Day - 1 /\ s = a * Day + u
      /\ b \in Int /\ v \in 0 .. Day - 1 /\ t = b * Day + v
  BY DayOf
<1>2. a < b OBVIOUS
<1> HIDE DEF a, b, u, v
<1>3. b * Day >= a * Day + Day BY <1>1, <1>2, OneMore
<1>4. a * Day \in Int /\ b * Day \in Int BY <1>1
<1> QED BY <1>1, <1>3, <1>4

\* The rule a slot of a date keeps.
Fits(date, d, x, s) ==
    /\ s \in Nat /\ DateOf(s) = date
    /\ Opening(s, d) /\ Free(s, d, x)
    /\ date = Today => EnoughNotice(s)

\* SlotsForDate names starts that keep the rule and, on the regular grid, every
\* such start that lies on the grid.
OffersExact ==
    \A date \in OfferedDates, d \in Durations : \A x, s :
        /\ s \in SlotsForDate(date, d, x) =>
               Fits(date, d, x, s) /\ WithinHorizon(s) /\ (RegularGrid => OnGrid(s))
        /\ RegularGrid /\ Fits(date, d, x, s) /\ OnGrid(s) => s \in SlotsForDate(date, d, x)

\* What is offered for a date is exact: each gap lies in the window and is clear,
\* every clear stretch lies in a gap, and the candidates of a gap fit in it.
LEMMA OfferIs == TypeOK => OffersExact
<1> SUFFICES ASSUME TypeOK, NEW date \in OfferedDates, NEW d \in Durations, NEW x, NEW s
             PROVE  /\ s \in SlotsForDate(date, d, x) =>
                           Fits(date, d, x, s) /\ WithinHorizon(s) /\ (RegularGrid => OnGrid(s))
                    /\ RegularGrid /\ Fits(date, d, x, s) /\ OnGrid(s) => s \in SlotsForDate(date, d, x)
  BY DEF OffersExact
<1>1. /\ Day \in Nat \ {0} /\ now \in Nat /\ business.notice \in Nat
      /\ business.interval \in Nat \ {0}
      /\ Today \in Nat /\ LastDate \in Nat
  BY DaysAre
<1>2. date \in Nat /\ Today <= date /\ date <= LastDate BY <1>1 DEF OfferedDates
<1>3. d \in Nat /\ 1 <= d BY <1>1, MenuAssumption
<1> DEFINE m == date * Day
<1> DEFINE w == Window(date)
<1> DEFINE least == IF date = Today THEN now + business.notice ELSE m
<1> DEFINE gaps == BuildGaps(m + w.start, m + w.end, Busy(x))
<1>4. m \in Nat BY <1>1, <1>2
<1>5. least \in Int BY <1>1, <1>4
<1>6. w = NoWindow => s \notin SlotsForDate(date, d, x) BY DEF SlotsForDate
<1>7. w # NoWindow =>
         (s \in SlotsForDate(date, d, x) <=> \E gap \in gaps : s \in GenerateSlots(gap, d, least))
  BY DEF SlotsForDate
<1>8. w = NoWindow \/ (w.start \in 0 .. Day - 1 /\ w.end \in 0 .. Day - 1 /\ w.start < w.end)
  BY <1>2, DaysAre
<1>9. \A i \in Busy(x) : IsSpan(i) BY BusySpans
<1>10. date = Today => least = now + business.notice OBVIOUS
<1>11. date # Today => least = m OBVIOUS
<1>12. ASSUME w # NoWindow, NEW g \in gaps
       PROVE  /\ g.start \in Nat /\ g.end \in Int /\ g.start < g.end
              /\ m + w.start <= g.start /\ g.end <= m + w.end
              /\ \A i \in Busy(x) : i.end <= g.start \/ g.end <= i.start
  <2> DEFINE from == m + w.start
  <2> DEFINE to == m + w.end
  <2>1. from \in Nat /\ to \in Nat /\ from < to
    <3> HIDE DEF m, w
    <3> QED BY <1>4, <1>8, <1>12
  <2>2. g \in BuildGaps(from, to, Busy(x)) OBVIOUS
  <2> HIDE DEF from, to, gaps
  <2>3. /\ g.start \in Int /\ g.end \in Int
        /\ from <= g.start /\ g.start < g.end /\ g.end <= to
        /\ \A i \in Busy(x) : i.end <= g.start \/ g.end <= i.start
    BY <1>9, <2>1, <2>2, GapsAreFree
  <2>4. g.start \in Nat BY <2>1, <2>3
  <2> QED BY <2>3, <2>4 DEF from, to
<1>13. DateOf(now) = Today BY DEF Today
<1> HIDE DEF m, w, least, gaps
<1>14. ASSUME s \in SlotsForDate(date, d, x)
       PROVE  Fits(date, d, x, s) /\ WithinHorizon(s) /\ (RegularGrid => OnGrid(s))
  <2>1. w # NoWindow BY <1>6, <1>14
  <2>2. PICK g \in gaps : s \in GenerateSlots(g, d, least) BY <1>7, <1>14, <2>1
  <2>3. /\ g.start \in Nat /\ g.end \in Int
        /\ m + w.start <= g.start /\ g.end <= m + w.end
        /\ \A i \in Busy(x) : i.end <= g.start \/ g.end <= i.start
    BY <1>12, <2>1
  <2>4. /\ s \in Int /\ g.start <= s /\ s + d <= g.end /\ s >= least
        /\ RegularGrid => OnGrid(s)
    BY <1>1, <1>3, <1>5, <2>2, <2>3, GenerateIs
  <2>5. /\ m <= s /\ s < m + Day /\ m + w.start <= s
        /\ m <= s + d /\ s + d < m + Day /\ s + d <= m + w.end
    BY <1>1, <1>3, <1>4, <1>8, <2>1, <2>3, <2>4
  <2>6. DateOf(s) = date /\ s % Day = s - m BY <1>1, <1>2, <2>4, <2>5, InDay DEF m
  <2>7. DateOf(s + d) = date /\ (s + d) % Day = (s + d) - m
    <3> DEFINE e == s + d
    <3>1. e \in Int /\ m <= e /\ e < m + Day BY <1>3, <2>4, <2>5
    <3> HIDE DEF e
    <3>2. date \in Int BY <1>2
    <3>3. DateOf(e) = date /\ e % Day = e - m BY <1>1, <3>1, <3>2, InDay, Zenon DEF m
    <3> QED BY <3>3, Zenon DEF e
  <2>8. Opening(s, d)
    <3>1. w.start <= s - m /\ (s + d) - m <= w.end BY <1>3, <1>4, <1>8, <2>1, <2>4, <2>5
    <3>2. w = Window(DateOf(s)) BY <2>6 DEF w
    <3> QED BY <2>1, <2>6, <2>7, <3>1, <3>2 DEF Opening
  <2>9. Free(s, d, x)
    <3> SUFFICES ASSUME NEW i \in Busy(x) PROVE ~Overlaps(i, Period(s, d))
      BY DEF Free
    <3>1. i.start \in Int /\ i.end \in Int BY <1>9 DEF IsSpan
    <3>2. i.end <= g.start \/ g.end <= i.start BY <2>3
    <3>3. Period(s, d).start = s /\ Period(s, d).end = s + d BY DEF Period
    <3>4. i.end <= s \/ s + d <= i.start BY <1>3, <2>3, <2>4, <3>1, <3>2
    <3> QED BY <1>3, <2>4, <3>1, <3>3, <3>4 DEF Overlaps
  <2>10. date = Today => EnoughNotice(s) BY <1>1, <1>10, <2>4 DEF EnoughNotice
  <2>11. s >= now
    <3>1. CASE date = Today BY <1>1, <1>10, <2>4, <3>1
    <3>2. CASE date # Today
      <4>1. Today < date BY <1>1, <1>2, <3>2
      <4>2. DateOf(now) < DateOf(s) BY <1>13, <2>6, <4>1
      <4>3. now \in Int BY <1>1
      <4>4. now < s BY <1>1, <2>4, <4>2, <4>3, DatesOrdered
      <4> QED BY <1>1, <2>4, <4>4
    <3> QED BY <3>1, <3>2
  <2>12. s \in Nat /\ WithinHorizon(s) BY <1>1, <1>2, <2>4, <2>6, <2>11 DEF WithinHorizon
  <2> QED BY <2>4, <2>6, <2>8, <2>9, <2>10, <2>12 DEF Fits
<1>15. ASSUME RegularGrid, Fits(date, d, x, s), OnGrid(s) PROVE s \in SlotsForDate(date, d, x)
  <2>1. s \in Nat /\ DateOf(s) = date /\ Opening(s, d) /\ Free(s, d, x) /\ (date = Today => EnoughNotice(s))
    BY <1>15 DEF Fits
  <2>2. /\ w # NoWindow /\ DateOf(s + d) = date
        /\ w.start <= s % Day /\ (s + d) % Day <= w.end
    BY <2>1 DEF Opening, w
  <2>3. s % Day \in 0 .. Day - 1 /\ s = m + (s % Day)
    <3>1. s \in Int BY <2>1
    <3> QED BY <1>1, <2>1, <3>1, DayOf, Zenon DEF m
  <2>4. (s + d) % Day \in 0 .. Day - 1 /\ s + d = m + ((s + d) % Day)
    <3> DEFINE e == s + d
    <3>1. e \in Int /\ DateOf(e) = date BY <1>3, <2>1, <2>2
    <3> HIDE DEF e
    <3>2. e % Day \in 0 .. Day - 1 /\ e = m + (e % Day) BY <1>1, <3>1, DayOf, Zenon DEF m
    <3> QED BY <3>2 DEF e
  <2> DEFINE u == s % Day
  <2> DEFINE v == (s + d) % Day
  <2> DEFINE from == m + w.start
  <2> DEFINE to == m + w.end
  <2> DEFINE e == s + d
  <2>5. /\ u \in Int /\ s = m + u /\ w.start <= u
        /\ v \in Int /\ s + d = m + v /\ v <= w.end
    BY <2>2, <2>3, <2>4
  <2> HIDE DEF u, v
  <2>6. /\ from \in Int /\ to \in Int /\ s \in Int /\ e \in Int /\ m <= s
        /\ from <= s /\ s < e /\ e <= to
    BY <1>3, <1>4, <1>8, <2>1, <2>2, <2>5
  <2>7. \A i \in Busy(x) : i.end <= s \/ e <= i.start
    <3> SUFFICES ASSUME NEW i \in Busy(x) PROVE i.end <= s \/ e <= i.start
      OBVIOUS
    <3>1. i.start \in Int /\ i.end \in Int BY <1>9 DEF IsSpan
    <3>2. ~Overlaps(i, Period(s, d)) BY <2>1 DEF Free
    <3>3. Period(s, d).start = s /\ Period(s, d).end = e BY DEF Period
    <3>4. ~(i.start < e /\ s < i.end) BY <3>2, <3>3 DEF Overlaps
    <3> HIDE DEF e
    <3> QED BY <2>6, <3>1, <3>4
  <2> HIDE DEF from, to, e
  <2>8. PICK g \in BuildGaps(from, to, Busy(x)) : g.start <= s /\ e <= g.end
    BY <1>9, <2>6, <2>7, FreeIsInGap
  <2>9. g \in gaps BY DEF gaps, from, to
  <2>10. g.start \in Nat /\ g.end \in Int BY <1>12, <2>2, <2>9
  <2>11. s >= least
    <3>1. CASE date = Today BY <1>10, <2>1, <3>1 DEF EnoughNotice
    <3>2. CASE date # Today BY <1>4, <1>11, <2>6, <3>2
    <3> QED BY <3>1, <3>2
  <2>12. s \in GenerateSlots(g, d, least)
    BY <1>1, <1>3, <1>5, <1>15, <2>6, <2>8, <2>10, <2>11, GenerateIs DEF e
  <2> QED BY <1>7, <2>2, <2>9, <2>12
<1> QED BY <1>14, <1>15

-----------------------------------------------------------------------------
(* The offers and the bookings *)

\* An accepted booking is for a date that is offered, and keeps the rule of its slots.
LEMMA BookableFits ==
    ASSUME TypeOK, NEW s \in Starts, NEW d \in Durations, NEW x, Bookable(s, d, x)
    PROVE  DateOf(s) \in OfferedDates /\ Fits(DateOf(s), d, x, s) /\ OnGrid(s)
<1>1. s \in Nat BY DEF Starts
<1>2. /\ EnoughNotice(s) /\ WithinHorizon(s) /\ OnGrid(s) /\ Opening(s, d) /\ Free(s, d, x)
  BY DEF Bookable
<1>3. s >= now /\ DateOf(s) <= LastDate BY <1>2 DEF WithinHorizon
<1>4. Day \in Nat \ {0} /\ now \in Int /\ Today \in Int /\ LastDate \in Int BY DaysAre
<1>5. s \in Int BY <1>1
<1>6. DateOf(s) \in Int BY <1>4, <1>5, DayOf
<1>7. ~(DateOf(s) < Today)
  <2>1. DateOf(s) < DateOf(now) => s < now BY <1>4, <1>5, DatesOrdered
  <2> QED BY <1>3, <1>4, <1>5, <2>1 DEF Today
<1>8. DateOf(s) \in OfferedDates BY <1>3, <1>4, <1>6, <1>7 DEF OfferedDates
<1> QED BY <1>1, <1>2, <1>8 DEF Fits

\* Every start that is offered keeps the rules of a booking.
THEOREM OffersAreKept == Spec => []OffersKeepRules
<1>1. TypeOK => OffersKeepRules
  <2> SUFFICES ASSUME TypeOK, NEW date \in OfferedDates, NEW d \in Durations, NEW x \in Excludable,
                      NEW s \in SlotsForDate(date, d, x)
               PROVE  /\ WithinHorizon(s) /\ Opening(s, d) /\ Free(s, d, x)
                      /\ date = Today => EnoughNotice(s)
                      /\ RegularGrid => OnGrid(s)
    BY DEF OffersKeepRules
  <2>1. Fits(date, d, x, s) /\ WithinHorizon(s) /\ (RegularGrid => OnGrid(s))
    BY OfferIs DEF OffersExact
  <2> QED BY <2>1 DEF Fits
<1> QED BY <1>1, SlotsTypes, PTL

\* On the regular grid, nothing a booking would accept is hidden.
THEOREM NothingIsHidden == Spec => []BookableIsOffered
<1>1. TypeOK => BookableIsOffered
  <2> SUFFICES ASSUME TypeOK, RegularGrid, NEW s \in Starts, NEW d \in Durations, NEW x \in Excludable,
                      Bookable(s, d, x)
               PROVE  s \in SlotsForDate(DateOf(s), d, x)
    BY DEF BookableIsOffered
  <2>1. DateOf(s) \in OfferedDates /\ Fits(DateOf(s), d, x, s) /\ OnGrid(s) BY BookableFits
  <2> QED BY <2>1, OfferIs DEF OffersExact
<1> QED BY <1>1, SlotsTypes, PTL

\* On the regular grid, an offer is withdrawn only for the clock, the settings, the
\* opening hours, or because its own time is taken.
THEOREM OffersAreStable == Spec => OffersStand
<1> DEFINE Stand ==
      RegularGrid /\ UNCHANGED <<now, business, availabilities>> =>
        \A date \in OfferedDates, d \in Durations :
            \A s \in SlotsForDate(date, d, NoRow) :
                s \in SlotsForDate(date, d, NoRow)' \/ ~Free(s, d, NoRow)'
<1>1. ASSUME OffersExact, OffersExact' PROVE Stand
  <2> SUFFICES ASSUME RegularGrid, UNCHANGED <<now, business, availabilities>>,
                      NEW date \in OfferedDates, NEW d \in Durations,
                      NEW s \in SlotsForDate(date, d, NoRow), Free(s, d, NoRow)'
               PROVE  s \in SlotsForDate(date, d, NoRow)'
    OBVIOUS
  <2>1. Fits(date, d, NoRow, s) /\ OnGrid(s) BY <1>1 DEF OffersExact
  <2>2. date \in OfferedDates' BY DEF OfferedDates, Today, LastDate
  <2>3. RegularGrid' BY DEF RegularGrid
  <2>4. OnGrid(s)' BY <2>1 DEF OnGrid
  <2>5. Fits(date, d, NoRow, s)'
    BY <2>1 DEF Fits, Opening, Window, EnoughNotice, Today, DateOf
  <2> QED BY <1>1, <2>2, <2>3, <2>4, <2>5 DEF OffersExact
<1>2. [][Stand]_vars => OffersStand BY PTL DEF OffersStand
<1>3. TypeOK => OffersExact BY OfferIs
<1>4. OffersExact /\ OffersExact' => [Stand]_vars BY <1>1
<1> QED BY <1>2, <1>3, <1>4, SlotsTypes, PTL

-----------------------------------------------------------------------------
(* The suggestions *)

\* A sequence that names every element of a set once, and nothing else.
Enumerates(q, S) ==
    /\ q \in Seq(S)
    /\ \A s \in S : \E i \in 1 .. Len(q) : q[i] = s
    /\ \A i, j \in 1 .. Len(q) : q[i] = q[j] => i = j

\* Ascending enumerates a finite set of numbers, the least one first: how many lie
\* below an element is a one-to-one map onto the places of the sequence.
LEMMA AscendingIs ==
    ASSUME NEW S \in SUBSET Int, IsFiniteSet(S)
    PROVE  /\ Enumerates(Ascending(S), S)
           /\ S # {} => Len(Ascending(S)) >= 1 /\ \A s \in S : Ascending(S)[1] <= s
<1> DEFINE n == Cardinality(S)
<1> DEFINE Below(s) == {t \in S : t < s}
<1> DEFINE rank == [s \in S |-> Cardinality(Below(s))]
<1>1. n \in Nat BY FS_CardinalityType
<1>2. ASSUME NEW s \in S
      PROVE  IsFiniteSet(Below(s)) /\ Cardinality(Below(s)) \in 0 .. n - 1
  <2>1. Below(s) \in SUBSET S /\ Below(s) # S OBVIOUS
  <2> HIDE DEF Below
  <2>2. /\ IsFiniteSet(Below(s)) /\ Cardinality(Below(s)) <= n
        /\ Cardinality(Below(s)) # n
    BY <2>1, FS_Subset
  <2>3. Cardinality(Below(s)) \in Nat BY <2>2, FS_CardinalityType
  <2> QED BY <1>1, <2>2, <2>3
<1>3. ASSUME NEW s \in S, NEW u \in S, s < u PROVE Cardinality(Below(s)) # Cardinality(Below(u))
  <2>1. Below(s) \in SUBSET Below(u) /\ Below(s) # Below(u)
    <3>1. s \in Below(u) /\ s \notin Below(s) BY <1>3
    <3>2. \A t \in S : t \in Int OBVIOUS
    <3>3. \A t \in S : t < s => t < u BY <1>3, <3>2
    <3> QED BY <3>1, <3>3
  <2> HIDE DEF Below
  <2> QED BY <1>2, <2>1, FS_Subset
<1>4. ASSUME NEW s \in S, NEW u \in S, Cardinality(Below(s)) = Cardinality(Below(u)) PROVE s = u
  <2>1. s \in Int /\ u \in Int OBVIOUS
  <2>2. ~(s < u) /\ ~(u < s)
    <3> HIDE DEF Below
    <3> QED BY <1>3, <1>4
  <2> QED BY <2>1, <2>2
<1>5. rank \in Injection(S, 0 .. n - 1)
  <2> HIDE DEF Below
  <2> QED BY <1>2, <1>4 DEF Injection, IsInjective
<1>6. rank \in Surjection(S, 0 .. n - 1)
  <2> DEFINE m == n - 1
  <2>1. m \in Int BY <1>1
  <2>2. IsFiniteSet(0 .. m) /\ Cardinality(0 .. m) = IF 0 > m THEN 0 ELSE (m - 0) + 1
    <3> HIDE DEF m
    <3>1. 0 \in Int OBVIOUS
    <3> QED BY <2>1, <3>1, FS_Interval
  <2>3. Cardinality(0 .. m) = n
    <3>1. m = n - 1 OBVIOUS
    <3> HIDE DEF m, n
    <3> QED BY <1>1, <2>2, <3>1
  <2>4. rank \in Injection(S, 0 .. m) BY <1>5
  <2> HIDE DEF m, rank
  <2>5. rank \in Surjection(S, 0 .. m) BY <2>2, <2>3, <2>4, FS_Injection DEF n
  <2> QED BY <2>5 DEF m
<1> DEFINE A == Ascending(S)
<1>7. ASSUME NEW i \in 1 .. n
      PROVE  A[i] \in S /\ Cardinality(Below(A[i])) = i - 1
  <2>1. i - 1 \in 0 .. n - 1 BY <1>1
  <2>2. PICK s \in S : rank[s] = i - 1 BY <1>6, <2>1 DEF Surjection
  <2>3. Cardinality(Below(s)) = i - 1 BY <2>2
  <2>4. A[i] = CHOOSE u \in S : Cardinality(Below(u)) = i - 1 BY DEF Ascending
  <2> HIDE DEF Below, A
  <2> QED BY <2>3, <2>4
<1>8. A \in Seq(S) /\ Len(A) = n
  <2>1. A = [i \in 1 .. n |-> A[i]] BY DEF Ascending
  <2> HIDE DEF A, Below, n
  <2> QED BY <1>1, <1>7, <2>1
<1>9. ASSUME NEW s \in S PROVE \E i \in 1 .. Len(A) : A[i] = s
  <2> DEFINE i == Cardinality(Below(s)) + 1
  <2>1. i \in 1 .. n /\ i - 1 = Cardinality(Below(s))
    <3> HIDE DEF Below
    <3> QED BY <1>1, <1>2
  <2> HIDE DEF i, A, Below, n
  <2>2. A[i] \in S /\ Cardinality(Below(A[i])) = Cardinality(Below(s)) BY <1>7, <2>1
  <2>3. A[i] = s BY <1>4, <2>2
  <2> QED BY <1>8, <2>1, <2>3
<1>10. ASSUME NEW i \in 1 .. Len(A), NEW j \in 1 .. Len(A), A[i] = A[j] PROVE i = j
  <2>1. i \in 1 .. n /\ j \in 1 .. n BY <1>8
  <2> HIDE DEF A, Below, n
  <2>2. Cardinality(Below(A[i])) = i - 1 /\ Cardinality(Below(A[j])) = j - 1 BY <1>7, <2>1
  <2> QED BY <1>1, <1>10, <2>1, <2>2
<1>11. ASSUME S # {} PROVE Len(A) >= 1 /\ \A s \in S : A[1] <= s
  <2>1. n >= 1 BY <1>1, <1>11, FS_EmptySet
  <2>2. 1 \in 1 .. n BY <1>1, <2>1
  <2>3. A[1] \in S /\ Cardinality(Below(A[1])) = 0
    <3> HIDE DEF A, Below, n
    <3> QED BY <1>7, <2>2
  <2>4. Below(A[1]) = {}
    <3> HIDE DEF A, Below
    <3> QED BY <1>2, <2>3, FS_EmptySet
  <2>5. \A s \in S : ~(s < A[1])
    <3> HIDE DEF A
    <3> QED BY <2>4
  <2>6. \A s \in S : A[1] <= s
    <3> DEFINE m == A[1]
    <3>1. m \in Int /\ (\A t \in S : t \in Int) /\ \A s \in S : ~(s < m) BY <2>3, <2>5
    <3> HIDE DEF m
    <3>2. \A s \in S : m <= s BY <3>1
    <3> QED BY <3>2 DEF m
  <2> QED BY <1>8, <2>1, <2>6
<1> HIDE DEF A
<1>12. Enumerates(A, S) BY <1>8, <1>9, <1>10 DEF Enumerates
<1> QED BY <1>11, <1>12 DEF A

\* Two enumerations of sets without a common element, one after the other.
LEMMA ConcatEnumerates ==
    ASSUME NEW A, NEW B, A \cap B = {}, NEW p, NEW q, Enumerates(p, A), Enumerates(q, B)
    PROVE  Enumerates(p \o q, A \cup B) /\ (p # <<>> => Len(p \o q) >= 1 /\ (p \o q)[1] = p[1])
<1>1. p \in Seq(A) /\ q \in Seq(B) BY DEF Enumerates
<1>2. Len(p) \in Nat /\ Len(q) \in Nat BY <1>1
<1> DEFINE r == p \o q
<1>3. p \in Seq(A \cup B) /\ q \in Seq(A \cup B) BY <1>1
<1>4. /\ r \in Seq(A \cup B) /\ Len(r) = Len(p) + Len(q)
      /\ \A i \in 1 .. Len(p) + Len(q) : r[i] = IF i <= Len(p) THEN p[i] ELSE q[i - Len(p)]
  BY <1>3, ConcatProperties
<1> HIDE DEF r
<1>5. ASSUME NEW s \in A \cup B PROVE \E i \in 1 .. Len(r) : r[i] = s
  <2>1. CASE s \in A
    <3>1. PICK i \in 1 .. Len(p) : p[i] = s BY <2>1 DEF Enumerates
    <3>2. i \in 1 .. Len(p) + Len(q) /\ i <= Len(p) BY <1>2
    <3> QED BY <1>4, <3>1, <3>2
  <2>2. CASE s \in B
    <3>1. PICK j \in 1 .. Len(q) : q[j] = s BY <2>2 DEF Enumerates
    <3> DEFINE i == Len(p) + j
    <3>2. i \in 1 .. Len(p) + Len(q) /\ ~(i <= Len(p)) /\ i - Len(p) = j BY <1>2
    <3> HIDE DEF i
    <3> QED BY <1>4, <3>1, <3>2
  <2> QED BY <2>1, <2>2
<1>6. ASSUME NEW i \in 1 .. Len(r)
      PROVE  \/ i \in 1 .. Len(p) /\ r[i] = p[i] /\ r[i] \in A
             \/ i \notin 1 .. Len(p) /\ i - Len(p) \in 1 .. Len(q) /\ r[i] = q[i - Len(p)] /\ r[i] \in B
  <2>1. i \in 1 .. Len(p) + Len(q) BY <1>4
  <2>2. r[i] = IF i <= Len(p) THEN p[i] ELSE q[i - Len(p)] BY <1>4, <2>1
  <2>3. CASE i <= Len(p)
    <3>1. i \in 1 .. Len(p) /\ r[i] = p[i] BY <1>2, <2>1, <2>2, <2>3
    <3> QED BY <1>1, <3>1
  <2>4. CASE ~(i <= Len(p))
    <3> DEFINE j == i - Len(p)
    <3>1. i \notin 1 .. Len(p) /\ j \in 1 .. Len(q) /\ r[i] = q[j] BY <1>2, <2>1, <2>2, <2>4
    <3>2. r[i] \in B
      <4> HIDE DEF j
      <4> QED BY <1>1, <3>1
    <3> QED BY <3>1, <3>2
  <2> QED BY <2>3, <2>4
<1>7. ASSUME NEW i \in 1 .. Len(r), NEW j \in 1 .. Len(r), r[i] = r[j] PROVE i = j
  <2>1. CASE i \in 1 .. Len(p) /\ j \in 1 .. Len(p)
    <3>1. p[i] = p[j] BY <1>6, <1>7, <2>1
    <3> QED BY <2>1, <3>1 DEF Enumerates
  <2>2. CASE i \notin 1 .. Len(p) /\ j \notin 1 .. Len(p)
    <3> DEFINE a == i - Len(p)
    <3> DEFINE b == j - Len(p)
    <3>1. a \in 1 .. Len(q) /\ b \in 1 .. Len(q) /\ q[a] = q[b] BY <1>6, <1>7, <2>2
    <3>2. a = b
      <4> HIDE DEF a, b
      <4> QED BY <3>1 DEF Enumerates
    <3>3. i \in Int /\ j \in Int BY <1>2, <1>4
    <3> QED BY <1>2, <3>2, <3>3
  <2>3. CASE i \in 1 .. Len(p) <=> j \notin 1 .. Len(p)
    <3>1. r[i] \in A \cap B BY <1>6, <1>7, <2>3
    <3> QED BY <3>1
  <2> QED BY <2>1, <2>2, <2>3
<1>8. Enumerates(r, A \cup B) BY <1>4, <1>5, <1>7 DEF Enumerates
<1>9. ASSUME p # <<>> PROVE Len(r) >= 1 /\ r[1] = p[1]
  <2>1. Len(p) >= 1 BY <1>1, <1>9
  <2> QED BY <1>2, <1>4, <2>1
<1> QED BY <1>8, <1>9 DEF r

\* What SubSeq takes: as many elements as asked for, or all.
LEMMA Limited ==
    ASSUME NEW S, NEW q \in Seq(S), NEW limit \in Nat \ {0}
    PROVE  LET r == SubSeq(q, 1, Min({limit, Len(q)})) IN
           /\ r \in Seq(S) /\ Len(r) \in Nat /\ Len(r) <= Len(q)
           /\ Len(r) < limit => Len(r) = Len(q)
           /\ Len(q) >= 1 => Len(r) >= 1
           /\ \A i \in 1 .. Len(r) : r[i] = q[i]
<1> DEFINE n == Min({limit, Len(q)})
<1> DEFINE r == SubSeq(q, 1, n)
<1>1. Len(q) \in Nat OBVIOUS
<1>2. n = IF limit < Len(q) THEN limit ELSE Len(q) BY <1>1, MinOfTwo
<1> HIDE DEF n
<1>3. n \in Nat /\ n <= Len(q) /\ (n < limit => n = Len(q)) /\ (Len(q) >= 1 => n >= 1) BY <1>1, <1>2
<1>4. \A i \in 1 .. n : q[i] \in S BY <1>1, <1>3
<1>5. 1 \in Int /\ n \in Int BY <1>3
<1>6. /\ r \in Seq(S)
      /\ Len(r) = IF 1 <= n THEN (n - 1) + 1 ELSE 0
      /\ \A i \in 1 .. (n - 1) + 1 : r[i] = q[1 + (i - 1)]
  BY <1>4, <1>5, SubSeqProperties
<1> HIDE DEF r
<1>7. Len(r) = n BY <1>3, <1>6
<1>8. ASSUME NEW i \in 1 .. n PROVE r[i] = q[i]
  <2>1. i \in 1 .. (n - 1) + 1 /\ 1 + (i - 1) = i BY <1>3
  <2> QED BY <1>6, <2>1, Zenon
<1> QED BY <1>3, <1>6, <1>7, <1>8 DEF r, n

\* The first elements of an enumeration are different elements of its set.
LEMMA FirstOnes ==
    ASSUME NEW S, NEW q, Enumerates(q, S), NEW r \in Seq(S), Len(r) <= Len(q),
           \A i \in 1 .. Len(r) : r[i] = q[i]
    PROVE  /\ Range(r) \subseteq S /\ Cardinality(Range(r)) = Len(r)
           /\ Len(r) = Len(q) => S \subseteq Range(r)
<1> DEFINE n == Len(r)
<1>1. n \in Nat /\ Len(q) \in Nat /\ DOMAIN r = 1 .. n BY DEF Enumerates
<1>2. ASSUME NEW i \in 1 .. n, NEW j \in 1 .. n, r[i] = r[j] PROVE i = j
  <2>1. i \in 1 .. Len(q) /\ j \in 1 .. Len(q) BY <1>1
  <2>2. r[i] = q[i] /\ r[j] = q[j] OBVIOUS
  <2>3. q[i] = q[j] BY <1>2, <2>2
  <2> QED BY <2>1, <2>3 DEF Enumerates
<1>3. ASSUME n = Len(q), NEW s \in S PROVE \E i \in 1 .. n : r[i] = s BY <1>3 DEF Enumerates
<1>4. r \in [1 .. n -> Range(r)] BY <1>1 DEF Range
<1>5. \A s \in Range(r) : \E i \in 1 .. n : r[i] = s BY <1>1 DEF Range
<1>6. Range(r) \subseteq S BY <1>1, <1>5
<1> HIDE DEF n
<1>7. r \in Bijection(1 .. n, Range(r))
  BY <1>2, <1>4, <1>5 DEF Bijection, Injection, IsInjective, Surjection
<1>8. IsFiniteSet(1 .. n) /\ Cardinality(1 .. n) = n
  <2>1. 1 \in Int /\ n \in Int BY <1>1
  <2>2. IsFiniteSet(1 .. n) /\ Cardinality(1 .. n) = IF 1 > n THEN 0 ELSE (n - 1) + 1
    BY <2>1, FS_Interval
  <2> QED BY <1>1, <2>2
<1>9. ExistsBijection(1 .. n, Range(r)) BY <1>7 DEF ExistsBijection
<1>10. Cardinality(Range(r)) = n BY <1>8, <1>9, FS_Bijection
<1>11. ASSUME n = Len(q) PROVE S \subseteq Range(r)
  <2> SUFFICES ASSUME NEW s \in S PROVE s \in Range(r)
    OBVIOUS
  <2>1. PICK i \in 1 .. n : r[i] = s BY <1>3, <1>11
  <2> QED BY <1>1, <2>1 DEF Range
<1> QED BY <1>6, <1>10, <1>11 DEF n

\* What is offered on a range of offered dates is a finite set of times of these dates.
LEMMA OffersFinite ==
    ASSUME TypeOK, NEW dates, dates \subseteq OfferedDates, NEW d \in Durations, NEW x,
           NEW S, S \subseteq UNION {SlotsForDate(date, d, x) : date \in dates}
    PROVE  /\ S \in SUBSET Int /\ IsFiniteSet(S)
           /\ \A s \in S : DateOf(s) \in dates /\ s \in SlotsForDate(DateOf(s), d, x)
<1>1. ASSUME NEW s \in S
      PROVE  /\ s \in Nat /\ DateOf(s) \in dates /\ DateOf(s) \in OfferedDates
             /\ s \in SlotsForDate(DateOf(s), d, x)
  <2>1. PICK date \in dates : s \in SlotsForDate(date, d, x) OBVIOUS
  <2>2. Fits(date, d, x, s) BY <2>1, OfferIs DEF OffersExact
  <2> QED BY <2>1, <2>2 DEF Fits
<1> DEFINE last == LastDate * Day + Day
<1>2. Day \in Nat \ {0} /\ LastDate \in Nat /\ Today \in Nat BY DaysAre
<1>3. last \in Nat BY <1>2
<1>4. ASSUME NEW s \in S PROVE s <= last
  <2>1. s \in Int /\ DateOf(s) <= LastDate BY <1>1, <1>2 DEF OfferedDates
  <2> DEFINE a == DateOf(s)
  <2> DEFINE b == LastDate
  <2> DEFINE u == s % Day
  <2>2. a \in Int /\ u \in 0 .. Day - 1 /\ s = a * Day + u BY <1>2, <2>1, DayOf
  <2>3. a <= b /\ b \in Int BY <1>2, <2>1
  <2> HIDE DEF a, b, u
  <2>4. a * Day <= b * Day
    <3>1. b >= a + 1 => b * Day >= a * Day + Day BY <1>2, <2>2, <2>3, OneMore
    <3>2. a * Day \in Int /\ b * Day \in Int BY <1>2, <2>2, <2>3
    <3>3. b = a \/ b >= a + 1 BY <2>2, <2>3
    <3> QED BY <1>2, <3>1, <3>2, <3>3
  <2>5. a * Day \in Int /\ b * Day \in Int BY <1>2, <2>2, <2>3
  <2>6. last = b * Day + Day BY DEF b
  <2> HIDE DEF last
  <2> QED BY <1>2, <2>2, <2>4, <2>5, <2>6
<1> HIDE DEF last
<1>5. S \in SUBSET Nat BY <1>1
<1>6. IsFiniteSet(S) BY <1>3, <1>4, <1>5, FS_BoundedSetOfNaturals
<1> QED BY <1>1, <1>5, <1>6

\* On the regular grid, check_and_suggest agrees with the booking, and names the
\* bookable starts it may look at, each once and up to the limit.
THEOREM SuggestionsAreComplete == Spec => []SuggestionsComplete
<1>1. ASSUME TypeOK, RegularGrid, NEW d \in Durations, NEW x \in Excludable,
             NEW r \in Starts, DateOf(r) \in OfferedDates, NEW a \in Asked
      PROVE  LET bookable == {s \in Starts : Bookable(s, d, x)}
                 answer == CheckAndSuggest(r, d, x, a.limit, a.ahead)
                 named == Range(answer.suggestions)
                 later == {s \in bookable : s > r /\ DateOf(s) = DateOf(r)}
             IN  /\ r \in bookable => answer.available
                 /\ ~answer.available =>
                      /\ r \notin named
                      /\ Cardinality(named) = Len(answer.suggestions)
                      /\ later # {} => answer.suggestions[1] \in r + 1 .. Min(later)
                      /\ Len(answer.suggestions) < a.limit =>
                           {s \in bookable : DateOf(s) \in DateOf(r) .. DateOf(r) + a.ahead}
                               \subseteq named
  <2> DEFINE bookable == {s \in Starts : Bookable(s, d, x)}
  <2> DEFINE answer == CheckAndSuggest(r, d, x, a.limit, a.ahead)
  <2> DEFINE later == {s \in bookable : s > r /\ DateOf(s) = DateOf(r)}
  <2> DEFINE date == DateOf(r)
  <2> DEFINE same_day == SlotsForDate(date, d, x)
  <2> DEFINE after == date + 1 .. Min({LastDate, date + Min({a.ahead, business.days})})
  <2> DEFINE A == {s \in same_day : s > r}
  <2> DEFINE B == {s \in same_day : s < r}
  <2> DEFINE C == UNION {SlotsForDate(e, d, x) : e \in after}
  <2> DEFINE ranked == Ascending(A) \o Ascending(B) \o Ascending(C)
  <2> DEFINE first == SubSeq(ranked, 1, Min({a.limit, Len(ranked)}))
  <2>1. /\ answer.available = (r \in same_day)
        /\ r \notin same_day => answer.suggestions = first
    BY DEF CheckAndSuggest
  <2>2. /\ r \in Int /\ date \in Nat /\ date \in OfferedDates /\ Today <= date /\ date <= LastDate
        /\ Today \in Nat /\ LastDate \in Nat /\ LastDate = Today + business.days
        /\ business.days \in Nat /\ a.limit \in Nat \ {0} /\ a.ahead \in Nat
    <3>1. Today \in Nat /\ LastDate \in Nat /\ business.days \in Nat BY <1>1, DaysAre
    <3>2. a \in [limit : Nat \ {0}, ahead : Nat] BY MenuAssumption
    <3> QED BY <1>1, <3>1, <3>2 DEF OfferedDates, LastDate, Starts
  <2>3. \A s \in bookable : /\ s \in Nat /\ DateOf(s) \in OfferedDates
                            /\ s \in SlotsForDate(DateOf(s), d, x)
    <3> SUFFICES ASSUME NEW s \in Starts, Bookable(s, d, x)
                 PROVE  s \in Nat /\ DateOf(s) \in OfferedDates /\ s \in SlotsForDate(DateOf(s), d, x)
      OBVIOUS
    <3>1. DateOf(s) \in OfferedDates /\ Fits(DateOf(s), d, x, s) /\ OnGrid(s) BY <1>1, BookableFits
    <3>2. s \in SlotsForDate(DateOf(s), d, x) BY <1>1, <3>1, OfferIs DEF OffersExact
    <3> QED BY <3>1, <3>2 DEF Fits
  <2>4. \A e \in after : e \in OfferedDates /\ e # date /\ e > date
    <3> DEFINE z == date + Min({a.ahead, business.days})
    <3>1. Min({a.ahead, business.days}) \in Nat BY <2>2, MinOfTwo
    <3>2. z \in Int BY <2>2, <3>1
    <3> HIDE DEF z, date
    <3>3. Min({LastDate, z}) \in Int /\ Min({LastDate, z}) <= LastDate BY <2>2, <3>2, MinOfTwo
    <3> DEFINE l == Min({LastDate, z})
    <3>4. after = date + 1 .. l BY DEF z, date
    <3>5. l \in Int /\ l <= LastDate BY <3>3
    <3> HIDE DEF l, after
    <3> QED BY <2>2, <3>4, <3>5 DEF OfferedDates
  <2>5. ASSUME NEW e \in OfferedDates, e > date, e <= date + a.ahead PROVE e \in after
    <3> DEFINE b == Min({a.ahead, business.days})
    <3>1. b = IF a.ahead < business.days THEN a.ahead ELSE business.days BY <2>2, MinOfTwo
    <3> DEFINE z == date + b
    <3>2. after = date + 1 .. Min({LastDate, z}) OBVIOUS
    <3> HIDE DEF b
    <3>3. z \in Int /\ e \in Int /\ e <= LastDate /\ e <= z
      <4> HIDE DEF date
      <4> QED BY <2>2, <2>5, <3>1 DEF OfferedDates
    <3> HIDE DEF z
    <3>4. Min({LastDate, z}) = IF LastDate < z THEN LastDate ELSE z BY <2>2, <3>3, MinOfTwo
    <3> DEFINE l == Min({LastDate, z})
    <3>5. l \in Int /\ e <= l BY <2>2, <3>3, <3>4
    <3>6. after = date + 1 .. l BY <3>2
    <3> HIDE DEF l, date, after
    <3> QED BY <2>2, <2>5, <3>3, <3>5, <3>6
  <2>6. /\ A \in SUBSET Int /\ IsFiniteSet(A) /\ B \in SUBSET Int /\ IsFiniteSet(B)
        /\ \A s \in A \cup B : DateOf(s) = date
    <3>1. {date} \subseteq OfferedDates /\ A \subseteq UNION {SlotsForDate(e, d, x) : e \in {date}}
                                        /\ B \subseteq UNION {SlotsForDate(e, d, x) : e \in {date}}
      BY <2>2
    <3> HIDE DEF A, B, date
    <3>2. A \in SUBSET Int /\ IsFiniteSet(A) /\ \A s \in A : DateOf(s) \in {date}
      BY <1>1, <3>1, OffersFinite, Zenon
    <3>3. B \in SUBSET Int /\ IsFiniteSet(B) /\ \A s \in B : DateOf(s) \in {date}
      BY <1>1, <3>1, OffersFinite, Zenon
    <3> QED BY <3>2, <3>3
  <2>7. C \in SUBSET Int /\ IsFiniteSet(C) /\ \A s \in C : DateOf(s) \in after
    <3>1. after \subseteq OfferedDates /\ C \subseteq UNION {SlotsForDate(e, d, x) : e \in after} BY <2>4
    <3> HIDE DEF C, after
    <3>2. /\ C \in SUBSET Int /\ IsFiniteSet(C)
          /\ \A s \in C : DateOf(s) \in after /\ s \in SlotsForDate(DateOf(s), d, x)
      BY <1>1, <3>1, OffersFinite, ZenonT(60)
    <3> QED BY <3>2
  <2>8. A \cap B = {} /\ (A \cup B) \cap C = {} /\ r \notin A \cup B \cup C
    <3>1. A \cap B = {} /\ r \notin A \cup B BY <2>2, <2>6
    <3>2. \A s \in C : DateOf(s) # DateOf(r) BY <2>4, <2>7
    <3> HIDE DEF A, B, C
    <3> QED BY <2>6, <3>1, <3>2
  <2>9. \A s \in bookable : /\ DateOf(s) = date /\ s > r => s \in A
                            /\ DateOf(s) = date /\ s < r => s \in B
                            /\ DateOf(s) \in after => s \in C
    BY <2>3
  <2> HIDE DEF A, B, C, after
  <2> DEFINE p == Ascending(A) \o Ascending(B)
  <2>10. Enumerates(Ascending(A), A) /\ Enumerates(Ascending(B), B) /\ Enumerates(Ascending(C), C)
    BY <2>6, <2>7, AscendingIs
  <2>11. Enumerates(p, A \cup B) BY <2>8, <2>10, ConcatEnumerates
  <2>12. ranked = p \o Ascending(C) OBVIOUS
  <2> HIDE DEF p
  <2>13. Enumerates(ranked, (A \cup B) \cup C)
    <3> HIDE DEF ranked
    <3> QED BY <2>8, <2>10, <2>11, <2>12, ConcatEnumerates
  <2>14. A # {} => Len(ranked) >= 1 /\ ranked[1] \in A /\ \A s \in A : ranked[1] <= s
    <3> SUFFICES ASSUME A # {} PROVE Len(ranked) >= 1 /\ ranked[1] \in A /\ \A s \in A : ranked[1] <= s
      OBVIOUS
    <3> DEFINE q == Ascending(A)
    <3>1. Len(q) >= 1 /\ \A s \in A : q[1] <= s BY <2>6, AscendingIs
    <3>2. q \in Seq(A) BY <2>10 DEF Enumerates
    <3>3. p = q \o Ascending(B) BY DEF p
    <3> HIDE DEF q, ranked
    <3>4. q[1] \in A /\ q # <<>> BY <3>1, <3>2
    <3>5. Len(p) >= 1 /\ p[1] = q[1] BY <2>8, <2>10, <3>3, <3>4, ConcatEnumerates DEF q
    <3>6. p # <<>> BY <3>5
    <3>7. Len(ranked) >= 1 /\ ranked[1] = p[1] BY <2>8, <2>10, <2>11, <2>12, <3>6, ConcatEnumerates
    <3> QED BY <3>1, <3>4, <3>5, <3>7
  <2> DEFINE all == (A \cup B) \cup C
  <2>15. /\ first \in Seq(all) /\ Len(first) \in Nat /\ Len(first) <= Len(ranked)
         /\ Len(first) < a.limit => Len(first) = Len(ranked)
         /\ Len(ranked) >= 1 => Len(first) >= 1
         /\ \A i \in 1 .. Len(first) : first[i] = ranked[i]
    <3>1. ranked \in Seq(all) BY <2>13 DEF Enumerates
    <3> HIDE DEF ranked, all
    <3> QED BY <2>2, <3>1, Limited
  <2> HIDE DEF first, ranked
  <2>16. /\ Range(first) \subseteq all /\ Cardinality(Range(first)) = Len(first)
         /\ Len(first) = Len(ranked) => all \subseteq Range(first)
    <3> HIDE DEF all
    <3>1. Enumerates(ranked, all) BY <2>13 DEF all
    <3> QED BY <2>15, <3>1, FirstOnes
  <2>17. r \in bookable => answer.available BY <2>1, <2>3
  <2> HIDE DEF answer
  <2>18. ASSUME ~answer.available
         PROVE  /\ r \notin Range(first) /\ Cardinality(Range(first)) = Len(first)
                /\ answer.suggestions = first
    BY <2>1, <2>8, <2>16, <2>18
  <2>19. ASSUME later # {} PROVE first[1] \in r + 1 .. Min(later)
    <3>1. ASSUME NEW s \in later PROVE s \in A /\ s \in Int /\ r <= s
      <4>1. s \in bookable /\ s > r /\ DateOf(s) = date OBVIOUS
      <4> HIDE DEF later, bookable, date
      <4> QED BY <2>2, <2>3, <2>9, <4>1
    <3> HIDE DEF later
    <3>2. Min(later) \in later /\ Min(later) \in Int
      <4>1. later \in SUBSET Int BY <3>1
      <4> QED BY <2>2, <2>19, <3>1, <4>1, MinExists
    <3>3. /\ Len(ranked) >= 1 /\ ranked[1] \in A /\ ranked[1] <= Min(later)
      BY <2>14, <3>1, <3>2
    <3>4. first[1] = ranked[1] BY <2>15, <3>3
    <3>5. \A s \in A : s \in Int /\ s > r BY <2>6 DEF A
    <3> DEFINE f == first[1]
    <3> DEFINE z == Min(later)
    <3>6. f \in Int /\ f > r /\ f <= z /\ z \in Int BY <3>2, <3>3, <3>4, <3>5
    <3> HIDE DEF f, z
    <3>7. f \in r + 1 .. z BY <2>2, <3>6
    <3> QED BY <3>7 DEF f, z
  <2>20. ASSUME ~answer.available, Len(first) < a.limit, NEW s \in bookable,
                DateOf(s) \in date .. date + a.ahead
         PROVE  s \in Range(first)
    <3>1. all \subseteq Range(first) BY <2>15, <2>16, <2>20
    <3>2. s \in Nat /\ DateOf(s) \in OfferedDates BY <2>3
    <3>3. s # r BY <2>17, <2>20
    <3>4. s < r \/ s > r BY <2>2, <3>2, <3>3
    <3>5. CASE DateOf(s) = date BY <2>9, <3>1, <3>4, <3>5
    <3>6. CASE DateOf(s) # date
      <4>1. DateOf(s) > date /\ DateOf(s) <= date + a.ahead BY <2>2, <2>20, <3>6
      <4>2. DateOf(s) \in after BY <2>5, <3>2, <4>1
      <4> QED BY <2>9, <3>1, <4>2
    <3> QED BY <3>5, <3>6
  <2> QED BY <2>17, <2>18, <2>19, <2>20 DEF answer
<1>2. TypeOK => SuggestionsComplete BY <1>1 DEF SuggestionsComplete
<1> QED BY <1>2, SlotsTypes, PTL
=============================================================================
