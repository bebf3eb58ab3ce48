--------------------------- MODULE TimeWindowProofs ---------------------------
(***************************************************************************)
(* Proofs about TimeWindow and the recurrences of Recurrence, for any      *)
(* pattern, interval, days, duration, range, number of callers and length  *)
(* of a day: the occurrences of either pattern are numbered, and the       *)
(* evaluator is shown to find the one with the right number.               *)
(***************************************************************************)
EXTENDS TimeWindow, FiniteSetTheorems, TLAPS

(* Arithmetic.                                                             *)

\* Division with remainder.
LEMMA Division ==
  ASSUME NEW a \in Int, NEW n \in Nat \ {0}
  PROVE  /\ a \div n \in Int /\ a % n \in 0..n - 1 /\ a = n * (a \div n) + (a % n)
         /\ n * (a \div n) <= a /\ a < n * (a \div n) + n
         /\ a >= 0 => a \div n \in Nat
<1>1. a \div n \in Int /\ a % n \in 0..n - 1 /\ a = n * (a \div n) + (a % n)
  OBVIOUS
<1>2. n * (a \div n) <= a /\ a < n * (a \div n) + n
  OBVIOUS
<1>3. a >= 0 => a \div n \in Nat
  OBVIOUS
<1> QED
  BY <1>1, <1>2, <1>3

\* The quotient and the remainder are unique.
LEMMA Quotient ==
  ASSUME NEW q \in Int, NEW n \in Nat \ {0}
  PROVE  (n * q) \div n = q /\ (n * q) % n = 0
  OBVIOUS

\* What lies between two multiples.
LEMMA Multiples ==
  ASSUME NEW i \in Int, NEW j \in Int, NEW n \in Nat \ {0}
  PROVE  /\ i * n \in Int /\ i < j => i * n + n <= j * n
         /\ i <= j => i * n <= j * n
         /\ (i + 1) * n = i * n + n
  OBVIOUS

\* A product of three does not depend on how it is bracketed.
LEMMA Product ==
  ASSUME NEW i \in Int, NEW j \in Int, NEW n \in Int
  PROVE  i * j \in Int /\ (i * j) * n = i * (j * n) /\ i * j = j * i
  OBVIOUS

\* Multiplication with a positive number can be undone.
LEMMA Cancel ==
  ASSUME NEW i \in Int, NEW j \in Int, NEW n \in Nat \ {0}
  PROVE  i * n = j * n <=> i = j
  OBVIOUS

\* Division by a positive number keeps the order.
LEMMA DivisionBound ==
  ASSUME NEW k \in Int, NEW a \in Int, NEW n \in Nat \ {0}
  PROVE  k <= a \div n <=> n * k <= a
  OBVIOUS

\* A number is a multiple and a remainder in one way only.
LEMMA Remainder ==
  ASSUME NEW q \in Int, NEW n \in Nat \ {0}, NEW r \in 0..n - 1
  PROVE  (n * q + r) \div n = q /\ (n * q + r) % n = r
<1> PICK a \in Int : a = n * q + r
  BY Product
<1>1. n * q \in Int /\ n * (q + 1) = n * q + n
  BY Product
<1>2. q <= a \div n /\ ~(q + 1 <= a \div n)
  BY <1>1, DivisionBound
<1>3. a \div n \in Int /\ a % n \in 0..n - 1 /\ a = n * (a \div n) + (a % n)
  BY Division
<1>4. a \div n = q
  BY <1>2, <1>3
<1> QED BY <1>1, <1>3, <1>4

-----------------------------------------------------------------------------
(* The occurrences of a daily recurrence.                                  *)

Length(s) == Day * s.interval

\* The occurrence with the number j, counting from 0.
DailyAt(s, j) == s.start + j * Length(s)

\* Settings of a daily recurrence that the validator accepts.
ValidDaily(s) == IsSettings(s) /\ TryValidateSettings(s) /\ s.pattern = "Daily"

\* What the validator says of them.
LEMMA DailyFields ==
  ASSUME NEW s, ValidDaily(s)
  PROVE  /\ s.start \in Nat /\ s.end \in Nat /\ s.interval \in Nat \ {0}
         /\ s.endDate \in Int /\ s.number \in Int
         /\ Length(s) \in Nat \ {0}
         /\ Duration(s) \in Nat /\ 0 < Duration(s) /\ Duration(s) <= Length(s)
<1>1. /\ s.start \in Nat /\ s.end \in Nat /\ s.interval \in Int
      /\ s.endDate \in Int /\ s.number \in Int
  BY DEF ValidDaily, IsSettings, TryValidateSettings
<1>2. s.interval > 0 /\ s.end > s.start /\ Duration(s) <= Day * s.interval
  BY DEF ValidDaily, TryValidateSettings, TryValidatePattern
<1>3. Length(s) \in Nat \ {0}
  BY <1>1, <1>2, DayAssumption DEF Length
<1> QED
  BY <1>1, <1>2, <1>3 DEF Duration, Length

\* The occurrences are apart by the length of the interval, and a window is no longer.
LEMMA DailyApart ==
  ASSUME NEW s, ValidDaily(s), NEW i \in Nat, NEW j \in Nat
  PROVE  /\ DailyAt(s, i) \in Nat /\ DailyAt(s, i) >= s.start
         /\ i < j => /\ DailyAt(s, i) + Length(s) <= DailyAt(s, j)
                     /\ DailyAt(s, i) + Duration(s) <= DailyAt(s, j)
         /\ i <= j => DailyAt(s, i) <= DailyAt(s, j)
         /\ DailyAt(s, i) = DailyAt(s, j) => i = j
         /\ DailyAt(s, i + 1) = DailyAt(s, i) + Length(s)
         /\ DailyAt(s, 0) = s.start
<1>1. /\ s.start \in Nat /\ Length(s) \in Nat \ {0} /\ Duration(s) \in Nat
      /\ Duration(s) <= Length(s) 
  BY DailyFields
<1> PICK n \in Nat \ {0} : n = Length(s)
  BY <1>1
<1>2. /\ DailyAt(s, i) = s.start + i * n /\ DailyAt(s, j) = s.start + j * n
      /\ DailyAt(s, i + 1) = s.start + (i + 1) * n
  BY DEF DailyAt
<1>3. i * n \in Nat /\ j * n \in Nat
  OBVIOUS
<1>4. /\ i < j => i * n + n <= j * n
      /\ j < i => j * n + n <= i * n
      /\ i <= j => i * n <= j * n
      /\ (i + 1) * n = i * n + n
  BY Multiples
<1>5. DailyAt(s, i) \in Nat /\ DailyAt(s, j) \in Nat /\ DailyAt(s, i) >= s.start
  BY <1>1, <1>2, <1>3
<1>6. /\ i < j => DailyAt(s, i) + n <= DailyAt(s, j)
      /\ j < i => DailyAt(s, j) + n <= DailyAt(s, i)
      /\ i <= j => DailyAt(s, i) <= DailyAt(s, j)
      /\ DailyAt(s, i + 1) = DailyAt(s, i) + n
  BY <1>1, <1>2, <1>3, <1>4
<1>7. DailyAt(s, 0) = s.start
  BY <1>1 DEF DailyAt
<1> QED
  BY <1>1, <1>5, <1>6, <1>7

\* A number of days after the start is an occurrence when it is a number of intervals.
LEMMA DailyRecurs ==
  ASSUME NEW s, ValidDaily(s), NEW k \in Nat
  PROVE  Recurs(s.start + k * Day, s) <=> \E j \in Nat : s.start + k * Day = DailyAt(s, j)
<1>1. s.start \in Nat /\ s.interval \in Nat \ {0} /\ Day \in Nat \ {0}
  BY DailyFields, DayAssumption
<1> PICK n \in Nat \ {0} : n = s.interval
  BY <1>1
<1> PICK t : t = s.start + k * Day
  OBVIOUS
<1>2. (t - s.start) \div Day = k
  <2>1. k * Day \in Nat /\ k * Day = Day * k
    BY <1>1, Product
  <2>2. t - s.start = Day * k
    BY <1>1, <2>1
  <2> QED
    BY <1>1, <2>2, Quotient
<1>3. Recurs(s.start + k * Day, s) <=> k % n = 0
  <2>1. Recurs(t, s) <=> ((t - s.start) \div Day) % s.interval = 0
    BY Zenon DEF Recurs, ValidDaily
  <2> QED
    BY <1>2, <2>1, Zenon
<1>4. \A j \in Nat : s.start + k * Day = DailyAt(s, j) <=> k = n * j
  <2> TAKE j \in Nat
  <2>1. DailyAt(s, j) = s.start + (n * j) * Day
    <3>1. j * (Day * n) = (n * j) * Day
      BY <1>1, Product
    <3> QED
      BY <3>1 DEF DailyAt, Length
  <2> PICK m \in Int : m = n * j
    OBVIOUS
  <2>2. k * Day = m * Day <=> k = m
    <3>1. k \in Int /\ Day \in Nat \ {0}
      BY <1>1
    <3> QED
      BY <3>1, Cancel, Zenon
  <2>3. k * Day \in Int /\ m * Day \in Int
    BY <1>1, Product
  <2> QED
    BY <1>1, <2>1, <2>2, <2>3
<1>5. k % n = 0 <=> \E j \in Nat : k = n * j
  <2>1. k \div n \in Nat /\ k % n \in 0..n - 1 /\ k = n * (k \div n) + (k % n)
    <3>1. k \in Int /\ k >= 0
      OBVIOUS
    <3> QED
      BY <3>1, Division
  <2>2. k % n = 0 => k = n * (k \div n)
    <3>1. n * (k \div n) \in Int
      BY <2>1, Product
    <3> QED
      BY <2>1, <3>1
  <2>3. \A j \in Nat : k = n * j => k % n = 0
    BY Quotient
  <2> QED
    BY <2>1, <2>2, <2>3
<1> QED
  BY <1>3, <1>4, <1>5

\* The previous occurrence is the last one that is not later than the time.
LEMMA DailyPrevious ==
  ASSUME NEW s, ValidDaily(s), NEW time \in Nat, time >= s.start
  PROVE  \E q \in Nat : /\ FindPreviousOccurrence(time, s) = [at |-> DailyAt(s, q), number |-> q + 1]
                        /\ DailyAt(s, q) <= time /\ time < DailyAt(s, q + 1)
<1>1. s.start \in Nat /\ s.interval \in Nat \ {0} /\ Length(s) \in Nat \ {0} /\ Day \in Nat
  BY DailyFields, DayAssumption
<1> PICK n \in Nat \ {0} : n = Length(s)
  BY <1>1
<1> PICK a \in Nat : a = time - s.start
  BY <1>1
<1>2. a \div n \in Nat /\ n * (a \div n) <= a /\ a < n * (a \div n) + n
  <2>1. a \in Int /\ a >= 0
    OBVIOUS
  <2> QED
    BY <2>1, Division
<1> PICK q \in Nat : q = a \div n
  BY <1>2
<1>3. q * n \in Int /\ n * q = q * n /\ (q + 1) * n = q * n + n
  BY Product, Multiples
<1>4. DailyAt(s, q) = s.start + q * n /\ DailyAt(s, q + 1) = s.start + (q + 1) * n
  BY DEF DailyAt
<1>5. FindPreviousOccurrence(time, s) = [at |-> DailyAt(s, q), number |-> q + 1]
  <2>1. (time - s.start) \div (Day * s.interval) = q
    BY DEF Length
  <2>2. q * Day * s.interval = q * (Day * s.interval)
    BY <1>1, Product
  <2>3. DailyAt(s, q) = s.start + q * Day * s.interval
    BY <2>2, Zenon DEF DailyAt, Length
  <2> QED
    BY <2>1, <2>3, Zenon DEF FindPreviousOccurrence, FindDailyPreviousOccurrence, ValidDaily
<1>6. DailyAt(s, q) <= time /\ time < DailyAt(s, q + 1)
  BY <1>1, <1>2, <1>3, <1>4
<1> QED
  BY <1>5, <1>6, Zenon

-----------------------------------------------------------------------------
(* The days of a week, in the order of the week.                           *)

WeekDays == 0..DaysPerWeek - 1

\* WeeklyDayOffset counts the days from one day of the week to another.
LEMMA DayOffset ==
  ASSUME NEW d \in WeekDays, NEW e \in WeekDays, NEW f \in WeekDays
  PROVE  /\ WeeklyDayOffset(d, f) \in WeekDays
         /\ (f + WeeklyDayOffset(d, f)) % DaysPerWeek = d
         /\ WeeklyDayOffset(d, f) = WeeklyDayOffset(e, f) => d = e
         /\ WeeklyDayOffset(e, f) <= WeeklyDayOffset(d, f) =>
              WeeklyDayOffset(d, e) = WeeklyDayOffset(d, f) - WeeklyDayOffset(e, f)
         /\ WeeklyDayOffset(d, f) < WeeklyDayOffset(e, f) =>
              WeeklyDayOffset(d, e) =
                WeeklyDayOffset(d, f) - WeeklyDayOffset(e, f) + DaysPerWeek
  BY DEF WeeklyDayOffset, WeekDays, DaysPerWeek

\* A number of weeks and r days after the day f of a week.
LEMMA DayAfter ==
  ASSUME NEW f \in WeekDays, NEW r \in WeekDays, NEW w \in Int
  PROVE  /\ (f + 7 * w + r) % DaysPerWeek \in WeekDays
         /\ (f + 7 * w + r) % DaysPerWeek = (f + r) % DaysPerWeek
         /\ WeeklyDayOffset((f + r) % DaysPerWeek, f) = r
  BY DEF WeeklyDayOffset, WeekDays, DaysPerWeek

\* Days of the week that agree agree as many days later.
LEMMA Congruent ==
  ASSUME NEW f \in 0..6, NEW o \in 0..6, NEW a \in Int, NEW m \in Int,
         (f + o) % 7 = a % 7
  PROVE  (a - o + m) % 7 = (f + m) % 7
  OBVIOUS

\* Settings whose days are days of the week, the start's among them.
HasDays(s) ==
  /\ s.first \in WeekDays
  /\ Days(s) \subseteq WeekDays
  /\ s.start \in Nat
  /\ DayOfWeek(s.start) \in Days(s)

\* The days are finitely many, and the rank of one is the number of those before it.
LEMMA Ranks ==
  ASSUME NEW s, HasDays(s)
  PROVE  /\ IsFiniteSet(Days(s)) /\ Cardinality(Days(s)) \in 1..7
         /\ \A d \in Days(s) : IndexOf(s, d) \in 0..Cardinality(Days(s)) - 1
         /\ \A d, e \in Days(s) :
              /\ WeeklyDayOffset(d, s.first) < WeeklyDayOffset(e, s.first) =>
                   IndexOf(s, d) < IndexOf(s, e)
              /\ IndexOf(s, d) = IndexOf(s, e) => d = e
<1> DEFINE O(d) == WeeklyDayOffset(d, s.first)
<1>1. IsFiniteSet(WeekDays) /\ Cardinality(WeekDays) = 7
  <2>b. PICK b \in Nat : b = 6
    OBVIOUS
  <2>1. IsFiniteSet(0..b) /\ Cardinality(0..b) = b + 1
    BY FS_Interval
  <2>2. WeekDays = 0..b
    BY <2>b DEF WeekDays, DaysPerWeek
  <2> QED BY <2>b, <2>1, <2>2
<1>2. IsFiniteSet(Days(s)) /\ Cardinality(Days(s)) <= 7
  BY <1>1, FS_Subset DEF HasDays
<1>3. Cardinality(Days(s)) \in Nat /\ Cardinality(Days(s)) # 0
  BY <1>2, FS_CardinalityType, FS_EmptySet DEF HasDays
<1>4. \A d \in Days(s) : O(d) \in WeekDays
  BY DayOffset DEF HasDays
<1>5. ASSUME NEW d \in Days(s)
      PROVE  IsFiniteSet(Earlier(s, d)) /\ IndexOf(s, d) \in 0..Cardinality(Days(s)) - 1
  <2>1. Earlier(s, d) \in SUBSET Days(s) /\ d \notin Earlier(s, d)
    BY <1>4 DEF Earlier, WeekDays
  <2>2. /\ IsFiniteSet(Earlier(s, d)) /\ IndexOf(s, d) <= Cardinality(Days(s))
        /\ Cardinality(Days(s)) # IndexOf(s, d)
    BY <1>2, <2>1, FS_Subset DEF IndexOf
  <2>3. IndexOf(s, d) \in Nat
    BY <2>2, FS_CardinalityType DEF IndexOf
  <2> QED BY <1>3, <2>2, <2>3
<1>6. ASSUME NEW d \in Days(s), NEW e \in Days(s), O(d) < O(e)
      PROVE  IndexOf(s, d) < IndexOf(s, e)
  <2>1. Earlier(s, d) \in SUBSET Earlier(s, e) /\ d \in Earlier(s, e) /\ d \notin Earlier(s, d)
    BY <1>4, <1>6 DEF Earlier, WeekDays
  <2>2. IndexOf(s, d) <= IndexOf(s, e) /\ IndexOf(s, d) # IndexOf(s, e)
    BY <1>5, <2>1, FS_Subset DEF IndexOf
  <2> QED BY <1>5, <2>2
<1>7. ASSUME NEW d \in Days(s), NEW e \in Days(s), IndexOf(s, d) = IndexOf(s, e)
      PROVE  d = e
  <2>1. ~(O(d) < O(e)) /\ ~(O(e) < O(d))
    BY <1>5, <1>6, <1>7
  <2>2. O(d) = O(e)
    BY <1>4, <2>1 DEF WeekDays
  <2> QED BY <2>2, DayOffset DEF HasDays
<1> QED BY <1>2, <1>3, <1>5, <1>6, <1>7

\* SortDaysOfWeek keeps every day once, in the order of the offsets.
LEMMA Sorted ==
  ASSUME NEW s, HasDays(s)
  PROVE  LET n == Cardinality(Days(s))
             sorted == SortedDays(s)
         IN /\ n \in 1..7 /\ Len(sorted) = n /\ DOMAIN sorted = 1..n
            /\ \A i \in 1..n : sorted[i] \in Days(s) /\ IndexOf(s, sorted[i]) = i - 1
            /\ \A d \in Days(s) : IndexOf(s, d) \in 0..n - 1 /\ sorted[IndexOf(s, d) + 1] = d
            /\ \A i, j \in 1..n : i < j => WeeklyDayOffset(sorted[i], s.first)
                                             < WeeklyDayOffset(sorted[j], s.first)
<1> DEFINE D == Days(s)
           n == Cardinality(D)
           sorted == SortedDays(s)
           rank == [d \in D |-> IndexOf(s, d)]
           O(d) == WeeklyDayOffset(d, s.first)
<1>1. /\ IsFiniteSet(D) /\ n \in 1..7
      /\ \A d \in D : IndexOf(s, d) \in 0..n - 1
      /\ \A d, e \in D : /\ O(d) < O(e) => IndexOf(s, d) < IndexOf(s, e)
                         /\ IndexOf(s, d) = IndexOf(s, e) => d = e
  BY Ranks
<1>2. IsFiniteSet(0..n - 1) /\ Cardinality(0..n - 1) = n
  BY <1>1, FS_Interval
<1> HIDE DEF n
<1>3. rank \in Injection(D, 0..n - 1)
  BY <1>1 DEF Injection, IsInjective
<1>4. rank \in Surjection(D, 0..n - 1)
  BY <1>2, <1>3, FS_Injection DEF n
<1>5. \A i \in 1..n : \E d \in D : IndexOf(s, d) = i - 1
  <2> TAKE i \in 1..n
  <2>1. i - 1 \in 0..n - 1
    BY <1>1
  <2> QED BY <1>4, <2>1 DEF Surjection
<1>6. sorted = [i \in 1..n |-> CHOOSE d \in D : IndexOf(s, d) = i - 1]
  BY DEF SortedDays, IndexOf, n
<1>7. \A i \in 1..n : sorted[i] \in D /\ IndexOf(s, sorted[i]) = i - 1
  <2> TAKE i \in 1..n
  <2>1. \E d : d \in D /\ IndexOf(s, d) = i - 1
    BY <1>5
  <2>2. sorted[i] = CHOOSE d : d \in D /\ IndexOf(s, d) = i - 1
    BY <1>6
  <2> QED BY <2>1, <2>2
<1>8. \A d \in D : sorted[IndexOf(s, d) + 1] = d
  <2> TAKE d \in D
  <2>1. IndexOf(s, d) + 1 \in 1..n /\ (IndexOf(s, d) + 1) - 1 = IndexOf(s, d)
    BY <1>1
  <2> QED BY <1>1, <1>7, <2>1
<1>9. \A i, j \in 1..n : i < j => O(sorted[i]) < O(sorted[j])
  <2> TAKE i, j \in 1..n
  <2> HAVE i < j
  <2>1. \A d \in D : O(d) \in WeekDays
    BY DayOffset DEF HasDays
  <2>2. ~(O(sorted[j]) < O(sorted[i]))
    BY <1>1, <1>7
  <2>3. O(sorted[i]) # O(sorted[j])
    <3>1. sorted[i] # sorted[j]
      BY <1>1, <1>7
    <3> QED BY <1>7, <3>1, DayOffset DEF HasDays
  <2> QED BY <1>7, <2>1, <2>2, <2>3 DEF WeekDays
<1>10. DOMAIN sorted = 1..n /\ Len(sorted) = n
  <2>1. DOMAIN sorted = 1..n
    BY <1>6
  <2>2. sorted \in Seq(D)
    BY <1>1, <1>6, <1>7
  <2> QED BY <1>1, <2>1, <2>2
<1> QED BY <1>1, <1>7, <1>8, <1>9, <1>10 DEF n

-----------------------------------------------------------------------------
(* The occurrences of a weekly recurrence.                                 *)

\* Settings of a weekly recurrence that the validator accepts.
ValidWeeks(s) == IsSettings(s) /\ TryValidateSettings(s) /\ s.pattern = "Weekly"

\* The days of the pattern, counted and by their offset in the week.
Count(s) == Cardinality(Days(s))
Offset(s, i) == WeeklyDayOffset(SortedDays(s)[i], s.first)
StartIndex(s) == IndexOf(s, DayOfWeek(s.start)) + 1

\* The days from one occurring week to the next, and the week of the start.
WeekLength(s) == s.interval * DaysPerWeek
StartWeek(s) == s.start - Day * WeeklyDayOffset(DayOfWeek(s.start), s.first)

\* The i-th day of the occurring week w, and the number of the occurrence, from 0.
DayNumber(s, w, i) == w * WeekLength(s) + Offset(s, i)
On(s, w, i) == StartWeek(s) + Day * DayNumber(s, w, i)
Number(s, w, i) == w * Count(s) + i - StartIndex(s)

\* The occurrence with the number j.
WeeklyAt(s, j) ==
  LET k == j + StartIndex(s) - 1
  IN On(s, k \div Count(s), (k % Count(s)) + 1)

\* What the validator says of weekly settings.
LEMMA WeeklyFields ==
  ASSUME NEW s, ValidWeeks(s)
  PROVE  /\ HasDays(s)
         /\ s.start \in Nat /\ s.end \in Nat /\ s.interval \in Nat \ {0}
         /\ s.endDate \in Int /\ s.number \in Int
         /\ Duration(s) \in Nat /\ 0 < Duration(s)
         /\ WeekLength(s) \in Nat /\ WeekLength(s) >= 7
         /\ s.interval # 1 => WeekLength(s) >= 14
         /\ TryValidateRange(s) /\ ValidWeekly(s)
<1>1. /\ s.start \in Nat /\ s.end \in Nat /\ s.interval \in Int
      /\ s.endDate \in Int /\ s.number \in Int
      /\ s.days \in Seq(WeekDays) /\ s.first \in WeekDays
  BY DEF ValidWeeks, IsSettings, TryValidateSettings, WeekDays
<1>2. s.interval > 0 /\ s.end > s.start /\ TryValidateRange(s) /\ ValidWeekly(s)
  BY DEF ValidWeeks, TryValidateSettings, TryValidatePattern
<1>3. Days(s) \subseteq WeekDays
  BY <1>1 DEF Days
<1>4. DayOfWeek(s.start) \in Days(s)
  BY <1>2 DEF ValidWeekly
<1> QED
  BY <1>1, <1>2, <1>3, <1>4 DEF HasDays, Duration, WeekLength, DaysPerWeek

\* The offsets of the days, in their order, and the day the pattern starts on.
LEMMA Offsets ==
  ASSUME NEW s, ValidWeeks(s)
  PROVE  LET n == Count(s)
             sorted == SortedDays(s)
         IN /\ n \in 1..7 /\ Len(sorted) = n /\ DOMAIN sorted = 1..n
            /\ StartIndex(s) \in 1..n
            /\ SortedDays(s)[StartIndex(s)] = DayOfWeek(s.start)
            /\ \A i \in 1..n : /\ Offset(s, i) \in 0..6 /\ sorted[i] \in Days(s)
                               /\ sorted[i] \in WeekDays
                               /\ IndexOf(s, sorted[i]) = i - 1
            /\ \A i, j \in 1..n : i < j => Offset(s, i) < Offset(s, j)
<1>1. HasDays(s)
  BY WeeklyFields
<1> DEFINE n == Count(s)
           sorted == SortedDays(s)
<1>2. /\ n \in 1..7 /\ Len(sorted) = n /\ DOMAIN sorted = 1..n
      /\ \A i \in 1..n : sorted[i] \in Days(s) /\ IndexOf(s, sorted[i]) = i - 1
      /\ \A d \in Days(s) : IndexOf(s, d) \in 0..n - 1 /\ sorted[IndexOf(s, d) + 1] = d
      /\ \A i, j \in 1..n : i < j => Offset(s, i) < Offset(s, j)
  BY <1>1, Sorted DEF Count, Offset
<1>3. \A i \in 1..n : sorted[i] \in WeekDays /\ Offset(s, i) \in 0..6
  <2>1. s.first \in WeekDays /\ \A i \in 1..n : sorted[i] \in WeekDays
    BY <1>1, <1>2 DEF HasDays
  <2>2. \A i \in 1..n : Offset(s, i) \in WeekDays
    BY <2>1, DayOffset DEF Offset
  <2> QED BY <2>1, <2>2 DEF WeekDays, DaysPerWeek
<1>4. DayOfWeek(s.start) \in Days(s)
  BY <1>1 DEF HasDays
<1> HIDE DEF n, sorted
<1>5. StartIndex(s) \in 1..n /\ sorted[StartIndex(s)] = DayOfWeek(s.start)
  BY <1>2, <1>4 DEF StartIndex
<1> QED BY <1>2, <1>3, <1>5 DEF n, sorted

\* The day of the week a number of days after the beginning of the start's week.
LEMMA DayAt ==
  ASSUME NEW s, ValidWeeks(s), NEW m \in Int
  PROVE  /\ StartWeek(s) \in Int /\ StartWeek(s) <= s.start
         /\ StartWeek(s) + Day * m \in Int
         /\ DayOfWeek(StartWeek(s) + Day * m) = (s.first + m) % DaysPerWeek
<1>1. s.start \in Nat /\ Day \in Nat \ {0} /\ s.first \in WeekDays
  BY WeeklyFields, DayAssumption DEF HasDays
<1>a. PICK a \in Int : a = s.start \div Day
  BY <1>1, Division
<1>r. PICK r \in 0..Day - 1 : r = s.start % Day
  BY <1>1, Division
<1>d. s.start = Day * a + r
  <2>1. s.start = Day * (s.start \div Day) + (s.start % Day)
    <3>1. s.start \in Int
      BY <1>1
    <3> QED BY <1>1, <3>1, Division, Zenon
  <2> QED BY <1>a, <1>r, <2>1, Zenon
<1>o. PICK o \in WeekDays : o = WeeklyDayOffset(DayOfWeek(s.start), s.first)
  BY WeeklyFields, DayOffset DEF HasDays
<1>2. (s.first + o) % 7 = a % 7
  BY <1>1, <1>a, <1>o, WeeklyFields, DayOffset DEF HasDays, DayOfWeek, DaysPerWeek
<1>3. Day * o \in Nat /\ Day * m \in Int /\ Day * a \in Int /\ Day * (a - o + m) \in Int
      /\ Day * (a - o + m) = Day * a - Day * o + Day * m
  BY <1>1 DEF WeekDays
<1>4. StartWeek(s) = s.start - Day * o
  BY <1>o DEF StartWeek
<1>k. PICK k \in Int : k = a - o + m
  BY DEF WeekDays
<1>5. StartWeek(s) + Day * m = Day * k + r
  <2>1. Day * k = Day * a - Day * o + Day * m
    BY <1>3, <1>k
  <2>2. /\ Day * a \in Int /\ Day * o \in Int /\ Day * m \in Int /\ Day * k \in Int
        /\ s.start \in Int /\ r \in Int
    <3>1. o \in Int /\ Day \in Int
      BY <1>1 DEF WeekDays
    <3> QED BY <1>1, <3>1, Product
  <2>3. PICK x, y, z, v \in Int : x = Day * a /\ y = Day * o /\ z = Day * m /\ v = Day * k
    BY <2>2
  <2>4. v = x - y + z /\ s.start = x + r /\ StartWeek(s) = s.start - y
    BY <1>d, <1>4, <2>1, <2>3, Zenon
  <2>5. StartWeek(s) + z = v + r
    BY <2>2, <2>4
  <2> QED BY <2>3, <2>5, Zenon
<1>6. (Day * k + r) \div Day = k
  BY <1>1, Remainder
<1>7. k % 7 = (s.first + m) % 7
  <2> PICK f \in 0..6 : f = s.first
    BY <1>1 DEF WeekDays, DaysPerWeek
  <2>1. (f + o) % 7 = a % 7 /\ o \in 0..6 /\ a \in Int
    BY <1>2, <1>a, <1>o DEF WeekDays, DaysPerWeek
  <2>2. (a - o + m) % 7 = (f + m) % 7
    BY <2>1, Congruent
  <2> QED BY <1>k, <2>2
<1>8. StartWeek(s) \in Int /\ StartWeek(s) <= s.start /\ StartWeek(s) + Day * m \in Int
  <2>1. Day * o \in Nat /\ Day * m \in Int /\ s.start \in Int
    BY <1>1, <1>3
  <2> QED BY <1>4, <2>1
<1>9. DayOfWeek(StartWeek(s) + Day * m) = k % 7
  BY <1>5, <1>6, Zenon DEF DayOfWeek, DaysPerWeek
<1> QED BY <1>7, <1>8, <1>9 DEF DaysPerWeek

\* The occurrences of the weeks are all there are, each with its number.
LEMMA Numbers ==
  ASSUME NEW s, ValidWeeks(s)
  PROVE  /\ \A j \in Nat : \E w \in Nat : \E i \in 1..Count(s) :
              Number(s, w, i) = j /\ WeeklyAt(s, j) = On(s, w, i)
         /\ \A w \in Nat : \A i \in 1..Count(s) :
              /\ Number(s, w, i) \in Int
              /\ Number(s, w, i) >= 0 => WeeklyAt(s, Number(s, w, i)) = On(s, w, i)
<1> PICK n \in 1..7 : n = Count(s)
  BY Offsets
<1> PICK x \in 1..n : x = StartIndex(s)
  BY Offsets
<1>0. n \in Nat \ {0} /\ x \in Nat
  OBVIOUS
<1>1. ASSUME NEW j \in Nat
      PROVE  \E w \in Nat : \E i \in 1..n :
               Number(s, w, i) = j /\ WeeklyAt(s, j) = On(s, w, i)
  <2>k. PICK k \in Nat : k = j + x - 1
    BY <1>0
  <2>1. k \div n \in Nat /\ k % n \in 0..n - 1 /\ k = n * (k \div n) + (k % n)
    <3>1. k \in Int /\ k >= 0
      OBVIOUS
    <3> QED BY <1>0, <3>1, Division
  <2>w. PICK w \in Nat : w = k \div n
    BY <2>1
  <2>r. PICK r \in 0..n - 1 : r = k % n
    BY <2>1
  <2>2. WeeklyAt(s, j) = On(s, w, r + 1)
    BY <2>k, <2>w, <2>r DEF WeeklyAt
  <2>3. w * n = n * w /\ w * n \in Int /\ k = n * w + r
    <3>1. w * n = n * w /\ w * n \in Int
      BY <1>0, Product
    <3>2. k = n * w + r
      BY <2>1, <2>w, <2>r, Zenon
    <3> QED BY <3>1, <3>2
  <2>4. Number(s, w, r + 1) = w * n + (r + 1) - x
    BY DEF Number
  <2>5. Number(s, w, r + 1) = j
    <3>p. PICK p \in Int : p = n * w
      BY <2>3
    <3>1. k = p + r /\ Number(s, w, r + 1) = p + (r + 1) - x
      BY <2>3, <2>4, <3>p, Zenon
    <3>2. p \in Int /\ r \in Int /\ x \in Int /\ k = j + x - 1
      BY <1>0, <2>k, <2>r, <3>p
    <3>3. p + (r + 1) - x = j
      BY <3>1, <3>2
    <3> QED BY <3>1, <3>3, Zenon
  <2>6. r + 1 \in 1..n
    OBVIOUS
  <2> QED BY <2>2, <2>5, <2>6
<1>2. ASSUME NEW w \in Nat, NEW i \in 1..n
      PROVE  /\ Number(s, w, i) \in Int
             /\ Number(s, w, i) >= 0 => WeeklyAt(s, Number(s, w, i)) = On(s, w, i)
  <2>1. w * n \in Int /\ w * n = n * w
    BY <1>0, Product
  <2>2. Number(s, w, i) = w * n + i - x /\ i \in Int
    BY DEF Number
  <2>3. Number(s, w, i) + x - 1 = n * w + (i - 1)
    BY <1>0, <2>1, <2>2
  <2>4. (n * w + (i - 1)) \div n = w /\ (n * w + (i - 1)) % n = i - 1
    <3>1. i - 1 \in 0..n - 1
      OBVIOUS
    <3> QED BY <1>0, <3>1
  <2>5. WeeklyAt(s, Number(s, w, i)) = On(s, w, (i - 1) + 1)
    BY <2>3, <2>4 DEF WeeklyAt
  <2> QED BY <1>0, <2>1, <2>2, <2>5
<1> QED BY <1>1, <1>2

\* The gaps between the days that the validator compares the duration with.
LEMMA Compliant ==
  ASSUME NEW s, ValidWeeks(s)
  PROVE  LET n == Count(s)
         IN /\ Duration(s) <= Day * WeekLength(s)
            /\ n = 1 \/
                 /\ Duration(s) <= Day * DaysPerWeek
                 /\ \A i \in 2..n : Duration(s) <= Day * (Offset(s, i) - Offset(s, i - 1))
                 /\ s.interval = 1 =>
                      Duration(s) <= Day * (Offset(s, 1) - Offset(s, n) + DaysPerWeek)
<1> DEFINE sorted == SortedDays(s)
           Gap(d, e) == Day * WeeklyDayOffset(d, e)
<1>1. PICK n \in 1..7 : /\ n = Count(s) /\ Len(sorted) = n
                        /\ \A i \in 1..n : sorted[i] \in WeekDays /\ Offset(s, i) \in 0..6
                        /\ \A i, j \in 1..n : i < j => Offset(s, i) < Offset(s, j)
  BY Offsets
<1>2. /\ s.first \in WeekDays /\ ValidWeekly(s) /\ s.interval \in Nat /\ Day \in Nat \ {0}
      /\ s.days \in Seq(WeekDays)
  BY WeeklyFields, DayAssumption DEF HasDays, ValidWeeks, IsSettings, WeekDays
<1>3. Duration(s) <= Day * WeekLength(s)
  <2>1. Day * s.interval * DaysPerWeek = Day * (s.interval * DaysPerWeek)
    BY <1>2, Product DEF DaysPerWeek
  <2> QED BY <1>2, <2>1 DEF ValidWeekly, WeekLength
<1>4. CASE Len(s.days) = 1
  <2>1. Days(s) = {s.days[1]}
    BY <1>2, <1>4 DEF Days
  <2>2. n = 1
    BY <1>1, <2>1, FS_Singleton DEF Count
  <2> QED BY <1>1, <1>3, <2>2
<1>5. CASE Len(s.days) # 1
  <2>1. /\ Day * DaysPerWeek >= Duration(s)
        /\ \A i \in 2..n : Gap(sorted[i], sorted[i - 1]) >= Duration(s)
        /\ s.interval = 1 => Gap(sorted[1], sorted[n]) >= Duration(s)
    BY <1>1, <1>2, <1>5 DEF ValidWeekly, IsDurationCompliantWithDaysOfWeek
  <2>2. ASSUME NEW i \in 2..n
        PROVE  WeeklyDayOffset(sorted[i], sorted[i - 1]) = Offset(s, i) - Offset(s, i - 1)
    <3>1. i \in 1..n /\ i - 1 \in 1..n /\ i - 1 < i
      BY <1>1
    <3>2. Offset(s, i - 1) <= Offset(s, i) /\ sorted[i] \in WeekDays /\ sorted[i - 1] \in WeekDays
      BY <1>1, <3>1
    <3>3. PICK d, e \in WeekDays : d = sorted[i] /\ e = sorted[i - 1]
      BY <3>2
    <3>4. WeeklyDayOffset(e, s.first) <= WeeklyDayOffset(d, s.first)
      BY <3>2, <3>3 DEF Offset
    <3> QED BY <1>2, <3>3, <3>4, DayOffset DEF Offset
  <2>3. n # 1 => WeeklyDayOffset(sorted[1], sorted[n]) = Offset(s, 1) - Offset(s, n) + DaysPerWeek
    <3> SUFFICES ASSUME n # 1
                 PROVE  WeeklyDayOffset(sorted[1], sorted[n])
                          = Offset(s, 1) - Offset(s, n) + DaysPerWeek
      OBVIOUS
    <3>1. 1 \in 1..n /\ n \in 1..n /\ 1 < n
      BY <1>1
    <3>2. Offset(s, 1) < Offset(s, n) /\ sorted[1] \in WeekDays /\ sorted[n] \in WeekDays
      BY <1>1, <3>1
    <3>3. PICK d, e \in WeekDays : d = sorted[1] /\ e = sorted[n]
      BY <3>2
    <3>4. WeeklyDayOffset(d, s.first) < WeeklyDayOffset(e, s.first)
      BY <3>2, <3>3 DEF Offset
    <3> QED BY <1>1, <1>2, <3>3, <3>4, DayOffset DEF Offset
  <2>4. Day * DaysPerWeek \in Nat /\ Duration(s) \in Int
    BY <1>2, WeeklyFields DEF DaysPerWeek
  <2>5. Duration(s) <= Day * DaysPerWeek
    BY <2>1, <2>4
  <2>6. \A i \in 2..n : Duration(s) <= Day * (Offset(s, i) - Offset(s, i - 1))
    <3> TAKE i \in 2..n
    <3>1. Duration(s) <= Gap(sorted[i], sorted[i - 1])
      BY <2>1
    <3> QED BY <2>2, <3>1
  <2>7. n # 1 /\ s.interval = 1 =>
          Duration(s) <= Day * (Offset(s, 1) - Offset(s, n) + DaysPerWeek)
    <3> HAVE n # 1 /\ s.interval = 1
    <3>1. Duration(s) <= Gap(sorted[1], sorted[n])
      BY <2>1
    <3> QED BY <2>3, <3>1
  <2> QED BY <1>1, <1>3, <2>5, <2>6, <2>7
<1> QED BY <1>4, <1>5

\* The order of the occurrences is that of the weeks and, in a week, of the days.
LEMMA Ordered ==
  ASSUME NEW s, ValidWeeks(s), NEW w \in Nat, NEW v \in Nat,
         NEW i \in 1..Count(s), NEW k \in 1..Count(s), Number(s, w, i) < Number(s, v, k)
  PROVE  w < v \/ (w = v /\ i < k)
<1>1. PICK n \in Nat \ {0}, x \in Nat : n = Count(s) /\ x = StartIndex(s)
  BY Offsets
<1>2. PICK p, q \in Int : /\ p = w * n /\ q = v * n
                          /\ v < w => q + n <= p
                          /\ w = v => p = q
  BY Multiples
<1>3. Number(s, w, i) = p + i - x /\ Number(s, v, k) = q + k - x
  BY <1>1, <1>2 DEF Number
<1>4. i \in 1..n /\ k \in 1..n
  BY <1>1
<1>5. p + i - x < q + k - x
  BY <1>3
<1>6. ~(v < w) /\ (w = v => i < k)
  BY <1>1, <1>2, <1>4, <1>5
<1> QED BY <1>6

\* A day has a positive length.
LEMMA LongerDays ==
  ASSUME NEW g \in Int, NEW h \in Int, g <= h
  PROVE  Day * g \in Int /\ Day * h \in Int /\ Day * g <= Day * h /\ (g < h => Day * g < Day * h)
  BY DayAssumption

\* From one occurrence to a later one there are days enough for the window.
LEMMA DaysApart ==
  ASSUME NEW s, ValidWeeks(s), NEW w \in Nat, NEW v \in Nat,
         NEW i \in 1..Count(s), NEW k \in 1..Count(s), w < v \/ (w = v /\ i < k)
  PROVE  /\ DayNumber(s, w, i) \in Nat /\ DayNumber(s, v, k) \in Nat
         /\ DayNumber(s, w, i) < DayNumber(s, v, k)
         /\ Duration(s) <= Day * (DayNumber(s, v, k) - DayNumber(s, w, i))
<1>1. PICK n \in 1..7 : /\ n = Count(s)
                        /\ \A a \in 1..n : Offset(s, a) \in 0..6
                        /\ \A a, b \in 1..n : a < b => Offset(s, a) < Offset(s, b)
  BY Offsets
<1>2. PICK L \in Nat : L = WeekLength(s) /\ L >= 7 /\ (s.interval # 1 => L >= 14)
  BY WeeklyFields
<1>3. PICK p, q \in Nat : /\ p = w * L /\ q = v * L
                          /\ w < v => p + L <= q
                          /\ w = v => p = q
  BY <1>2, Multiples
<1>4. i \in 1..n /\ k \in 1..n /\ Offset(s, i) \in 0..6 /\ Offset(s, k) \in 0..6
  BY <1>1
<1>5. DayNumber(s, w, i) = p + Offset(s, i) /\ DayNumber(s, v, k) = q + Offset(s, k)
  BY <1>2, <1>3 DEF DayNumber
<1> DEFINE g == (q + Offset(s, k)) - (p + Offset(s, i))
<1>6. g > 0 /\ g \in Int
  BY <1>1, <1>2, <1>3, <1>4
<1>7. Duration(s) \in Int /\ 0 < Duration(s)
  BY WeeklyFields
<1>8. ASSUME NEW h \in Int, h <= g, Duration(s) <= Day * h
      PROVE  Duration(s) <= Day * g
  BY <1>6, <1>7, <1>8, LongerDays
<1> HIDE DEF g
<1>9. Duration(s) <= Day * g
  <2>1. CASE n = 1
    <3>1. i = k /\ L <= g /\ L \in Int
      BY <1>1, <1>2, <1>3, <1>4, <2>1 DEF g
    <3> QED BY <1>2, <1>8, <3>1, Compliant
  <2>2. CASE n # 1 /\ w = v
    <3>1. k \in 2..n /\ k - 1 \in 1..n /\ i < k
      BY <1>4, <2>2
    <3>2. Offset(s, i) <= Offset(s, k - 1) /\ Offset(s, k - 1) \in 0..6
      <4>1. i < k - 1 \/ i = k - 1
        BY <1>4, <3>1
      <4> QED BY <1>1, <1>4, <3>1, <4>1
    <3>3. Offset(s, k) - Offset(s, k - 1) <= g /\ Offset(s, k) - Offset(s, k - 1) \in Int
      BY <1>3, <1>4, <2>2, <3>2 DEF g
    <3>4. Duration(s) <= Day * (Offset(s, k) - Offset(s, k - 1))
      BY <1>1, <2>2, <3>1, Compliant
    <3> QED BY <1>8, <3>3, <3>4
  <2>3. CASE n # 1 /\ w < v /\ s.interval = 1
    <3>1. Offset(s, 1) <= Offset(s, k) /\ Offset(s, i) <= Offset(s, n)
      <4>1. 1 \in 1..n /\ n \in 1..n /\ (1 < k \/ k = 1) /\ (i < n \/ i = n)
        BY <1>4
      <4> QED BY <1>1, <1>4, <4>1
    <3>2. Offset(s, 1) \in 0..6 /\ Offset(s, n) \in 0..6
      BY <1>1
    <3>3. Offset(s, 1) - Offset(s, n) + 7 <= g /\ Offset(s, 1) - Offset(s, n) + 7 \in Int
      BY <1>2, <1>3, <1>4, <2>3, <3>1, <3>2 DEF g
    <3>4. Duration(s) <= Day * (Offset(s, 1) - Offset(s, n) + 7)
      BY <1>1, <2>3, Compliant DEF DaysPerWeek
    <3> QED BY <1>8, <3>3, <3>4
  <2>4. CASE n # 1 /\ w < v /\ s.interval # 1
    <3>1. 7 <= g
      BY <1>2, <1>3, <1>4, <2>4 DEF g
    <3>2. Duration(s) <= Day * 7
      BY <1>1, <2>4, Compliant DEF DaysPerWeek
    <3> QED BY <1>8, <3>1, <3>2
  <2> QED BY <2>1, <2>2, <2>3, <2>4
<1>10. DayNumber(s, v, k) - DayNumber(s, w, i) = g
  BY <1>5 DEF g
<1>11. DayNumber(s, w, i) \in Nat /\ DayNumber(s, v, k) \in Nat
  BY <1>3, <1>4, <1>5
<1>12. DayNumber(s, w, i) < DayNumber(s, v, k)
  BY <1>6, <1>10, <1>11
<1> QED BY <1>9, <1>10, <1>11, <1>12

\* An occurrence falls on its day of the week.
LEMMA OnDay ==
  ASSUME NEW s, ValidWeeks(s), NEW w \in Int, NEW i \in 1..Count(s)
  PROVE  On(s, w, i) \in Int /\ DayOfWeek(On(s, w, i)) = SortedDays(s)[i]
<1>1. PICK d \in WeekDays : d = SortedDays(s)[i]
  BY Offsets
<1>2. PICK f \in WeekDays : f = s.first
  BY WeeklyFields DEF HasDays
<1>3. PICK r \in WeekDays : r = WeeklyDayOffset(d, f) /\ r = Offset(s, i) /\ (f + r) % 7 = d
  BY <1>1, <1>2, DayOffset DEF Offset, DaysPerWeek
<1>4. PICK x \in Int : x = w * s.interval
  BY WeeklyFields, Product
<1>5. DayNumber(s, w, i) = 7 * x + r
  <2>1. w * (s.interval * 7) = (w * s.interval) * 7
    BY WeeklyFields, Product
  <2>2. w * WeekLength(s) = x * 7 /\ x * 7 = 7 * x
    BY <1>4, <2>1, Product DEF WeekLength, DaysPerWeek
  <2> QED BY <1>3, <2>2 DEF DayNumber
<1>6. 7 * x + r \in Int
  BY <1>3, <1>4 DEF WeekDays, DaysPerWeek
<1>7. f + (7 * x + r) = f + 7 * x + r
  BY <1>2, <1>3, <1>4 DEF WeekDays, DaysPerWeek
<1>8. (f + (7 * x + r)) % DaysPerWeek = d
  BY <1>2, <1>3, <1>4, <1>7, DayAfter DEF DaysPerWeek
<1> QED BY <1>1, <1>2, <1>5, <1>6, <1>8, DayAt DEF On

\* Two occurrences are apart by the length of a window.
LEMMA OnApart ==
  ASSUME NEW s, ValidWeeks(s), NEW w \in Nat, NEW v \in Nat,
         NEW i \in 1..Count(s), NEW k \in 1..Count(s), w < v \/ (w = v /\ i < k)
  PROVE  On(s, w, i) < On(s, v, k) /\ On(s, w, i) + Duration(s) <= On(s, v, k)
<1>1. PICK a, b \in Nat : /\ a = DayNumber(s, w, i) /\ b = DayNumber(s, v, k) /\ a < b
                          /\ Duration(s) <= Day * (b - a)
  BY DaysApart
<1>2. Day * a \in Int /\ Day * b \in Int /\ Day * a < Day * b
  BY <1>1, LongerDays
<1>3. Day * (b - a) = Day * b - Day * a
  BY <1>1, DayAssumption
<1>4. StartWeek(s) \in Int
  BY DayAt, 0 \in Int
<1>5. Duration(s) \in Int
  BY WeeklyFields
<1>6. PICK p, q \in Int : p = Day * a /\ q = Day * b /\ p < q /\ Duration(s) <= q - p
  BY <1>1, <1>2, <1>3
<1>7. On(s, w, i) = StartWeek(s) + p /\ On(s, v, k) = StartWeek(s) + q
  BY <1>1, <1>6 DEF On
<1> QED BY <1>4, <1>5, <1>6, <1>7

\* The first occurrence is the start.
LEMMA OnStart ==
  ASSUME NEW s, ValidWeeks(s)
  PROVE  /\ StartIndex(s) \in 1..Count(s)
         /\ On(s, 0, StartIndex(s)) = s.start /\ Number(s, 0, StartIndex(s)) = 0
<1>0. PICK n \in 1..7 : n = Count(s)
  BY Offsets
<1>1. PICK x \in 1..n : n = Count(s) /\ x = StartIndex(s)
  BY <1>0, Offsets
<1>2. PICK o \in WeekDays : o = Offset(s, x) /\ o = WeeklyDayOffset(DayOfWeek(s.start), s.first)
  BY <1>1, Offsets, WeeklyFields, DayOffset DEF Offset, HasDays
<1>3. DayNumber(s, 0, x) = o
  BY <1>2, WeeklyFields DEF DayNumber, WeekDays, DaysPerWeek
<1>4. Day * o \in Int /\ s.start \in Int
  BY <1>2, DayAssumption, WeeklyFields DEF WeekDays, DaysPerWeek
<1>5. On(s, 0, x) = s.start
  BY <1>2, <1>3, <1>4 DEF On, StartWeek
<1>6. Number(s, 0, x) = 0
  BY <1>1 DEF Number
<1> QED BY <1>1, <1>5, <1>6

\* The occurrences are in their order, and none begins before the last one's window ends.
LEMMA WeeklyApart ==
  ASSUME NEW s, ValidWeeks(s)
  PROVE  /\ WeeklyAt(s, 0) = s.start
         /\ \A j \in Nat : WeeklyAt(s, j) \in Nat /\ WeeklyAt(s, j) >= s.start
         /\ \A i, j \in Nat : i < j => /\ WeeklyAt(s, i) < WeeklyAt(s, j)
                                       /\ WeeklyAt(s, i) + Duration(s) <= WeeklyAt(s, j)
<1>1. ASSUME NEW i \in Nat, NEW j \in Nat, i < j
      PROVE  /\ WeeklyAt(s, i) < WeeklyAt(s, j)
             /\ WeeklyAt(s, i) + Duration(s) <= WeeklyAt(s, j)
  <2>1. PICK w \in Nat, a \in 1..Count(s) :
               Number(s, w, a) = i /\ WeeklyAt(s, i) = On(s, w, a)
    BY Numbers
  <2>2. PICK v \in Nat, b \in 1..Count(s) :
               Number(s, v, b) = j /\ WeeklyAt(s, j) = On(s, v, b)
    BY Numbers
  <2>3. Number(s, w, a) < Number(s, v, b)
    BY <1>1, <2>1, <2>2
  <2>4. w < v \/ (w = v /\ a < b)
    BY <2>3, Ordered
  <2>5. On(s, w, a) < On(s, v, b) /\ On(s, w, a) + Duration(s) <= On(s, v, b)
    BY <2>4, OnApart
  <2> QED BY <2>1, <2>2, <2>5
<1>2. WeeklyAt(s, 0) = s.start
  <2>1. PICK x \in 1..Count(s) : On(s, 0, x) = s.start /\ Number(s, 0, x) = 0
    BY OnStart
  <2>2. 0 \in Nat /\ Number(s, 0, x) >= 0
    BY <2>1
  <2>3. WeeklyAt(s, Number(s, 0, x)) = On(s, 0, x)
    BY <2>2, Numbers
  <2> QED BY <2>1, <2>3, Zenon
<1>3. ASSUME NEW j \in Nat
      PROVE  WeeklyAt(s, j) \in Nat /\ WeeklyAt(s, j) >= s.start
  <2>1. WeeklyAt(s, j) \in Int
    <3>1. PICK v \in Nat, b \in 1..Count(s) : WeeklyAt(s, j) = On(s, v, b)
      BY Numbers
    <3> QED BY <3>1, OnDay
  <2>2. s.start \in Nat
    BY WeeklyFields
  <2>3. j = 0 \/ WeeklyAt(s, 0) < WeeklyAt(s, j)
    BY <1>1
  <2> QED BY <1>2, <2>1, <2>2, <2>3
<1> QED BY <1>1, <1>2, <1>3

\* The days from one day of the pattern to a later one in the week.
LEMMA Between ==
  ASSUME NEW s, ValidWeeks(s), NEW a \in 1..Count(s), NEW b \in 1..Count(s), a <= b
  PROVE  /\ WeeklyDayOffset(SortedDays(s)[b], SortedDays(s)[a]) = Offset(s, b) - Offset(s, a)
         /\ Offset(s, b) - Offset(s, a) \in 0..6
<1>1. PICK d, e, f \in WeekDays : d = SortedDays(s)[b] /\ e = SortedDays(s)[a] /\ f = s.first
  BY Offsets, WeeklyFields DEF HasDays
<1>2. Offset(s, b) = WeeklyDayOffset(d, f) /\ Offset(s, a) = WeeklyDayOffset(e, f)
  BY <1>1 DEF Offset
<1>3. PICK o, u \in 0..6 : o = Offset(s, b) /\ u = Offset(s, a) /\ u <= o
  <2>1. Offset(s, a) \in 0..6 /\ Offset(s, b) \in 0..6
    BY Offsets
  <2>2. a < b \/ a = b
    BY Offsets
  <2>3. Offset(s, a) <= Offset(s, b)
    BY <2>1, <2>2, Offsets
  <2> QED BY <2>1, <2>3
<1>4. WeeklyDayOffset(d, e) = o - u
  BY <1>2, <1>3, DayOffset
<1> QED BY <1>1, <1>3, <1>4

\* The number that follows, in the same week or in the next one.
LEMMA NextNumber ==
  ASSUME NEW s, ValidWeeks(s), NEW w \in Nat, NEW i \in 1..Count(s)
  PROVE  /\ Number(s, w, i + 1) = Number(s, w, i) + 1
         /\ Number(s, w + 1, 1) = Number(s, w, Count(s)) + 1
<1>1. PICK n \in Nat \ {0} : n = Count(s)
  BY Offsets
<1>2. PICK x \in Nat : x = StartIndex(s)
  BY <1>1, Offsets
<1>3. PICK p \in Int : p = w * n /\ (w + 1) * n = p + n
  BY Multiples
<1>4. /\ Number(s, w, i) = p + i - x /\ Number(s, w, i + 1) = p + (i + 1) - x
      /\ Number(s, w, n) = p + n - x /\ Number(s, w + 1, 1) = (p + n) + 1 - x
  BY <1>1, <1>2, <1>3, Zenon DEF Number
<1>5. i \in Nat
  BY <1>1
<1>6. Number(s, w, i + 1) = Number(s, w, i) + 1
  BY <1>4, <1>5
<1>7. Number(s, w + 1, 1) = Number(s, w, n) + 1
  BY <1>4
<1> QED BY <1>1, <1>6, <1>7

\* The days from one occurrence to the next.
LEMMA NextOn ==
  ASSUME NEW s, ValidWeeks(s), NEW w \in Nat, NEW i \in 1..Count(s)
  PROVE  /\ i + 1 \in 1..Count(s) =>
              On(s, w, i + 1) = On(s, w, i) + Day * (Offset(s, i + 1) - Offset(s, i))
         /\ On(s, w + 1, 1) = On(s, w, Count(s))
                                + Day * (WeekLength(s) - (Offset(s, Count(s)) - Offset(s, 1)))
<1>1. PICK L \in Nat : L = WeekLength(s)
  BY WeeklyFields
<1>2. PICK p \in Nat : p = w * L /\ (w + 1) * L = p + L
  BY Multiples
<1>3. PICK b \in Int : b = StartWeek(s)
  BY DayAt, 0 \in Int
<1>4. \A k : On(s, w, k) = b + Day * (p + Offset(s, k))
             /\ On(s, w + 1, k) = b + Day * (p + L + Offset(s, k))
  BY <1>1, <1>2, <1>3, Zenon DEF On, DayNumber
<1>5. \A k \in 1..Count(s) : Offset(s, k) \in Int
  <2> TAKE k \in 1..Count(s)
  <2>1. Offset(s, k) \in 0..6
    BY Offsets
  <2> QED BY <2>1
<1>6. 1 \in 1..Count(s) /\ Count(s) \in 1..Count(s)
  BY Offsets
<1>7. ASSUME NEW c \in Int, NEW d \in Int
      PROVE  b + Day * d = b + Day * c + Day * (d - c)
  <2>1. PICK x \in Int : x = d - c
    OBVIOUS
  <2>2. Day * c \in Int /\ Day * x \in Int /\ Day * (c + x) = Day * c + Day * x /\ d = c + x
    BY <2>1, DayAssumption
  <2> QED BY <2>1, <2>2
<1>8. i + 1 \in 1..Count(s) =>
        On(s, w, i + 1) = On(s, w, i) + Day * (Offset(s, i + 1) - Offset(s, i))
  <2> HAVE i + 1 \in 1..Count(s)
  <2>1. PICK c, d \in Int : c = p + Offset(s, i) /\ d = p + Offset(s, i + 1)
                            /\ d - c = Offset(s, i + 1) - Offset(s, i)
    BY <1>5
  <2>2. On(s, w, i) = b + Day * c /\ On(s, w, i + 1) = b + Day * d
    BY <1>4, <2>1, Zenon
  <2>3. b + Day * d = b + Day * c + Day * (d - c)
    BY <1>7
  <2> QED BY <2>1, <2>2, <2>3, Zenon
<1>9. On(s, w + 1, 1) = On(s, w, Count(s)) + Day * (L - (Offset(s, Count(s)) - Offset(s, 1)))
  <2>1. PICK c, d \in Int : c = p + Offset(s, Count(s)) /\ d = p + L + Offset(s, 1)
                            /\ d - c = L - (Offset(s, Count(s)) - Offset(s, 1))
    BY <1>5, <1>6
  <2>2. On(s, w, Count(s)) = b + Day * c /\ On(s, w + 1, 1) = b + Day * d
    BY <1>4, <2>1, Zenon
  <2>3. b + Day * d = b + Day * c + Day * (d - c)
    BY <1>7
  <2> QED BY <2>1, <2>2, <2>3, Zenon
<1> QED BY <1>1, <1>8, <1>9

\* CalculateWeeklyNextOccurrence finds the occurrence with the next number, not later
\* than an interval after the last one.
LEMMA WeeklyNext ==
  ASSUME NEW s, ValidWeeks(s), NEW j \in Nat
  PROVE  /\ NextWeekly(WeeklyAt(s, j), s) = WeeklyAt(s, j + 1)
         /\ WeeklyAt(s, j + 1) <= WeeklyAt(s, j) + Day * WeekLength(s)
<1>1. PICK w \in Nat, i \in 1..Count(s) :
             Number(s, w, i) = j /\ WeeklyAt(s, j) = On(s, w, i)
  BY Numbers
<1> DEFINE n == Count(s)
           sorted == SortedDays(s)
<1>2. /\ n \in 1..7 /\ Len(sorted) = n /\ IndexOf(s, sorted[i]) = i - 1
      /\ On(s, w, i) \in Int /\ DayOfWeek(On(s, w, i)) = sorted[i]
  BY Offsets, OnDay
<1>3. PICK L \in Nat : L = WeekLength(s) /\ L >= 7
  BY WeeklyFields
<1> HIDE DEF n, sorted
<1>4. i \in 1..n /\ IndexOf(s, sorted[i]) + 2 = i + 1 /\ i + 1 \in Nat
  BY <1>2 DEF n
<1>5. NextWeekly(On(s, w, i), s) =
        IF i + 1 <= n
        THEN On(s, w, i) + Day * WeeklyDayOffset(sorted[i + 1], sorted[i])
        ELSE On(s, w, i) + Day * (L - WeeklyDayOffset(sorted[i], sorted[1]))
  BY <1>2, <1>3, <1>4, Zenon DEF NextWeekly, WeekLength, sorted
<1>6. CASE i + 1 <= n
  <2>1. i + 1 \in 1..n /\ i <= i + 1
    BY <1>2, <1>4, <1>6
  <2>2. Number(s, w, i + 1) = j + 1 /\ j + 1 >= 0
    BY <1>1, NextNumber
  <2>3. WeeklyAt(s, j + 1) = On(s, w, i + 1)
    BY <2>1, <2>2, Numbers DEF n
  <2>4. PICK g \in 0..6 : /\ g = Offset(s, i + 1) - Offset(s, i)
                          /\ WeeklyDayOffset(sorted[i + 1], sorted[i]) = g
    BY <2>1, Between DEF n, sorted
  <2>5. On(s, w, i + 1) = On(s, w, i) + Day * g
    BY <2>1, <2>4, NextOn DEF n
  <2>6. Day * g <= Day * L /\ Day * g \in Int /\ Day * L \in Int
    BY <1>3, LongerDays
  <2> QED BY <1>1, <1>2, <1>3, <1>5, <1>6, <2>3, <2>4, <2>5, <2>6
<1>7. CASE ~(i + 1 <= n)
  <2>1. i = n /\ 1 \in 1..n /\ n \in 1..n /\ 1 <= n
    BY <1>2, <1>4, <1>7
  <2>2. Number(s, w + 1, 1) = j + 1 /\ j + 1 >= 0 /\ w + 1 \in Nat
    BY <1>1, <2>1, NextNumber DEF n
  <2>3. WeeklyAt(s, j + 1) = On(s, w + 1, 1)
    BY <2>1, <2>2, Numbers DEF n
  <2>4. PICK g \in 0..6 : /\ g = Offset(s, n) - Offset(s, 1)
                          /\ WeeklyDayOffset(sorted[n], sorted[1]) = g
    BY <2>1, Between DEF n, sorted
  <2>5. On(s, w + 1, 1) = On(s, w, i) + Day * (L - g)
    BY <1>3, <2>1, <2>4, NextOn DEF n
  <2>6. Day * (L - g) <= Day * L /\ Day * (L - g) \in Int /\ Day * L \in Int
    BY <1>3, LongerDays
  <2> QED BY <1>1, <1>2, <1>3, <1>5, <1>7, <2>1, <2>3, <2>4, <2>5, <2>6
<1> QED BY <1>6, <1>7

\* From the start on, the numbers are natural.
LEMMA NumberNat ==
  ASSUME NEW s, ValidWeeks(s), NEW w \in Nat, NEW i \in 1..Count(s),
         w # 0 \/ StartIndex(s) <= i
  PROVE  /\ Number(s, w, i) \in Nat
         /\ WeeklyAt(s, Number(s, w, i)) = On(s, w, i)
<1>1. PICK n \in Nat \ {0} : n = Count(s)
  BY Offsets
<1>2. PICK x \in 1..n : x = StartIndex(s)
  BY <1>1, Offsets
<1>3. PICK p \in Int : p = w * n /\ (w # 0 => n <= p) /\ (w = 0 => p = 0)
  <2>1. 0 * n = 0 /\ 1 * n = n
    OBVIOUS
  <2>2. w # 0 => 1 <= w
    OBVIOUS
  <2> QED BY <2>1, <2>2, Multiples
<1>4. Number(s, w, i) = p + i - x
  BY <1>1, <1>2, <1>3, Zenon DEF Number
<1>5. i \in 1..n
  BY <1>1
<1>6. Number(s, w, i) \in Nat
  BY <1>2, <1>3, <1>4, <1>5
<1> QED BY <1>6, Numbers

\* The weeks since the start's week are counted in days or in time.
LEMMA WeeksPassed ==
  ASSUME NEW m \in Int
  PROVE  (Day * m) \div (Day * DaysPerWeek) = m \div 7
<1>1. PICK u \in Int, r \in 0..6 : m = 7 * u + r /\ u = m \div 7
  BY Division, 7 \in Nat \ {0}
<1>2. PICK n \in Nat \ {0} : n = Day * 7
  BY DayAssumption
<1>3. Day * m = n * u + Day * r
  <2>1. Day * (7 * u + r) = Day * (7 * u) + Day * r /\ (Day * 7) * u = Day * (7 * u)
    BY DayAssumption, Product
  <2> QED BY <1>1, <1>2, <2>1, Zenon
<1>4. Day * r \in 0..n - 1
  <2>1. 0 <= r /\ r <= 6
    OBVIOUS
  <2>2. Day * 0 <= Day * r /\ Day * r <= Day * 6 /\ Day * r \in Int
    BY <2>1, LongerDays
  <2> QED BY <1>2, <2>2, DayAssumption
<1>5. (n * u + Day * r) \div n = u
  BY <1>4, Remainder
<1> QED BY <1>1, <1>2, <1>3, <1>5, Zenon DEF DaysPerWeek

\* A number of days after the start is an occurrence when the pattern recurs there.
LEMMA WeeklyRecurs ==
  ASSUME NEW s, ValidWeeks(s), NEW k \in Nat
  PROVE  Recurs(s.start + k * Day, s) <=> \E j \in Nat : s.start + k * Day = WeeklyAt(s, j)
<1>1. /\ s.start \in Nat /\ s.interval \in Nat \ {0} /\ HasDays(s) /\ s.first \in WeekDays
      /\ WeekLength(s) \in Nat
  BY WeeklyFields DEF HasDays
<1>2. PICK x \in 1..Count(s) : /\ x = StartIndex(s) /\ On(s, 0, x) = s.start
                               /\ Offset(s, x) \in 0..6
  BY OnStart, Offsets
<1>3. PICK m \in Nat : m = Offset(s, x) + k
  BY <1>2
<1>4. PICK b \in Int : b = StartWeek(s)
  BY DayAt, 0 \in Int
<1>5. s.start + k * Day = b + Day * m
  <2>1. PICK o \in Int : o = Offset(s, x)
    BY <1>2
  <2>2. s.start = b + Day * o
    BY <1>1, <1>2, <1>4, <2>1 DEF On, DayNumber
  <2>3. Day * (o + k) = Day * o + Day * k /\ k * Day = Day * k /\ Day * o \in Int /\ Day * k \in Int
    BY <2>1, DayAssumption
  <2>4. m = o + k
    BY <1>3, <2>1
  <2> QED BY <1>4, <2>2, <2>3, <2>4
<1>6. Recurs(s.start + k * Day, s) <=>
        (s.first + m) % 7 \in Days(s) /\ (m \div 7) % s.interval = 0
  <2>1. DayOfWeek(b + Day * m) = (s.first + m) % 7
    BY <1>4, DayAt DEF DaysPerWeek
  <2>2. (b + Day * m) - b = Day * m
    BY <1>4, DayAssumption
  <2>3. (Day * m) \div (Day * DaysPerWeek) = m \div 7
    BY WeeksPassed
  <2>4. Recurs(b + Day * m, s) <=>
          /\ DayOfWeek(b + Day * m) \in Days(s)
          /\ (((b + Day * m) - b) \div (Day * DaysPerWeek)) % s.interval = 0
    BY <1>4, Zenon DEF Recurs, StartWeek, ValidWeeks
  <2> QED BY <1>5, <2>1, <2>2, <2>3, <2>4, Zenon
<1>7. PICK u \in Nat, r \in 0..6 : m = 7 * u + r /\ u = m \div 7
  <2>1. PICK c \in Int : c = m /\ c >= 0
    BY <1>3
  <2>2. /\ c = 7 * (c \div 7) + (c % 7) /\ c % 7 \in 0..7 - 1
        /\ c \div 7 \in Nat
    BY <2>1, Division, 7 \in Nat \ {0}
  <2> QED BY <2>1, <2>2
<1>8. (s.first + m) % 7 = (s.first + r) % 7 /\ (s.first + r) % 7 \in WeekDays
      /\ WeeklyDayOffset((s.first + r) % 7, s.first) = r
  <2>1. PICK f \in WeekDays : f = s.first
    BY <1>1
  <2>2. /\ (f + 7 * u + r) % 7 = (f + r) % 7
        /\ (f + 7 * u + r) % 7 \in WeekDays
        /\ WeeklyDayOffset((f + r) % 7, f) = r
    BY <1>7, DayAfter DEF WeekDays, DaysPerWeek
  <2>3. f + m = f + 7 * u + r
    BY <1>7, <2>1 DEF WeekDays, DaysPerWeek
  <2> QED BY <2>1, <2>2, <2>3, Zenon
<1>9. ASSUME Recurs(s.start + k * Day, s)
      PROVE  \E j \in Nat : s.start + k * Day = WeeklyAt(s, j)
  <2>1. PICK d \in Days(s) : d = (s.first + r) % 7
    BY <1>6, <1>8, <1>9
  <2>2. PICK i \in 1..Count(s) : SortedDays(s)[i] = d
    <3>1. IndexOf(s, d) \in 0..Count(s) - 1 /\ SortedDays(s)[IndexOf(s, d) + 1] = d
      BY <1>1, <2>1, Sorted DEF Count
    <3>2. IndexOf(s, d) + 1 \in 1..Count(s)
      BY <3>1, Offsets
    <3> QED BY <3>1, <3>2
  <2>3. Offset(s, i) = r
    BY <1>8, <2>1, <2>2 DEF Offset
  <2>4. PICK w \in Nat : u = s.interval * w
    <3>1. u % s.interval = 0
      BY <1>6, <1>7, <1>9
    <3>2. u \in Int /\ u >= 0
      BY <1>7
    <3>3. u = s.interval * (u \div s.interval) + 0 /\ u \div s.interval \in Nat
      BY <1>1, <3>1, <3>2, Division
    <3>4. s.interval * (u \div s.interval) \in Int
      BY <1>1, <3>3, Product
    <3> QED BY <3>3, <3>4
  <2>5. DayNumber(s, w, i) = m
    <3>1. w * (s.interval * 7) = (w * s.interval) * 7 /\ w * s.interval = s.interval * w
      BY <1>1, <2>4, Product
    <3>2. w * WeekLength(s) = u * 7
      BY <2>4, <3>1, Zenon DEF WeekLength, DaysPerWeek
    <3> QED BY <1>7, <2>3, <3>2 DEF DayNumber
  <2>6. On(s, w, i) = s.start + k * Day
    BY <1>4, <1>5, <2>5, Zenon DEF On
  <2>7. w # 0 \/ x <= i
    <3> SUFFICES ASSUME w = 0 PROVE x <= i
      OBVIOUS
    <3>1. u = 0
      BY <1>1, <2>4
    <3>2. Offset(s, x) <= Offset(s, i)
      <4>1. PICK o \in 0..6 : o = Offset(s, x)
        BY <1>2
      <4>2. m = o + k
        BY <1>3, <4>1, Zenon
      <4>3. m = 7 * 0 + r
        BY <1>7, <3>1, Zenon
      <4>4. o <= r
        BY <4>1, <4>2, <4>3
      <4> QED BY <2>3, <4>1, <4>4, Zenon
    <3>3. ~(i < x)
      <4>1. Offset(s, i) \in 0..6
        BY Offsets
      <4>2. i < x => Offset(s, i) < Offset(s, x)
        BY <1>2, <2>2, Offsets
      <4> QED BY <1>2, <3>2, <4>1, <4>2
    <3> QED BY <3>3, Offsets
  <2> QED BY <1>2, <2>6, <2>7, NumberNat
<1>10. ASSUME NEW j \in Nat, s.start + k * Day = WeeklyAt(s, j)
       PROVE  Recurs(s.start + k * Day, s)
  <2>1. PICK w \in Nat, i \in 1..Count(s) : WeeklyAt(s, j) = On(s, w, i)
    BY Numbers
  <2>2. DayOfWeek(b + Day * m) \in Days(s)
    BY <1>5, <1>10, <2>1, OnDay, Offsets
  <2>3. DayOfWeek(b + Day * m) = (s.first + m) % 7
    BY <1>4, DayAt DEF DaysPerWeek
  <2>4. DayNumber(s, w, i) = m
    <3>1. PICK c \in Int : c = DayNumber(s, w, i)
      <4>1. Offset(s, i) \in 0..6 /\ w * WeekLength(s) \in Int
        BY <1>1, Offsets, Product
      <4> QED BY <4>1 DEF DayNumber
    <3>2. b + Day * m = b + Day * c
      BY <1>4, <1>5, <1>10, <2>1, <3>1 DEF On
    <3>3. Day * m = Day * c
      <4>1. PICK e \in Int, f \in Int : e = Day * m /\ f = Day * c
        BY DayAssumption
      <4>2. b + e = b + f
        BY <3>2, <4>1, Zenon
      <4>3. e = f
        BY <4>2
      <4> QED BY <4>1, <4>3
    <3>4. m * Day = c * Day
      <4>1. m * Day = Day * m /\ c * Day = Day * c
        BY DayAssumption
      <4> QED BY <3>3, <4>1
    <3>5. m = c
      BY <3>4, Cancel, DayAssumption
    <3> QED BY <3>1, <3>5
  <2>5. PICK v \in Nat : v = s.interval * w
    BY <1>1
  <2>6. u = v
    <3>1. w * (s.interval * 7) = (w * s.interval) * 7 /\ w * s.interval = s.interval * w
      BY <1>1, Product
    <3>2. w * WeekLength(s) = v * 7
      BY <2>5, <3>1, Zenon DEF WeekLength, DaysPerWeek
    <3>3. PICK o \in 0..6 : o = Offset(s, i)
      BY Offsets
    <3>4. m = v * 7 + o
      BY <2>4, <3>2, <3>3, Zenon DEF DayNumber
    <3> QED BY <1>7, <3>4
  <2>7. u % s.interval = 0
    <3>1. (s.interval * w) % s.interval = 0
      BY <1>1, Quotient
    <3> QED BY <2>5, <2>6, <3>1
  <2> QED BY <1>6, <1>7, <2>2, <2>3, <2>7
<1> QED BY <1>9, <1>10

\* The days of the pattern that have passed are the first ones.
LEMMA Prefix ==
  ASSUME NEW n \in 1..7, NEW P \in SUBSET (1..n),
         \A i, j \in 1..n : i < j /\ j \in P => i \in P
  PROVE  \E r \in 0..n : \A i \in 1..n : i \in P <=> i <= r
<1> SUFFICES ASSUME \A r \in 0..n : \E i \in 1..n : ~(i \in P <=> i <= r)
             PROVE  FALSE
  OBVIOUS
<1> DEFINE A(k) == k \in 0..n /\ \A i \in 1..n : i <= k => i \in P
<1>1. A(0)
  OBVIOUS
<1>2. ASSUME NEW k \in 0..6, A(k) PROVE A(k + 1)
  <2>1. PICK i \in 1..n : i \in P /\ ~(i <= k)
    BY <1>2
  <2>2. k + 1 \in 1..n /\ (k + 1 = i \/ k + 1 < i)
    BY <2>1
  <2>3. k + 1 \in P
    BY <2>1, <2>2
  <2>4. \A j \in 1..n : j <= k + 1 => j <= k \/ j = k + 1
    OBVIOUS
  <2> QED BY <1>2, <2>2, <2>3, <2>4
<1> HIDE DEF A
<1>3. A(1)
  BY <1>1, <1>2, 0 + 1 = 1
<1>4. A(2)
  BY <1>2, <1>3, 1 + 1 = 2
<1>5. A(3)
  BY <1>2, <1>4, 2 + 1 = 3
<1>6. A(4)
  BY <1>2, <1>5, 3 + 1 = 4
<1>7. A(5)
  BY <1>2, <1>6, 4 + 1 = 5
<1>8. A(6)
  BY <1>2, <1>7, 5 + 1 = 6
<1>9. A(7)
  BY <1>2, <1>8, 6 + 1 = 7
<1>10. n = 7 /\ \A i \in 1..n : i \in P
  BY <1>9 DEF A
<1> QED BY <1>10

\* The time from one occurring week to the next.
WeekTime(s) == Day * s.interval * DaysPerWeek

\* It is that of the days, and a week at least.
LEMMA WeekTimes ==
  ASSUME NEW s, ValidWeeks(s)
  PROVE  /\ WeekTime(s) \in Nat \ {0} /\ WeekTime(s) = Day * WeekLength(s)
         /\ Day * DaysPerWeek <= WeekTime(s) /\ Day * DaysPerWeek \in Nat
<1>1. PICK n \in Nat \ {0} : n = s.interval
  BY WeeklyFields
<1>2. Day * n * 7 = Day * (n * 7) /\ Day * n * 7 \in Nat \ {0} /\ Day * 7 \in Nat
  <2>1. (Day * n) * 7 = Day * (n * 7) /\ Day * n \in Nat \ {0}
    BY DayAssumption, Product
  <2> QED BY <2>1, DayAssumption
<1>3. Day * 7 <= Day * (n * 7)
  BY <1>1, LongerDays
<1> QED BY <1>1, <1>2, <1>3 DEF WeekTime, WeekLength, DaysPerWeek

\* An occurrence, from the beginning of its week.
LEMMA OnWeek ==
  ASSUME NEW s, ValidWeeks(s), NEW w \in Int, NEW i \in 1..Count(s)
  PROVE  /\ w * WeekTime(s) \in Int /\ StartWeek(s) \in Int
         /\ On(s, w, i) = StartWeek(s) + w * WeekTime(s) + Day * Offset(s, i)
         /\ Day * Offset(s, i) \in Nat /\ Day * Offset(s, i) <= Day * 6 /\ Day * 6 \in Nat
<1>1. PICK o \in 0..6 : o = Offset(s, i)
  BY Offsets
<1>2. PICK L \in Nat : L = WeekLength(s)
  BY WeeklyFields
<1>3. WeekTime(s) = Day * L /\ WeekTime(s) \in Int
  BY <1>2, WeekTimes
<1>4. PICK b \in Int : b = StartWeek(s)
  BY DayAt, 0 \in Int
<1>5. Day * (w * L + o) = w * (Day * L) + Day * o
  <2>1. PICK p \in Int : p = w * L
    BY <1>2, Product
  <2>2. Day * (p + o) = Day * p + Day * o
    BY DayAssumption
  <2>3. Day * (w * L) = w * (Day * L)
    <3>1. (Day * w) * L = Day * (w * L) /\ (w * Day) * L = w * (Day * L) /\ Day * w = w * Day
      BY DayAssumption, <1>2, Product
    <3> QED BY <3>1, Zenon
  <2> QED BY <2>1, <2>2, <2>3, Zenon
<1>6. On(s, w, i) = b + (w * WeekTime(s) + Day * o)
  BY <1>1, <1>2, <1>3, <1>4, <1>5, Zenon DEF On, DayNumber
<1>7. w * WeekTime(s) \in Int
  BY <1>3, Product
<1>8. Day * o \in Nat /\ Day * 6 \in Nat
  BY DayAssumption
<1>9. Day * o <= Day * 6
  <2>1. o <= 6
    OBVIOUS
  <2> QED BY <2>1, LongerDays
<1> QED BY <1>1, <1>4, <1>6, <1>7, <1>8, <1>9

\* The same day one occurring week later or earlier.
LEMMA WeekLater ==
  ASSUME NEW s, ValidWeeks(s), NEW w \in Int, NEW i \in 1..Count(s)
  PROVE  On(s, w + 1, i) = On(s, w, i) + WeekTime(s)
<1>1. PICK T \in Nat \ {0} : T = WeekTime(s)
  BY WeekTimes
<1>2. PICK p \in Int : p = w * T /\ (w + 1) * T = p + T
  BY Multiples
<1>3. PICK d \in Nat : d = Day * Offset(s, i)
  BY OnWeek
<1>4. PICK b \in Int : b = StartWeek(s)
  BY DayAt, 0 \in Int
<1>5. w + 1 \in Int
  OBVIOUS
<1>6. On(s, w, i) = b + p + d
  BY <1>1, <1>2, <1>3, <1>4, OnWeek
<1>7. On(s, w + 1, i) = b + (p + T) + d
  BY <1>1, <1>2, <1>3, <1>4, <1>5, OnWeek
<1> QED BY <1>1, <1>6, <1>7

\* The occurring week a time is in, from the week of the start.
Weeks(s, time) == (time - StartWeek(s)) \div WeekTime(s)

\* The days of that week that have passed.
LEMMA LastDay ==
  ASSUME NEW s, ValidWeeks(s), NEW time \in Nat, time >= s.start
  PROVE  LET a == Weeks(s, time)
         IN /\ a \in Nat
            /\ StartWeek(s) + a * WeekTime(s) <= time
            /\ time < StartWeek(s) + a * WeekTime(s) + WeekTime(s)
            /\ \E r \in 0..Count(s) : /\ a = 0 => StartIndex(s) <= r
                                      /\ \A i \in 1..Count(s) : On(s, a, i) <= time <=> i <= r
<1>1. PICK n \in 1..7 : n = Count(s)
  BY Offsets
<1>2. PICK T \in Nat \ {0} : T = WeekTime(s)
  BY WeekTimes
<1>3. PICK b \in Int : b = StartWeek(s) /\ b <= s.start
  BY DayAt, 0 \in Int
<1>4. PICK a \in Nat : a = Weeks(s, time) /\ T * a <= time - b /\ time - b < T * a + T
  <2>1. time - b \in Int /\ time - b >= 0
    BY <1>3, WeeklyFields
  <2>2. /\ T * ((time - b) \div T) <= time - b /\ time - b < T * ((time - b) \div T) + T
        /\ (time - b) \div T \in Nat
    BY <1>2, <2>1, Division
  <2> QED BY <1>2, <1>3, <2>2 DEF Weeks
<1>5. PICK p \in Int : p = a * T /\ p = T * a
  BY <1>2, <1>4, Product
<1>6. b + p <= time /\ time < b + p + T
  BY <1>2, <1>4, <1>5
<1> DEFINE P == {i \in 1..n : On(s, a, i) <= time}
<1>7. \A i, j \in 1..n : i < j /\ j \in P => i \in P
  <2> SUFFICES ASSUME NEW i \in 1..n, NEW j \in 1..n, i < j, On(s, a, j) <= time
               PROVE  On(s, a, i) <= time
    OBVIOUS
  <2>1. On(s, a, i) < On(s, a, j)
    BY <1>1, OnApart
  <2>2. On(s, a, i) \in Int /\ On(s, a, j) \in Int
    BY <1>1, OnDay
  <2> QED BY <2>1, <2>2
<1>8. PICK r \in 0..n : \A i \in 1..n : i \in P <=> i <= r
  <2>1. P \in SUBSET (1..n)
    OBVIOUS
  <2> HIDE DEF P
  <2> QED BY <1>7, <2>1, Prefix
<1>9. a = 0 => StartIndex(s) <= r
  <2>1. StartIndex(s) \in 1..n /\ On(s, 0, StartIndex(s)) = s.start
    BY <1>1, OnStart
  <2>2. s.start <= time
    BY WeeklyFields
  <2> QED BY <1>8, <2>1, <2>2
<1>10. \A i \in 1..n : On(s, a, i) <= time <=> i <= r
  BY <1>8
<1> QED BY <1>1, <1>2, <1>3, <1>4, <1>5, <1>6, <1>9, <1>10

\* The last of them, or the last of the week before, is the last occurrence that is not
\* later than the time.
LEMMA LastNumber ==
  ASSUME NEW s, ValidWeeks(s), NEW time \in Nat, time >= s.start,
         NEW a \in Nat, a = Weeks(s, time), NEW r \in 0..Count(s),
         a = 0 => StartIndex(s) <= r,
         \A i \in 1..Count(s) : On(s, a, i) <= time <=> i <= r
  PROVE  \E q \in Nat : /\ q = a * Count(s) + r - StartIndex(s)
                        /\ WeeklyAt(s, q) = IF r = 0 THEN On(s, a, Count(s)) - WeekTime(s)
                                            ELSE On(s, a, r)
                        /\ WeeklyAt(s, q) <= time /\ time < WeeklyAt(s, q + 1)
<1>1. PICK n \in 1..7 : n = Count(s)
  BY Offsets
<1>2. PICK x \in 1..n : x = StartIndex(s)
  BY <1>1, Offsets
<1>3. PICK T \in Nat \ {0} : T = WeekTime(s) /\ Day * 7 <= T /\ Day * 7 \in Nat
  BY WeekTimes DEF DaysPerWeek
<1>4. PICK b \in Int : b = StartWeek(s)
  BY DayAt, 0 \in Int
<1>5. PICK p \in Int : p = a * T /\ b + p <= time /\ time < b + p + T
  <2>1. a * T \in Int
    BY <1>3, Product
  <2> QED BY <1>3, <1>4, <2>1, LastDay
<1>6. \A w \in Nat, i \in 1..n : w # 0 \/ x <= i =>
         /\ Number(s, w, i) \in Nat
         /\ WeeklyAt(s, Number(s, w, i)) = On(s, w, i)
  BY <1>1, <1>2, NumberNat
<1>7. \A i \in 1..n : On(s, a, i) \in Int
  BY <1>1, OnDay
<1>8. CASE r # 0
  <2>1. r \in 1..n /\ (a # 0 \/ x <= r)
    BY <1>1, <1>2, <1>8
  <2>2. PICK q \in Nat : q = Number(s, a, r) /\ WeeklyAt(s, q) = On(s, a, r)
    BY <1>6, <2>1
  <2>3. WeeklyAt(s, q) <= time
    BY <1>1, <2>1, <2>2
  <2>4. time < WeeklyAt(s, q + 1)
    <3>1. CASE r = n
      <4>1. Number(s, a + 1, 1) = q + 1
        BY <1>1, <2>2, <3>1, NextNumber
      <4>2. WeeklyAt(s, q + 1) = On(s, a + 1, 1)
        <5>1. a + 1 \in Nat /\ a + 1 # 0 /\ 1 \in 1..n
          OBVIOUS
        <5> QED BY <1>6, <4>1, <5>1
      <4>3. On(s, a + 1, 1) >= b + p + T
        <5>1. (a + 1) * T = p + T
          BY <1>3, <1>5, Multiples
        <5>2. a + 1 \in Int /\ 1 \in 1..n
          OBVIOUS
        <5>3. PICK d \in Nat : d = Day * Offset(s, 1)
          BY <1>1, <5>2, OnWeek
        <5>4. On(s, a + 1, 1) = b + (p + T) + d
          BY <1>1, <1>3, <1>4, <5>1, <5>2, <5>3, OnWeek
        <5> QED BY <1>3, <5>4
      <4>4. On(s, a + 1, 1) \in Int
        BY <1>1, OnDay
      <4> QED BY <1>3, <1>5, <4>2, <4>3, <4>4
    <3>2. CASE r # n
      <4>1. r + 1 \in 1..n /\ ~(r + 1 <= r)
        BY <1>1, <2>1, <3>2
      <4>2. Number(s, a, r + 1) = q + 1
        BY <1>1, <2>1, <2>2, NextNumber
      <4>3. WeeklyAt(s, q + 1) = On(s, a, r + 1)
        <5>1. a # 0 \/ x <= r + 1
          BY <2>1
        <5> QED BY <1>6, <4>1, <4>2, <5>1
      <4> QED BY <1>1, <1>7, <4>1, <4>3
    <3> QED BY <3>1, <3>2
  <2>5. q = a * n + r - x
    BY <1>1, <1>2, <2>2 DEF Number
  <2> QED BY <1>1, <1>2, <1>8, <2>2, <2>3, <2>4, <2>5
<1>9. CASE r = 0
  <2>1. PICK w \in Nat : a = w + 1
    <3>1. a # 0
      BY <1>1, <1>2, <1>9
    <3>2. a - 1 \in Nat /\ a = (a - 1) + 1
      BY <3>1
    <3> QED BY <3>2
  <2>2. n \in 1..n /\ x <= n /\ 1 \in 1..n
    OBVIOUS
  <2>3. PICK q \in Nat : q = Number(s, w, n) /\ WeeklyAt(s, q) = On(s, w, n)
    BY <1>6, <2>2
  <2>4. On(s, a, n) = On(s, w, n) + T /\ On(s, w, n) \in Int
    BY <1>1, <1>3, <2>1, <2>2, WeekLater, OnDay
  <2>5. On(s, w, n) = On(s, a, n) - T
    BY <1>3, <2>4
  <2>6. On(s, w, n) <= time
    <3>1. PICK d \in Nat : d = Day * Offset(s, n) /\ d <= Day * 7
      <4>1. Offset(s, n) \in 0..6
        BY <1>1, <2>2, Offsets
      <4>2. Offset(s, n) <= 7 /\ Offset(s, n) \in Int
        BY <4>1
      <4> QED BY <1>1, <2>2, <4>2, OnWeek, LongerDays
    <3>2. On(s, a, n) = b + p + d
      BY <1>1, <1>3, <1>4, <1>5, <2>2, <3>1, OnWeek
    <3> QED BY <1>3, <1>5, <2>5, <3>1, <3>2
  <2>7. Number(s, a, 1) = q + 1
    BY <1>1, <2>1, <2>2, <2>3, NextNumber
  <2>8. WeeklyAt(s, q + 1) = On(s, a, 1)
    BY <1>6, <2>1, <2>2, <2>7
  <2>9. time < WeeklyAt(s, q + 1)
    <3>1. ~(On(s, a, 1) <= time)
      BY <1>1, <1>9, <2>2
    <3> QED BY <1>7, <2>2, <2>8, <3>1
  <2>10. q = a * n + r - x
    <3>1. PICK m \in Int : m = w * n /\ a * n = m + n
      BY <1>1, <2>1, Multiples
    <3>2. q = m + n - x
      BY <1>1, <1>2, <2>3, <3>1 DEF Number
    <3> QED BY <1>9, <3>1, <3>2
  <2> QED BY <1>1, <1>2, <1>3, <1>9, <2>3, <2>5, <2>6, <2>9, <2>10
<1> QED BY <1>8, <1>9

\* The days after the one with the index m that have passed.
LEMMA DaysPassed ==
  ASSUME NEW n \in 1..7, NEW r \in 0..n, NEW m \in 1..n, m <= r
  PROVE  /\ Cardinality({i \in m + 1..n : i <= r}) = r - m
         /\ {i \in m + 1..n : i <= r} = {} <=> r = m
<1>1. {i \in m + 1..n : i <= r} = m + 1..r
  OBVIOUS
<1>2. PICK k \in Int : k = m + 1
  OBVIOUS
<1>3. Cardinality(k..r) = IF k > r THEN 0 ELSE r - k + 1
  BY <1>2, FS_Interval
<1>4. Cardinality(m + 1..r) = r - m
  BY <1>2, <1>3
<1>5. m + 1..r = {} <=> r = m
  OBVIOUS
<1> QED BY <1>1, <1>4, <1>5

\* The previous occurrence is the last one that is not later than the time.
LEMMA WeeklyPrevious ==
  ASSUME NEW s, ValidWeeks(s), NEW time \in Nat, time >= s.start
  PROVE  \E q \in Nat :
           /\ FindPreviousOccurrence(time, s) = [at |-> WeeklyAt(s, q), number |-> q + 1]
           /\ WeeklyAt(s, q) <= time /\ time < WeeklyAt(s, q + 1)
<1>1. PICK n \in 1..7 : n = Count(s) /\ n = Len(SortedDays(s))
  BY Offsets
<1>2. PICK x \in 1..n : x = StartIndex(s) /\ IndexOf(s, DayOfWeek(s.start)) = x - 1
  <2>1. StartIndex(s) \in 1..n /\ SortedDays(s)[StartIndex(s)] = DayOfWeek(s.start)
    BY <1>1, Offsets
  <2>2. IndexOf(s, SortedDays(s)[StartIndex(s)]) = StartIndex(s) - 1
    BY <1>1, <2>1, Offsets
  <2> QED BY <2>1, <2>2
<1>3. PICK T \in Nat \ {0} : T = WeekTime(s)
  BY WeekTimes
<1>4. PICK b \in Int : b = StartWeek(s)
  BY DayAt, 0 \in Int
<1>5. PICK a \in Nat : a = Weeks(s, time)
  BY LastDay
<1>6. PICK r \in 0..n : /\ a = 0 => x <= r
                        /\ \A i \in 1..n : On(s, a, i) <= time <=> i <= r
  BY <1>1, <1>2, <1>5, LastDay
<1>7. PICK q \in Nat : /\ q = a * n + r - x
                       /\ WeeklyAt(s, q) = IF r = 0 THEN On(s, a, n) - T ELSE On(s, a, r)
                       /\ WeeklyAt(s, q) <= time /\ time < WeeklyAt(s, q + 1)
  <2>1. /\ a = Weeks(s, time) /\ r \in 0..Count(s) /\ (a = 0 => StartIndex(s) <= r)
        /\ \A i \in 1..Count(s) : On(s, a, i) <= time <=> i <= r
    BY <1>1, <1>2, <1>5, <1>6
  <2>2. \E q \in Nat : /\ q = a * Count(s) + r - StartIndex(s)
                       /\ WeeklyAt(s, q) = IF r = 0 THEN On(s, a, Count(s)) - WeekTime(s)
                                           ELSE On(s, a, r)
                       /\ WeeklyAt(s, q) <= time /\ time < WeeklyAt(s, q + 1)
    BY <2>1, LastNumber
  <2> QED BY <1>1, <1>2, <1>3, <2>2, Zenon
<1>8. PICK p \in Int : p = a * T
  BY <1>3, Product
<1>9. PICK c \in Nat : c = a * n
  BY <1>1
<1>O. PICK O \in [1..n -> Int] : /\ \A i \in 1..n : O[i] = On(s, a, i)
                                 /\ \A i \in 1..n : O[i] = b + p + Day * Offset(s, i)
                                 /\ \A i \in 1..n : O[i] <= b + p + Day * DaysPerWeek
  <2> DEFINE F == [i \in 1..n |-> On(s, a, i)]
  <2>1. \A i \in 1..n : On(s, a, i) = b + p + Day * Offset(s, i)
    <3> TAKE i \in 1..n
    <3>1. i \in 1..Count(s) /\ a \in Int
      BY <1>1
    <3>2. On(s, a, i) = StartWeek(s) + a * WeekTime(s) + Day * Offset(s, i)
      BY <3>1, OnWeek
    <3> QED BY <1>3, <1>4, <1>8, <3>2, Zenon
  <2>2. \A i \in 1..n : On(s, a, i) \in Int
    <3>1. a \in Int
      OBVIOUS
    <3> QED BY <1>1, <3>1, OnDay, Zenon
  <2>3. \A i \in 1..n : b + p + Day * Offset(s, i) <= b + p + Day * DaysPerWeek
    <3> TAKE i \in 1..n
    <3>1. Offset(s, i) \in Int /\ Offset(s, i) <= 7
      BY <1>1, Offsets
    <3>2. Day * Offset(s, i) \in Int /\ Day * 7 \in Int /\ Day * Offset(s, i) <= Day * 7
      BY <3>1, LongerDays
    <3> QED BY <3>2 DEF DaysPerWeek
  <2>4. F \in [1..n -> Int]
    BY <2>2
  <2>5. \A i \in 1..n : F[i] = On(s, a, i)
    OBVIOUS
  <2> HIDE DEF F
  <2>6. /\ \A i \in 1..n : F[i] = b + p + Day * Offset(s, i)
        /\ \A i \in 1..n : F[i] <= b + p + Day * DaysPerWeek
    BY <2>1, <2>3, <2>5
  <2> QED BY <2>4, <2>5, <2>6
<1>R. \A i \in 1..n : O[i] <= time <=> i <= r
  BY <1>6, <1>O
<1> DEFINE W == b + p
           OnDate(day) == W + Day * WeeklyDayOffset(day, s.first)
           begins == OnDate(SortedDays(s)[1]) >= s.start
           min == IF begins THEN OnDate(SortedDays(s)[1]) ELSE s.start
           later == {i \in IndexOf(s, DayOfWeek(min)) + 2..n : OnDate(SortedDays(s)[i]) <= time}
           last == IndexOf(s, DayOfWeek(min)) + 1 + Cardinality(later)
           before == c - IndexOf(s, DayOfWeek(s.start))
<1>10. FindPreviousOccurrence(time, s) =
         IF time - W > Day * DaysPerWeek
         THEN [at |-> OnDate(SortedDays(s)[n]), number |-> before + n]
         ELSE IF time >= min
         THEN [at |-> IF later = {} THEN min ELSE OnDate(SortedDays(s)[last]),
               number |-> (IF begins THEN before ELSE 0) + 1 + Cardinality(later)]
         ELSE [at |-> OnDate(SortedDays(s)[n]) - T, number |-> before]
  <2>1. FindPreviousOccurrence(time, s) = FindWeeklyPreviousOccurrence(time, s)
    BY DEF FindPreviousOccurrence, ValidWeeks
  <2>2. /\ Day * s.interval * DaysPerWeek = T
        /\ s.start - Day * WeeklyDayOffset(DayOfWeek(s.start), s.first) = b
        /\ (time - b) \div T = a
        /\ b + a * T = b + p /\ a * n = c
    BY <1>3, <1>4, <1>5, <1>8, <1>9, Zenon DEF WeekTime, StartWeek, Weeks
  <2> QED BY <1>1, <2>1, <2>2, Zenon DEF FindWeeklyPreviousOccurrence
<1>11. \A i \in 1..n : OnDate(SortedDays(s)[i]) = O[i]
  BY <1>O DEF Offset
<1>12. 1 \in 1..n /\ n \in 1..n /\ s.start \in Nat
  BY WeeklyFields
<1>13. IndexOf(s, DayOfWeek(O[1])) = 0
  <2>1. O[1] = On(s, a, 1) /\ 1 \in 1..Count(s) /\ a \in Int
    BY <1>1, <1>O, <1>12
  <2>2. DayOfWeek(O[1]) = SortedDays(s)[1]
    BY <2>1, OnDay
  <2>3. IndexOf(s, SortedDays(s)[1]) = 1 - 1
    BY <2>1, Offsets
  <2> QED BY <2>2, <2>3
<1>14. O[1] < s.start => a = 0 /\ x <= r
  <2>1. O[1] = On(s, a, 1) /\ 1 \in 1..Count(s) /\ x \in 1..Count(s)
    BY <1>1, <1>2, <1>O, <1>12
  <2>2. On(s, 0, x) = s.start
    BY <1>2, OnStart
  <2>3. 0 < a => s.start < O[1]
    <3>1. 0 < a => On(s, 0, x) < On(s, a, 1)
      <4>1. 0 \in Nat
        OBVIOUS
      <4> QED BY <2>1, <4>1, OnApart
    <3> QED BY <2>1, <2>2, <3>1
  <2>4. O[1] \in Int
    BY <1>12
  <2> QED BY <1>6, <1>12, <2>3, <2>4
<1>15. W \in Int /\ Day * DaysPerWeek \in Int /\ \A i \in 1..n : O[i] \in Int
  BY DayAssumption DEF DaysPerWeek
\* After the week its last day is the previous occurrence.
<1>16. CASE time - W > Day * DaysPerWeek
  <2>1. O[n] <= time
    BY <1>O, <1>12, <1>15, <1>16
  <2>2. r = n
    BY <1>R, <1>12, <2>1
  <2>3. WeeklyAt(s, q) = O[n]
    BY <1>7, <1>O, <1>12, <2>2
  <2>4. FindPreviousOccurrence(time, s) = [at |-> OnDate(SortedDays(s)[n]), number |-> before + n]
    BY <1>10, <1>16, Zenon
  <2>5. before + n = q + 1
    BY <1>2, <1>7, <1>9, <2>2
  <2> QED BY <1>7, <1>11, <1>12, <2>3, <2>4, <2>5, Zenon
\* In the week it is the last day that has passed, from the start on.
<1>17. ASSUME NEW k \in 1..n, NEW e \in Int, k <= r, ~(time - W > Day * DaysPerWeek),
              min = O[k], IndexOf(s, DayOfWeek(min)) = k - 1,
              e = IF begins THEN before ELSE 0, e + 1 + (r - k) = q + 1
       PROVE  FindPreviousOccurrence(time, s) = [at |-> WeeklyAt(s, q), number |-> q + 1]
  <2>1. IndexOf(s, DayOfWeek(min)) + 2 = k + 1 /\ IndexOf(s, DayOfWeek(min)) + 1 = k
    BY <1>17
  <2>2. later = {i \in k + 1..n : i <= r}
    <3>1. \A i \in k + 1..n : i \in 1..n
      OBVIOUS
    <3>2. \A i \in k + 1..n : OnDate(SortedDays(s)[i]) <= time <=> i <= r
      BY <1>R, <1>11, <3>1
    <3> QED BY <2>1, <3>2
  <2>3. Cardinality(later) = r - k /\ (later = {} <=> r = k)
    <3> HIDE DEF later
    <3> QED BY <1>17, <2>2, DaysPassed
  <2>4. last = r /\ r \in 1..n /\ r # 0
    <3>1. last = k + (r - k)
      <4> HIDE DEF later
      <4> QED BY <2>1, <2>3, Zenon
    <3> QED BY <1>17, <3>1
  <2>5. time >= min
    BY <1>R, <1>15, <1>17
  <2>6. FindPreviousOccurrence(time, s) =
          [at |-> IF later = {} THEN min ELSE OnDate(SortedDays(s)[last]),
           number |-> (IF begins THEN before ELSE 0) + 1 + Cardinality(later)]
    BY <1>10, <1>17, <2>5, Zenon
  <2>7. (IF later = {} THEN min ELSE OnDate(SortedDays(s)[last])) = O[r]
    BY <1>11, <1>17, <2>3, <2>4
  <2>8. WeeklyAt(s, q) = O[r]
    BY <1>7, <1>O, <2>4
  <2> QED BY <1>17, <2>3, <2>6, <2>7, <2>8
<1>18. CASE ~(time - W > Day * DaysPerWeek) /\ O[1] >= s.start
  <2>1. begins /\ min = O[1]
    BY <1>11, <1>12, <1>18
  <2>2. CASE r # 0
    <3>1. before + 1 + (r - 1) = q + 1 /\ before \in Int
      <4>1. before = c - (x - 1)
        BY <1>2, Zenon
      <4>2. q = c + r - x
        BY <1>7, <1>9
      <4> HIDE DEF before
      <4> QED BY <4>1, <4>2
    <3>2. 1 <= r
      BY <2>2
    <3>3. IndexOf(s, DayOfWeek(min)) = 1 - 1
      BY <1>13, <2>1
    <3>4. before = IF begins THEN before ELSE 0
      BY <2>1
    <3> QED BY <1>7, <1>12, <1>17, <1>18, <2>1, <3>1, <3>2, <3>3, <3>4
  <2>3. CASE r = 0
    <3>1. ~(time >= min)
      BY <1>R, <1>12, <1>15, <2>1, <2>3
    <3>2. FindPreviousOccurrence(time, s) = [at |-> OnDate(SortedDays(s)[n]) - T, number |-> before]
      BY <1>10, <1>18, <3>1, Zenon
    <3>3. WeeklyAt(s, q) = O[n] - T
      BY <1>7, <1>O, <1>12, <2>3
    <3>4. before = q + 1
      BY <1>2, <1>7, <1>9, <2>3
    <3> QED BY <1>7, <1>11, <1>12, <3>2, <3>3, <3>4, Zenon
  <2> QED BY <2>2, <2>3
<1>19. CASE ~(time - W > Day * DaysPerWeek) /\ O[1] < s.start
  <2>1. ~begins /\ min = s.start
    BY <1>11, <1>12, <1>15, <1>19
  <2>2. a = 0 /\ x <= r
    BY <1>14, <1>19
  <2>3. min = O[x]
    <3>1. On(s, 0, x) = s.start
      BY <1>2, OnStart
    <3> QED BY <1>O, <2>1, <2>2, <3>1
  <2>4. IndexOf(s, DayOfWeek(min)) = x - 1
    BY <1>2, <2>1
  <2>5. 0 + 1 + (r - x) = q + 1
    BY <1>7, <2>2
  <2>6. 0 = IF begins THEN before ELSE 0
    BY <2>1
  <2> QED BY <1>7, <1>17, <1>19, <2>2, <2>3, <2>4, <2>5, <2>6
<1> QED BY <1>7, <1>12, <1>15, <1>16, <1>18, <1>19

-----------------------------------------------------------------------------
(* The occurrences of either pattern.                                      *)

\* Settings of a recurrence that the validator accepts.
Valid(s) == IsSettings(s) /\ TryValidateSettings(s) /\ s.pattern # "None"

\* The occurrence with the number j, counting from 0.
At(s, j) == IF s.pattern = "Daily" THEN DailyAt(s, j) ELSE WeeklyAt(s, j)

\* The range of the recurrence admits the occurrence with the number j.
Admitted(s, j) ==
  /\ s.range = "EndDate" => At(s, j) <= s.endDate
  /\ s.range = "Numbered" => j + 1 <= s.number

\* The pattern is one of the two.
LEMMA Patterns ==
  ASSUME NEW s, Valid(s)
  PROVE  \/ ValidDaily(s) /\ ~ValidWeeks(s) /\ \A j : At(s, j) = DailyAt(s, j)
         \/ ValidWeeks(s) /\ ~ValidDaily(s) /\ \A j : At(s, j) = WeeklyAt(s, j)
<1>1. s.pattern = "Daily" \/ s.pattern = "Weekly"
  BY DEF Valid, IsSettings
<1> QED BY <1>1 DEF Valid, ValidDaily, ValidWeeks, At

\* What the validator says of the settings.
LEMMA Fields ==
  ASSUME NEW s, Valid(s)
  PROVE  /\ s.start \in Nat /\ s.end \in Nat /\ s.interval \in Nat \ {0}
         /\ s.endDate \in Int /\ s.number \in Int
         /\ Length(s) \in Nat \ {0} /\ 7 * Length(s) \in Nat
         /\ Duration(s) \in Nat /\ 0 < Duration(s)
         /\ At(s, 0) = s.start /\ Admitted(s, 0)
<1>1. /\ s.start \in Nat /\ s.end \in Nat /\ s.interval \in Nat \ {0}
      /\ s.endDate \in Int /\ s.number \in Int
      /\ Duration(s) \in Nat /\ 0 < Duration(s)
  BY Patterns, DailyFields, WeeklyFields
<1>2. Length(s) \in Nat \ {0}
  BY <1>1, DayAssumption DEF Length
<1>3. At(s, 0) = s.start
  <2>1. ValidDaily(s) => DailyAt(s, 0) = s.start
    BY DailyApart
  <2>2. ValidWeeks(s) => WeeklyAt(s, 0) = s.start
    BY WeeklyApart
  <2> QED BY <2>1, <2>2, Patterns
<1>4. TryValidateRange(s)
  BY DEF Valid, TryValidateSettings
<1>5. Admitted(s, 0)
  BY <1>1, <1>3, <1>4 DEF Admitted, TryValidateRange
<1>6. 7 * Length(s) \in Nat
  BY <1>2
<1> QED BY <1>1, <1>2, <1>3, <1>5, <1>6

\* The occurrences are in their order, and none begins before the last one's window ends.
LEMMA Apart ==
  ASSUME NEW s, Valid(s), NEW i \in Nat, NEW j \in Nat
  PROVE  /\ At(s, i) \in Nat /\ At(s, i) >= s.start
         /\ i < j => At(s, i) < At(s, j) /\ At(s, i) + Duration(s) <= At(s, j)
         /\ i <= j => At(s, i) <= At(s, j)
         /\ At(s, i) = At(s, j) => i = j
         /\ At(s, i + 1) <= At(s, i) + 7 * Length(s)
         /\ i <= j /\ Admitted(s, j) => Admitted(s, i)
<1>0. /\ Duration(s) \in Nat /\ s.endDate \in Int /\ s.number \in Int /\ s.start \in Nat
      /\ Length(s) \in Nat \ {0}
  BY Fields
<1>1. ASSUME NEW k \in Nat, NEW m \in Nat
      PROVE  /\ At(s, k) \in Nat /\ At(s, k) >= s.start
             /\ k < m => At(s, k) < At(s, m) /\ At(s, k) + Duration(s) <= At(s, m)
             /\ At(s, k + 1) <= At(s, k) + 7 * Length(s)
  <2>1. CASE ValidDaily(s)
    <3>1. /\ DailyAt(s, k) \in Nat /\ DailyAt(s, k) >= s.start /\ DailyAt(s, m) \in Nat
          /\ k < m => /\ DailyAt(s, k) + Length(s) <= DailyAt(s, m)
                      /\ DailyAt(s, k) + Duration(s) <= DailyAt(s, m)
          /\ DailyAt(s, k + 1) = DailyAt(s, k) + Length(s)
      BY <2>1, DailyApart
    <3>2. k < m => DailyAt(s, k) < DailyAt(s, m)
      BY <1>0, <3>1
    <3>3. DailyAt(s, k + 1) <= DailyAt(s, k) + 7 * Length(s)
      BY <1>0, <3>1
    <3> QED BY <2>1, <3>1, <3>2, <3>3, Patterns, Zenon
  <2>2. CASE ValidWeeks(s)
    <3>1. /\ WeeklyAt(s, k) \in Nat /\ WeeklyAt(s, k) >= s.start
          /\ k < m => /\ WeeklyAt(s, k) < WeeklyAt(s, m)
                      /\ WeeklyAt(s, k) + Duration(s) <= WeeklyAt(s, m)
      BY <2>2, WeeklyApart
    <3>2. WeeklyAt(s, k + 1) <= WeeklyAt(s, k) + Day * WeekLength(s)
      BY <2>2, WeeklyNext
    <3>3. Day * WeekLength(s) = 7 * Length(s)
      BY <1>0, WeeklyFields, DayAssumption, Fields DEF WeekLength, Length, DaysPerWeek
    <3> QED BY <2>2, <3>1, <3>2, <3>3, Patterns, Zenon
  <2> QED BY <2>1, <2>2, Patterns
<1>2. /\ At(s, i) \in Nat /\ At(s, j) \in Nat
      /\ i < j => At(s, i) < At(s, j) /\ At(s, i) + Duration(s) <= At(s, j)
      /\ j < i => At(s, j) < At(s, i)
  BY <1>1
<1>3. i <= j => At(s, i) <= At(s, j)
  BY <1>2
<1>4. At(s, i) = At(s, j) => i = j
  BY <1>2
<1>5. i <= j /\ Admitted(s, j) => Admitted(s, i)
  BY <1>0, <1>2, <1>3 DEF Admitted
<1> QED BY <1>1, <1>2, <1>3, <1>4, <1>5

\* The occurrences are a number of days after the start.
LEMMA DaysLater ==
  ASSUME NEW s, Valid(s), NEW j \in Nat
  PROVE  \E k \in Nat : At(s, j) = s.start + k * Day
<1>0. Day \in Nat \ {0} /\ s.start \in Nat /\ s.interval \in Nat \ {0}
  BY Fields, DayAssumption
<1>1. CASE ValidDaily(s)
  <2>1. j * (Day * s.interval) = (j * s.interval) * Day /\ j * s.interval \in Nat
    BY <1>0, Product
  <2>2. At(s, j) = s.start + (j * s.interval) * Day
    BY <1>1, <2>1, Patterns DEF DailyAt, Length
  <2> QED BY <2>1, <2>2
<1>2. CASE ValidWeeks(s)
  <2>1. PICK w \in Nat, i \in 1..Count(s) : Number(s, w, i) = j /\ At(s, j) = On(s, w, i)
    <3>1. \E w \in Nat : \E i \in 1..Count(s) : Number(s, w, i) = j /\ WeeklyAt(s, j) = On(s, w, i)
      BY <1>2, Numbers
    <3>2. At(s, j) = WeeklyAt(s, j)
      BY <1>2, Patterns
    <3> QED BY <3>1, <3>2, Zenon
  <2>2. PICK x \in 1..Count(s) : On(s, 0, x) = s.start
    BY <1>2, OnStart
  <2>3. PICK c \in Int, d \in Int : c = DayNumber(s, w, i) /\ d = DayNumber(s, 0, x)
    <3>1. WeekLength(s) \in Nat /\ Offset(s, i) \in 0..6 /\ Offset(s, x) \in 0..6
      BY <1>2, WeeklyFields, Offsets
    <3>2. w * WeekLength(s) \in Int /\ 0 * WeekLength(s) \in Int
      BY <3>1, Product
    <3> QED BY <3>1, <3>2 DEF DayNumber
  <2>4. PICK b \in Int : b = StartWeek(s)
    BY <1>2, DayAt, 0 \in Int
  <2>5. PICK e \in Int, f \in Int : e = Day * c /\ f = Day * d
    BY <1>0
  <2>6. At(s, j) = b + e /\ s.start = b + f
    BY <2>1, <2>2, <2>3, <2>4, <2>5 DEF On
  <2>7. PICK k \in Int : k = c - d
    BY <2>3
  <2>8. k * Day = e - f
    BY <1>0, <2>3, <2>5, <2>7
  <2>9. At(s, j) = s.start + k * Day
    BY <2>4, <2>5, <2>6, <2>8
  <2>10. ~(k < 0)
    <3>1. k < 0 => k * Day + Day <= 0 * Day
      BY <1>0, Multiples
    <3>2. At(s, j) \in Nat /\ At(s, j) >= s.start /\ k * Day \in Int
      BY <1>0, Apart, Product
    <3> QED BY <1>0, <2>9, <3>1, <3>2
  <2>11. k \in Nat
    BY <2>10
  <2> QED BY <2>9, <2>11
<1> QED BY <1>1, <1>2, Patterns

\* The recurrences up to a time.
LEMMA RecurrencesUpTo ==
  ASSUME NEW s, Valid(s), NEW h \in Int
  PROVE  \A t : t \in Recurrences(s, h) <=> \E j \in Nat : t = At(s, j) /\ t <= h
<1>1. s.start \in Nat /\ Day \in Nat \ {0}
  BY Fields, DayAssumption
<1>2. \A k \in Nat : k \in 0..((h - s.start) \div Day) <=> s.start + k * Day <= h
  <2> TAKE k \in Nat
  <2>1. h - s.start \in Int
    BY <1>1
  <2>2. (h - s.start) \div Day \in Int
    BY <1>1, <2>1, Division
  <2>3. k <= (h - s.start) \div Day <=> Day * k <= h - s.start
    <3>1. k \in Int
      OBVIOUS
    <3> QED BY <1>1, <2>1, <3>1, DivisionBound, Zenon
  <2>4. Day * k \in Int /\ k * Day = Day * k
    BY <1>1, Product
  <2> QED
    BY <1>1, <2>2, <2>3, <2>4
<1>3. (h - s.start) \div Day \in Int
  BY <1>1, Division
<1>4. \A k \in Nat : Recurs(s.start + k * Day, s) <=> \E j \in Nat : s.start + k * Day = At(s, j)
  <2>1. ValidDaily(s) => \A k \in Nat :
           Recurs(s.start + k * Day, s) <=> \E j \in Nat : s.start + k * Day = DailyAt(s, j)
    BY DailyRecurs
  <2>2. ValidWeeks(s) => \A k \in Nat :
           Recurs(s.start + k * Day, s) <=> \E j \in Nat : s.start + k * Day = WeeklyAt(s, j)
    BY WeeklyRecurs
  <2> QED BY <2>1, <2>2, Patterns
<1>5. ASSUME NEW t, t \in Recurrences(s, h)
      PROVE  \E j \in Nat : t = At(s, j) /\ t <= h
  <2>1. PICK k \in 0..((h - s.start) \div Day) : t = s.start + k * Day /\ Recurs(t, s)
    BY <1>5 DEF Recurrences
  <2>2. k \in Nat
    BY <1>3
  <2> QED
    BY <1>2, <1>4, <2>1, <2>2
<1>6. ASSUME NEW j \in Nat, At(s, j) <= h
      PROVE  At(s, j) \in Recurrences(s, h)
  <2>1. PICK k \in Nat : At(s, j) = s.start + k * Day
    BY DaysLater
  <2>2. k \in 0..((h - s.start) \div Day)
    BY <1>2, <1>6, <2>1
  <2>3. Recurs(At(s, j), s)
    BY <1>4, <2>1
  <2> QED
    BY <2>1, <2>2, <2>3 DEF Recurrences
<1> QED
  BY <1>5, <1>6

\* There are j + 1 of them up to the one with the number j.
LEMMA Counted ==
  ASSUME NEW s, Valid(s), NEW j \in Nat
  PROVE  Cardinality(Recurrences(s, At(s, j))) = j + 1
<1> DEFINE S == Recurrences(s, At(s, j))
           f == [i \in 0..j |-> At(s, i)]
<1>1. At(s, j) \in Int
  BY Apart
<1>2. \A t : t \in S <=> \E i \in 0..j : t = At(s, i)
  <2>1. \A i \in Nat : At(s, i) <= At(s, j) <=> i <= j
    <3> TAKE i \in Nat
    <3>1. /\ At(s, i) \in Nat /\ At(s, j) \in Nat
          /\ i <= j => At(s, i) <= At(s, j)
          /\ j < i => At(s, j) < At(s, i)
      BY Apart
    <3> QED
      BY <3>1
  <2> QED
    BY <1>1, <2>1, RecurrencesUpTo
<1>3. f \in Bijection(0..j, S)
  <2>1. \A i, k \in 0..j : At(s, i) = At(s, k) => i = k
    BY Apart
  <2> HIDE DEF S
  <2> QED
    BY <1>2, <2>1 DEF Bijection, Injection, Surjection, IsInjective
<1>4. IsFiniteSet(0..j) /\ Cardinality(0..j) = j + 1
  BY FS_Interval
<1>5. ExistsBijection(0..j, S)
  BY <1>3 DEF ExistsBijection
<1> QED
  BY <1>4, <1>5, FS_Bijection

\* The occurrences up to a time: those the range admits.
LEMMA OccurrencesUpTo ==
  ASSUME NEW s, Valid(s), NEW h \in Int
  PROVE  \A t : t \in Occurrences(s, h) <=>
                  \E j \in Nat : t = At(s, j) /\ t <= h /\ Admitted(s, j)
<1>1. \A t : t \in Recurrences(s, h) <=> \E j \in Nat : t = At(s, j) /\ t <= h
  BY RecurrencesUpTo
<1>2. \A j \in Nat : Cardinality(Recurrences(s, At(s, j))) = j + 1
  BY Counted
<1> QED
  BY <1>1, <1>2 DEF Occurrences, Admitted

-----------------------------------------------------------------------------
(* The evaluator agrees with the occurrences.                              *)

\* The previous occurrence is the last one that is not later than the time.
LEMMA Previous ==
  ASSUME NEW s, Valid(s), NEW time \in Nat, time >= s.start
  PROVE  \E q \in Nat : /\ FindPreviousOccurrence(time, s) = [at |-> At(s, q), number |-> q + 1]
                        /\ At(s, q) <= time /\ time < At(s, q + 1)
<1>1. CASE ValidDaily(s)
  <2>1. PICK q \in Nat :
          /\ FindPreviousOccurrence(time, s) = [at |-> DailyAt(s, q), number |-> q + 1]
          /\ DailyAt(s, q) <= time /\ time < DailyAt(s, q + 1)
    BY <1>1, DailyPrevious
  <2> QED BY <1>1, <2>1, Patterns, Zenon
<1>2. CASE ValidWeeks(s)
  <2>1. PICK q \in Nat :
          /\ FindPreviousOccurrence(time, s) = [at |-> WeeklyAt(s, q), number |-> q + 1]
          /\ WeeklyAt(s, q) <= time /\ time < WeeklyAt(s, q + 1)
    BY <1>2, WeeklyPrevious
  <2> QED BY <1>2, <2>1, Patterns, Zenon
<1> QED BY <1>1, <1>2, Patterns

\* The next occurrence is the one with the next number, if the range admits it.
LEMMA Following ==
  ASSUME NEW s, Valid(s), NEW q \in Nat
  PROVE  NextOccurrence([at |-> At(s, q), number |-> q + 1], s)
           = IF Admitted(s, q + 1) THEN At(s, q + 1) ELSE NoTime
<1>0. s.endDate \in Int /\ s.number \in Int /\ s.start \in Nat /\ Length(s) \in Nat
  BY Fields
<1>a. At(s, q + 1) \in Nat
  BY Apart
<1>1. (IF s.pattern = "Daily" THEN At(s, q) + Day * s.interval ELSE NextWeekly(At(s, q), s))
        = At(s, q + 1)
  <2>1. CASE ValidDaily(s)
    <3>1. DailyAt(s, q + 1) = DailyAt(s, q) + Length(s)
      BY <2>1, DailyApart
    <3> QED BY <2>1, <3>1, Patterns DEF ValidDaily, Length
  <2>2. CASE ValidWeeks(s)
    <3>1. NextWeekly(WeeklyAt(s, q), s) = WeeklyAt(s, q + 1)
      BY <2>2, WeeklyNext
    <3>2. s.pattern # "Daily"
      BY <2>2 DEF ValidWeeks
    <3> QED BY <2>2, <3>1, <3>2, Patterns, Zenon
  <2> QED BY <2>1, <2>2, Patterns
<1>2. /\ ~ (\/ s.range = "EndDate" /\ At(s, q + 1) > s.endDate
            \/ s.range = "Numbered" /\ q + 1 >= s.number)
      <=> Admitted(s, q + 1)
  BY <1>0, <1>a DEF Admitted
<1> QED BY <1>1, <1>2 DEF NextOccurrence

\* A time is in a window exactly when it is in one that the range admits.
LEMMA Window ==
  ASSUME NEW s, Valid(s), NEW time \in Nat
  PROVE  InWindow(time, s) <=>
           \E j \in Nat : /\ Admitted(s, j) /\ At(s, j) <= time
                          /\ time < At(s, j) + Duration(s)
<1>1. \A t : t \in Occurrences(s, time) <=>
               \E j \in Nat : t = At(s, j) /\ t <= time /\ Admitted(s, j)
  BY OccurrencesUpTo
<1> QED
  BY <1>1, Zenon DEF InWindow

\* A time is in no window but that of the previous occurrence.
LEMMA Nearest ==
  ASSUME NEW s, Valid(s), NEW time \in Nat, NEW q \in Nat,
         At(s, q) <= time, time < At(s, q + 1),
         NEW j \in Nat
  PROVE  /\ At(s, j) <= time /\ time < At(s, j) + Duration(s) => j = q
         /\ time < At(s, j) + Duration(s) => q <= j
         /\ q < j => q + 1 <= j /\ At(s, q + 1) <= At(s, j)
<1>1. /\ At(s, q) \in Nat /\ At(s, j) \in Nat /\ At(s, q + 1) \in Nat
      /\ Duration(s) \in Nat
      /\ j < q => At(s, j) + Duration(s) <= At(s, q)
      /\ q + 1 <= j => At(s, q + 1) <= At(s, j)
  BY Apart, Fields
<1> QED
  BY <1>1

\* IsMatch finds exactly the times in a window.
LEMMA MatchesWindow ==
  ASSUME NEW s, Valid(s), NEW time \in Nat
  PROVE  IsMatch(time, s) <=> InWindow(time, s)
<1>1. CASE time < s.start
  <2>1. \A j \in Nat : At(s, j) \in Nat /\ At(s, j) >= s.start
    BY Apart
  <2>2. ~InWindow(time, s)
    BY <1>1, <2>1, Window, Fields
  <2> QED
    BY <1>1, <2>2, Fields DEF IsMatch
<1>2. CASE time >= s.start
  <2>1. PICK q \in Nat : /\ FindPreviousOccurrence(time, s) = [at |-> At(s, q), number |-> q + 1]
                         /\ At(s, q) <= time /\ time < At(s, q + 1)
    BY <1>2, Previous
  <2>2. InRange([at |-> At(s, q), number |-> q + 1], s) <=> Admitted(s, q)
    BY DEF InRange, Admitted
  <2>3. IsMatch(time, s) <=> Admitted(s, q) /\ time < At(s, q) + Duration(s)
    BY <1>2, <2>1, <2>2 DEF IsMatch
  <2>4. \A j \in Nat : At(s, j) <= time /\ time < At(s, j) + Duration(s) => j = q
    BY <2>1, Nearest
  <2> QED
    BY <2>1, <2>3, <2>4, Window
<1> QED
  BY <1>1, <1>2, Fields

\* No admitted window that is not over at a time begins before the closest start.
IsClosest(start, time, s) ==
  /\ start = NoTime \/ \E j \in Nat : start = At(s, j) /\ Admitted(s, j)
  /\ \A j \in Nat : Admitted(s, j) /\ time < At(s, j) + Duration(s) =>
                       start # NoTime /\ start <= At(s, j)

\* CalculateClosestStart finds the closest start, and its window is not over.
LEMMA Closest ==
  ASSUME NEW s, Valid(s), NEW time \in Nat
  PROVE  LET start == CalculateClosestStart(time, s)
         IN /\ IsClosest(start, time, s)
            /\ start # NoTime => /\ time < start + Duration(s)
                                 /\ start <= s.start \/ start <= time + 7 * Length(s)
<1> PICK start : start = CalculateClosestStart(time, s)
  OBVIOUS
<1>0. /\ s.start \in Nat /\ Duration(s) \in Nat /\ 0 < Duration(s) /\ 7 * Length(s) \in Nat
      /\ s.endDate \in Int /\ s.number \in Int
      /\ Admitted(s, 0)
  BY Fields
<1>t. NoTime \notin Nat
  BY NoTimeAssumption
<1>a. \A j \in Nat : At(s, j) \in Nat /\ At(s, j) >= s.start
  BY Apart
<1>1. CASE time < s.start
  <2>1. start = s.start /\ s.start = At(s, 0)
    BY <1>0, <1>1, Fields DEF CalculateClosestStart
  <2> QED
    BY <1>0, <1>1, <1>t, <1>a, <2>1 DEF IsClosest
<1>2. CASE time >= s.start
  <2>1. PICK q \in Nat : /\ FindPreviousOccurrence(time, s) = [at |-> At(s, q), number |-> q + 1]
                         /\ At(s, q) <= time /\ time < At(s, q + 1)
    BY <1>2, Previous
  <2>2. InRange([at |-> At(s, q), number |-> q + 1], s) <=> Admitted(s, q)
    BY DEF InRange, Admitted
  <2>3. \A j \in Nat : /\ time < At(s, j) + Duration(s) => q <= j
                       /\ q < j => q + 1 <= j /\ At(s, q + 1) <= At(s, j)
    BY <2>1, Nearest
  <2>4. \A j \in Nat : q <= j => /\ At(s, q) <= At(s, j)
                                 /\ Admitted(s, j) => Admitted(s, q)
    BY Apart
  <2>5. At(s, q + 1) <= At(s, q) + 7 * Length(s)
    BY Apart
  <2>6. ~(time < s.start)
    BY <1>0, <1>2
  <2>7. CASE ~Admitted(s, q)
    <3>1. start = NoTime
      BY <2>1, <2>2, <2>6, <2>7, Zenon DEF CalculateClosestStart
    <3> QED
      BY <2>3, <2>4, <2>7, <3>1, Zenon DEF IsClosest
  <2>8. CASE Admitted(s, q) /\ time < At(s, q) + Duration(s)
    <3>1. start = At(s, q)
      BY <2>1, <2>2, <2>6, <2>8 DEF CalculateClosestStart
    <3>2. start # NoTime /\ start <= time + 7 * Length(s) /\ time < start + Duration(s)
      BY <1>0, <1>t, <1>a, <2>1, <2>8, <3>1
    <3> QED
      BY <2>3, <2>4, <2>8, <3>1, <3>2, Zenon DEF IsClosest
  <2>9. CASE Admitted(s, q) /\ ~(time < At(s, q) + Duration(s))
    <3>1. start = NextOccurrence([at |-> At(s, q), number |-> q + 1], s)
      BY <2>1, <2>2, <2>6, <2>9 DEF CalculateClosestStart
    <3>2. start = IF Admitted(s, q + 1) THEN At(s, q + 1) ELSE NoTime
      BY <3>1, Following
    <3>3. \A j \in Nat : time < At(s, j) + Duration(s) => q + 1 <= j /\ At(s, q + 1) <= At(s, j)
      <4> TAKE j \in Nat
      <4>1. time < At(s, j) + Duration(s) => q <= j /\ q # j
        BY <2>3, <2>9, Zenon
      <4> QED
        BY <2>3, <4>1
    <3>4. \A j \in Nat : q + 1 <= j /\ Admitted(s, j) => Admitted(s, q + 1)
      BY Apart
    <3>5. CASE Admitted(s, q + 1)
      <4>1. start = At(s, q + 1) /\ q + 1 \in Nat
        BY <3>2, <3>5
      <4>2. start # NoTime /\ start <= time + 7 * Length(s) /\ time < start + Duration(s)
        BY <1>0, <1>t, <1>a, <2>1, <2>5, <4>1
      <4> QED
        BY <3>3, <3>5, <4>1, <4>2, Zenon DEF IsClosest
    <3>6. CASE ~Admitted(s, q + 1)
      BY <3>2, <3>3, <3>4, <3>6, Zenon DEF IsClosest
    <3> QED
      BY <3>5, <3>6
  <2> QED
    BY <2>7, <2>8, <2>9
<1> QED
  BY <1>0, <1>1, <1>2

-----------------------------------------------------------------------------
(* What is known of a closest start that was calculated earlier.           *)

\* A closest start stays the closest while time goes on.
LEMMA Later ==
  ASSUME NEW s, Valid(s), NEW time \in Nat, NEW later \in Nat, time <= later,
         NEW start, IsClosest(start, time, s)
  PROVE  IsClosest(start, later, s)
<1>1. \A j \in Nat : At(s, j) \in Nat
  BY Apart
<1>2. Duration(s) \in Nat
  BY Fields
<1>3. \A j \in Nat : later < At(s, j) + Duration(s) => time < At(s, j) + Duration(s)
  BY <1>1, <1>2
<1> QED
  BY <1>3, Zenon DEF IsClosest

\* The first window is one of the recurring ones.
LEMMA FirstRecurs ==
  ASSUME NEW s, Valid(s), NEW time \in Nat, InFirst(time, s)
  PROVE  InWindow(time, s)
<1>1. /\ s.start \in Nat /\ s.end \in Nat /\ Length(s) \in Nat /\ Admitted(s, 0)
  BY Fields
<1>2. s.start # NoTime /\ s.end # NoTime
  BY <1>1, NoTimeAssumption
<1>3. At(s, 0) = s.start
  BY Fields
<1>4. time >= s.start /\ time < s.end
  BY <1>2 DEF InFirst
<1>5. At(s, 0) <= time /\ time < At(s, 0) + Duration(s)
  BY <1>1, <1>3, <1>4 DEF Duration
<1>6. 0 \in Nat
  OBVIOUS
<1> QED
  BY <1>1, <1>5, <1>6, Window, Zenon

\* Before the closest start no window is open.
LEMMA Quiet ==
  ASSUME NEW s, Valid(s), NEW time \in Nat, NEW start, IsClosest(start, time, s),
         start = NoTime \/ time < start
  PROVE  ~InWindow(time, s) /\ ~InFirst(time, s)
<1>1. ASSUME NEW j \in Nat, Admitted(s, j), At(s, j) <= time, time < At(s, j) + Duration(s)
      PROVE  FALSE
  <2>1. start # NoTime /\ start <= At(s, j)
    BY <1>1 DEF IsClosest
  <2>2. PICK i \in Nat : start = At(s, i)
    BY <2>1 DEF IsClosest
  <2>3. At(s, i) \in Nat /\ At(s, j) \in Nat
    BY Apart
  <2> QED
    BY <1>1, <2>1, <2>2, <2>3
<1>2. ~InWindow(time, s)
  BY <1>1, Window
<1> QED
  BY <1>2, FirstRecurs, Zenon

\* The settings with windows that are one unit of time longer.
Longer(s) == [s EXCEPT !.end = @ + 1]

\* They have the same occurrences.
LEMMA LongerAt ==
  ASSUME NEW s, Valid(s)
  PROVE  /\ IsSettings(Longer(s)) /\ Longer(s).pattern = s.pattern
         /\ Duration(Longer(s)) = Duration(s) + 1
         /\ \A j : At(Longer(s), j) = At(s, j)
<1> PICK e : e = Longer(s)
  OBVIOUS
<1>1. /\ IsSettings(s) /\ s.start \in Nat /\ s.end \in Nat
  BY Fields DEF Valid
<1>2. /\ e.start = s.start /\ e.end = s.end + 1 /\ e.pattern = s.pattern
      /\ e.interval = s.interval /\ e.days = s.days /\ e.first = s.first
  BY <1>1 DEF IsSettings, Longer
<1>3. IsSettings(e)
  BY <1>1 DEF IsSettings, Longer
<1>4. Duration(e) = Duration(s) + 1
  BY <1>1, <1>2 DEF Duration
<1>5. Days(e) = Days(s)
  BY <1>2 DEF Days
<1>6. \A d : Earlier(e, d) = Earlier(s, d)
  BY <1>2, <1>5 DEF Earlier
<1>7. SortedDays(e) = SortedDays(s) /\ \A d : IndexOf(e, d) = IndexOf(s, d)
  BY <1>5, <1>6 DEF SortedDays, IndexOf
<1>8. \A j : WeeklyAt(e, j) = WeeklyAt(s, j)
  <2>1. /\ Count(e) = Count(s) /\ StartIndex(e) = StartIndex(s) /\ WeekLength(e) = WeekLength(s)
        /\ StartWeek(e) = StartWeek(s)
    BY <1>2, <1>5, <1>7 DEF Count, StartIndex, WeekLength, StartWeek
  <2>2. \A i : Offset(e, i) = Offset(s, i)
    BY <1>2, <1>7 DEF Offset
  <2>3. \A w, i : On(e, w, i) = On(s, w, i)
    BY <2>1, <2>2 DEF On, DayNumber
  <2> QED BY <2>1, <2>3 DEF WeeklyAt
<1>9. \A j : DailyAt(e, j) = DailyAt(s, j)
  BY <1>2 DEF DailyAt, Length
<1>10. \A j : At(e, j) = At(s, j)
  BY <1>2, <1>8, <1>9 DEF At
<1> QED BY <1>2, <1>3, <1>4, <1>10

\* The validator would accept longer windows: there is a gap between one and the next.
HasGaps(s) == TryValidateSettings(s) => TryValidateSettings(Longer(s))

\* With a gap between the windows none is open just before one opens.
LEMMA Gap ==
  ASSUME NEW s, Valid(s), HasGaps(s), NEW j \in Nat,
         NEW time \in Nat, time + 1 = At(s, j)
  PROVE  ~InWindow(time, s)
<1>0. Valid(Longer(s))
  BY LongerAt DEF Valid, HasGaps
<1>1. ASSUME NEW i \in Nat, At(s, i) <= time, time < At(s, i) + Duration(s)
      PROVE  FALSE
  <2>1. i < j => At(s, i) + (Duration(s) + 1) <= At(s, j)
    <3>1. i < j => At(Longer(s), i) + Duration(Longer(s)) <= At(Longer(s), j)
      BY <1>0, Apart
    <3> QED BY <3>1, LongerAt
  <2>2. /\ At(s, i) \in Nat /\ At(s, j) \in Nat /\ Duration(s) \in Nat
        /\ j <= i => At(s, j) <= At(s, i)
    BY Apart, Fields
  <2> QED
    BY <1>1, <2>1, <2>2
<1> QED
  BY <1>1, Window, Zenon

\* An answer given from a closest start that is not over when the call begins is right
\* at some time of the call.
LEMMA SomeTime ==
  ASSUME NEW s, Valid(s), HasGaps(s),
         NEW a \in Nat, NEW n \in Nat, a <= n,
         NEW start, IsClosest(start, n, s), start # NoTime => a < start + Duration(s)
  PROVE  \E time \in a..n :
           InWindow(time, s) <=> start # NoTime /\ start <= a /\ a < start + Duration(s)
<1>1. a \in a..n /\ n \in a..n
  OBVIOUS
<1>2. CASE start # NoTime /\ start <= a
  <2>1. InWindow(a, s)
    BY <1>2, Window DEF IsClosest
  <2> QED
    BY <1>1, <1>2, <2>1, Zenon
<1>3. CASE start = NoTime \/ n < start
  <2>1. ~InWindow(n, s)
    BY <1>3, Quiet
  <2>2. ~(start # NoTime /\ start <= a)
    <3>1. ASSUME start # NoTime PROVE start \in Nat
      BY <3>1, Apart DEF IsClosest
    <3> QED
      BY <1>3, <3>1
  <2> QED
    BY <1>1, <2>1, <2>2, Zenon
<1>4. CASE start # NoTime /\ a < start /\ start <= n
  <2>1. PICK j \in Nat : start = At(s, j)
    BY <1>4 DEF IsClosest
  <2>2. start \in Nat
    BY <2>1, Apart
  <2> PICK time \in a..n : time + 1 = start
    <3>1. start - 1 \in a..n /\ start - 1 + 1 = start
      BY <1>4, <2>2
    <3> QED
      BY <3>1
  <2>3. ~InWindow(time, s)
    BY <2>1, Gap
  <2>4. ~(start <= a)
    BY <1>4, <2>2
  <2> QED
    BY <2>3, <2>4
<1>5. start = NoTime \/ start \in Nat
  BY Apart DEF IsClosest
<1> QED
  BY <1>2, <1>3, <1>4, <1>5

-----------------------------------------------------------------------------
(* The calls of the filter.                                                *)

\* What is cached or about to be is the closest start, and it was not over when the
\* call that calculated it began; settings that do not recur calculate none.
IInv ==
  /\ TypeOK
  /\ TryValidateSettings(settings)
  /\ settings.pattern = "None" =>
       cache = {} /\ \A t \in Callers : pc[t] \notin {"reload", "set"}
  /\ \A t \in Callers : asked[t] <= now
  /\ \A start \in cache : IsClosest(start, now, settings)
  /\ \A t \in Callers : pc[t] = "set" =>
       /\ IsClosest(closest[t], now, settings)
       /\ closest[t] # NoTime => asked[t] < closest[t] + Duration(settings)

\* Settings that recur are those the lemmas above are about.
LEMMA Recurring ==
  ASSUME IInv, settings.pattern # "None"
  PROVE  Valid(settings)
  BY SettingsAssumption DEF IInv, TypeOK, Valid

\* Nothing is cached when the application starts.
LEMMA InitInv == Init => IInv
<1> SUFFICES ASSUME Init PROVE IInv
  OBVIOUS
<1>1. TypeOK
  <2>1. {} \subseteq Times /\ Cardinality({}) <= 1
    BY FS_EmptySet
  <2> QED
    BY <2>1, HorizonAssumption DEF Init, TypeOK, Times
<1> QED
  BY <1>1 DEF Init, IInv

\* Every step keeps the invariant.
LEMMA Inductive == IInv /\ [Next]_vars => IInv'
<1> SUFFICES ASSUME IInv, [Next]_vars PROVE IInv'
  OBVIOUS
<1>h. 0..Horizon \subseteq Nat
  BY HorizonAssumption
<1>0. settings' = settings
  BY DEF Next, Step, vars, Tick, Evict, Call, First, NoRecurrence, Match, Hit, Miss, Reload, Set
<1>d. settings.pattern # "None" => Valid(settings)
  BY Recurring
<1>1. CASE UNCHANGED vars
  BY <1>1 DEF IInv, TypeOK, vars
<1>2. ASSUME NEW n \in Steps, Tick(n) PROVE IInv'
  <2>1. /\ now' = now + n /\ now' \in 0..Horizon /\ now \in Nat /\ now' \in Nat /\ now <= now'
        /\ UNCHANGED <<settings, cache, pc, bound, asked, closest, answer>>
    BY <1>2, <1>h, StepsAssumption, HorizonAssumption DEF Tick, call, IInv, TypeOK
  <2>2. TypeOK'
    BY <2>1 DEF IInv, TypeOK
  <2>3. \A start : settings.pattern # "None" /\ IsClosest(start, now, settings)
                     => IsClosest(start, now', settings')
    BY <1>d, <2>1, Later
  <2>4. \A t \in Callers : asked'[t] <= now'
    BY <1>h, <2>1 DEF IInv, TypeOK
  <2> QED
    BY <2>1, <2>2, <2>3, <2>4 DEF IInv
<1>3. CASE Evict
  <2>1. {} \subseteq Times /\ Cardinality({}) <= 1
    BY FS_EmptySet
  <2> QED
    BY <1>3, <2>1 DEF Evict, call, IInv, TypeOK
<1>4. ASSUME NEW t \in Callers, NEW b \in BOOLEAN, Call(t, b) PROVE IInv'
  <2>1. TypeOK'
    BY <1>4 DEF Call, Goto, IInv, TypeOK
  <2>2. \A u \in Callers : asked'[u] <= now'
    BY <1>4, <1>h DEF Call, IInv, TypeOK
  <2>3. \A u \in Callers : pc'[u] \in {"reload", "set"} => pc[u] = pc'[u] /\ asked'[u] = asked[u]
    BY <1>4 DEF Call, Goto, IInv, TypeOK
  <2> QED
    BY <1>4, <2>1, <2>2, <2>3 DEF Call, IInv
<1>5. ASSUME NEW t \in Callers, NEW b \in BOOLEAN, Answer(t, b),
             UNCHANGED <<settings, now, cache, call, closest>>
      PROVE  IInv'
  <2>1. TypeOK'
    BY <1>5 DEF Answer, Goto, call, IInv, TypeOK
  <2>2. \A u \in Callers : pc'[u] \in {"reload", "set"} => pc[u] = pc'[u]
    BY <1>5 DEF Answer, Goto, IInv, TypeOK
  <2> QED
    BY <1>5, <2>1, <2>2 DEF call, IInv
<1>6. ASSUME NEW t \in Callers, Miss(t) PROVE IInv'
  <2>1. TypeOK'
    BY <1>6 DEF Miss, Lookup, Goto, call, IInv, TypeOK
  <2>2. /\ settings.pattern # "None"
        /\ \A u \in Callers : pc'[u] = "set" => pc[u] = "set"
    BY <1>6 DEF Miss, Lookup, Goto, IInv, TypeOK
  <2> QED
    BY <1>6, <2>1, <2>2 DEF Miss, call, IInv
<1>7. ASSUME NEW t \in Callers, Reload(t) PROVE IInv'
  <2> PICK start : start = CalculateClosestStart(now, settings)
    OBVIOUS
  <2>1. settings.pattern # "None" /\ now \in Nat /\ asked[t] \in Nat /\ asked[t] <= now
    BY <1>7, <1>h DEF Reload, IInv, TypeOK
  <2>2. /\ IsClosest(start, now, settings)
        /\ start # NoTime => now < start + Duration(settings)
    BY <1>d, <2>1, Closest
  <2>3. start \in Times
    BY <1>d, <2>1, <2>2, Apart DEF IsClosest, Times
  <2>4. start # NoTime => asked[t] < start + Duration(settings)
    <3>1. start # NoTime => start \in Nat
      BY <2>3 DEF Times
    <3>2. Duration(settings) \in Nat
      BY <1>d, <2>1, Fields
    <3> QED
      BY <2>1, <2>2, <3>1, <3>2
  <2>5. /\ closest' = [closest EXCEPT ![t] = start] /\ pc' = [pc EXCEPT ![t] = "set"]
        /\ UNCHANGED <<settings, now, cache, bound, asked, answer>>
    BY <1>7 DEF Reload, Goto, call
  <2>6. TypeOK'
    BY <2>3, <2>5 DEF IInv, TypeOK
  <2>7. \A u \in Callers : IF u = t THEN closest'[u] = start
                           ELSE closest'[u] = closest[u] /\ pc'[u] = pc[u]
    BY <2>5 DEF IInv, TypeOK
  <2> QED
    BY <2>1, <2>2, <2>4, <2>5, <2>6, <2>7 DEF IInv
<1>8. ASSUME NEW t \in Callers, Set(t) PROVE IInv'
  <2>1. /\ cache' = {closest[t]} /\ closest' = [closest EXCEPT ![t] = NoTime]
        /\ pc' = [pc EXCEPT ![t] = "idle"] /\ pc[t] = "set"
        /\ UNCHANGED <<settings, now, bound, asked>>
    BY <1>8 DEF Set, Answer, Goto, call
  <2>2. answer' \in [Callers -> BOOLEAN]
    <3>1. Within(asked[t], closest[t]) \in BOOLEAN
      BY DEF Within
    <3> QED
      BY <1>8, <3>1, Zenon DEF Set, Answer, IInv, TypeOK
  <2>3. {closest[t]} \subseteq Times /\ Cardinality({closest[t]}) <= 1
    <3>1. closest[t] \in Times
      BY DEF IInv, TypeOK
    <3>2. Cardinality({closest[t]}) = 1
      BY FS_Singleton, Zenon
    <3> QED
      BY <3>1, <3>2
  <2>4. TypeOK'
    BY <2>1, <2>2, <2>3 DEF IInv, TypeOK, Times
  <2>5. \A u \in Callers : pc'[u] # "idle" => pc'[u] = pc[u] /\ closest'[u] = closest[u]
    BY <2>1 DEF IInv, TypeOK
  <2>6. settings.pattern # "None"
    BY <2>1 DEF IInv
  <2> QED
    BY <2>1, <2>4, <2>5, <2>6 DEF IInv
<1>9. ASSUME NEW t \in Callers, First(t) \/ NoRecurrence(t) \/ Match(t) \/ Hit(t)
      PROVE  \E b \in BOOLEAN : Answer(t, b) /\ UNCHANGED <<settings, now, cache, call, closest>>
  <2>1. IsMatch(asked[t], settings) \in BOOLEAN
    BY DEF IsMatch
  <2>2. \A start : Within(asked[t], start) \in BOOLEAN
    BY DEF Within
  <2> QED
    BY <1>9, <2>1, <2>2, Zenon DEF First, NoRecurrence, Match, Hit
<1> QED
  BY <1>1, <1>2, <1>3, <1>4, <1>5, <1>6, <1>7, <1>8, <1>9 DEF Next, Step

\* The type invariant: what is calculated is a time or none, and one start is cached.
THEOREM Types == Spec => []TypeOK
<1>1. IInv => TypeOK
  BY DEF IInv
<1> QED
  BY <1>1, InitInv, Inductive, PTL DEF Spec

\* RecurrenceEvaluator.IsMatch is right at every time.
THEOREM MatchIsRight == Spec => []IsMatchIsRight
<1>1. IInv => IsMatchIsRight
  <2> SUFFICES ASSUME IInv, settings.pattern # "None"
               PROVE  IsMatch(now, settings) <=> InWindow(now, settings)
    BY DEF IsMatchIsRight
  <2>1. now \in Nat
    BY HorizonAssumption DEF IInv, TypeOK
  <2> QED
    BY <2>1, Recurring, MatchesWindow
<1> QED
  BY <1>1, InitInv, Inductive, PTL DEF Spec

\* RecurrenceEvaluator.CalculateClosestStart returns the window that is on, else the next.
THEOREM ClosestIsRight == Spec => []ClosestStartIsRight
<1>1. IInv => ClosestStartIsRight
  <2> SUFFICES ASSUME IInv, settings.pattern # "None" PROVE ClosestStartIsRight
    BY DEF ClosestStartIsRight
  <2> PICK s : s = settings
    OBVIOUS
  <2> PICK start : start = CalculateClosestStart(now, s)
    OBVIOUS
  <2> PICK later : later = (IF now < s.start THEN s.start ELSE now)
                              + Day * 2 * DaysPerWeek * s.interval
    OBVIOUS
  <2> PICK Upcoming : Upcoming = {t \in Occurrences(s, later) : now < t + Duration(s)}
    OBVIOUS
  <2>1. Valid(s) /\ now \in Nat
    BY Recurring, HorizonAssumption DEF IInv, TypeOK
  <2>2. s.start \in Nat /\ Length(s) \in Nat \ {0} /\ s.interval \in Nat \ {0}
    BY <2>1, Fields
  <2>3. later \in Int /\ later >= s.start + Length(s) /\ later >= now + 7 * Length(s)
    <3>1. Day * 2 * DaysPerWeek * s.interval = 14 * Length(s)
      BY <2>2, DayAssumption DEF Length, DaysPerWeek
    <3> QED
      BY <2>1, <2>2, <3>1
  <2>4. /\ IsClosest(start, now, s)
        /\ start # NoTime => /\ now < start + Duration(s)
                             /\ start <= s.start \/ start <= now + 7 * Length(s)
    BY <2>1, Closest
  <2>5. \A t : t \in Upcoming <=> \E j \in Nat : /\ t = At(s, j) /\ t <= later
                                               /\ Admitted(s, j) /\ now < t + Duration(s)
    BY <2>1, <2>3, OccurrencesUpTo
  <2>6. \A t \in Upcoming : start # NoTime /\ start <= t
    BY <2>4, <2>5 DEF IsClosest
  <2>7. start # NoTime => start \in Upcoming
    <3> SUFFICES ASSUME start # NoTime PROVE start \in Upcoming
      OBVIOUS
    <3>1. PICK j \in Nat : start = At(s, j) /\ Admitted(s, j)
      BY <2>4 DEF IsClosest
    <3>2. start \in Nat
      BY <2>1, <3>1, Apart
    <3>3. start <= later
      BY <2>1, <2>2, <2>3, <2>4, <3>2
    <3> QED
      BY <2>4, <2>5, <3>1, <3>3
  <2>8. IF Upcoming = {} THEN start = NoTime
        ELSE start \in Upcoming /\ \A t \in Upcoming : start <= t
    BY <2>6, <2>7
  <2> QED
    BY <2>8 DEF ClosestStartIsRight
<1> QED
  BY <1>1, InitInv, Inductive, PTL DEF Spec

\* The windows that recur do not overlap.
THEOREM NoOverlap == Spec => []WindowsDoNotOverlap
<1>1. IInv => WindowsDoNotOverlap
  <2> SUFFICES ASSUME IInv, settings.pattern # "None" PROVE WindowsDoNotOverlap
    BY DEF WindowsDoNotOverlap
  <2> PICK s : s = settings
    OBVIOUS
  <2>1. Valid(s) /\ Horizon \in Int
    BY Recurring, HorizonAssumption
  <2>2. \A t \in Occurrences(s, Horizon) : \E j \in Nat : t = At(s, j)
    BY <2>1, OccurrencesUpTo
  <2>3. \A i, j \in Nat : At(s, i) < At(s, j) => At(s, i) + Duration(s) <= At(s, j)
    <3> TAKE i, j \in Nat
    <3>1. /\ At(s, i) \in Nat /\ At(s, j) \in Nat
          /\ i < j => At(s, i) + Duration(s) <= At(s, j)
          /\ j <= i => At(s, j) <= At(s, i)
      BY <2>1, Apart
    <3> QED
      BY <3>1
  <2> QED
    BY <2>2, <2>3, Zenon DEF WindowsDoNotOverlap
<1> QED
  BY <1>1, InitInv, Inductive, PTL DEF Spec

\* The cached closest start hides no window, however many callers recalculate it, and
\* however old it is.
THEOREM NothingSkipped == Spec => []CacheSkipsNothing
<1>1. IInv => CacheSkipsNothing
  <2> SUFFICES ASSUME IInv, NEW start \in cache
               PROVE  /\ start = NoTime => ~Active(now)
                      /\ start # NoTime => /\ start \in Occurrences(settings, start)
                                           /\ now < start => ~Active(now)
    BY DEF CacheSkipsNothing
  <2> PICK s : s = settings
    OBVIOUS
  <2>1. settings.pattern # "None" /\ now \in Nat /\ IsClosest(start, now, s)
    BY HorizonAssumption DEF IInv, TypeOK
  <2>2. Valid(s)
    BY <2>1, Recurring
  <2>3. start = NoTime \/ now < start => ~Active(now)
    BY <2>1, <2>2, Quiet DEF Active
  <2>4. start # NoTime => start \in Occurrences(s, start)
    <3> SUFFICES ASSUME start # NoTime PROVE start \in Occurrences(s, start)
      OBVIOUS
    <3>1. PICK j \in Nat : start = At(s, j) /\ Admitted(s, j)
      BY <2>1 DEF IsClosest
    <3>2. start \in Int /\ start <= start
      BY <2>2, <3>1, Apart
    <3> QED
      BY <2>2, <3>1, <3>2, OccurrencesUpTo
  <2> QED
    BY <2>3, <2>4
<1> QED
  BY <1>1, InitInv, Inductive, PTL DEF Spec

\* A call answers for a time at which it ran, when there is a gap between the windows:
\* without one the start of the next window may be found while the last one is on.
THEOREM CallsAreRight ==
  ASSUME \A s \in Settings : HasGaps(s)
  PROVE  Spec => AnswersAreRight
<1>1. IInv /\ [Next]_vars =>
        [\A t \in Callers : pc[t] # "idle" /\ pc'[t] = "idle" =>
            \E time \in asked[t]..now : answer'[t] = Active(time)]_vars
  <2> SUFFICES ASSUME IInv, Next, NEW t \in Callers, pc[t] # "idle", pc'[t] = "idle"
               PROVE  \E time \in asked[t]..now : answer'[t] = Active(time)
    OBVIOUS
  <2> PICK s : s = settings
    OBVIOUS
  <2> PICK a : a = asked[t]
    OBVIOUS
  <2>1. a \in Nat /\ now \in Nat /\ a <= now /\ a \in a..now
    BY HorizonAssumption DEF IInv, TypeOK
  <2>2. s.pattern # "None" => Valid(s) /\ HasGaps(s)
    <3>1. s.pattern # "None" => Valid(s)
      BY Recurring
    <3> QED
      BY <3>1 DEF IInv, TypeOK
  <2>3. \A time \in Nat : s.pattern # "None" => (Active(time) <=> InWindow(time, s))
    BY <2>2, FirstRecurs, Zenon DEF Active
  <2>4. \A b : Answer(t, b) => answer'[t] = b
    BY DEF Answer, IInv, TypeOK
  <2>5. First(t) \/ NoRecurrence(t) \/ Match(t) \/ Hit(t) \/ Set(t)
    BY DEF Next, Step, Tick, Evict, Call, First, NoRecurrence, Match, Hit, Miss, Reload, Set,
           Answer, Goto, IInv, TypeOK
  <2>6. CASE First(t)
    <3>1. answer'[t] = TRUE /\ InFirst(a, s)
      BY <2>4, <2>6, Zenon DEF First
    <3> QED
      BY <2>1, <3>1 DEF Active
  <2>7. CASE NoRecurrence(t)
    <3>1. answer'[t] = FALSE /\ ~InFirst(a, s) /\ s.pattern = "None"
      BY <2>4, <2>7, Zenon DEF NoRecurrence
    <3> QED
      BY <2>1, <3>1 DEF Active
  <2>8. CASE Match(t)
    <3>1. s.pattern # "None" /\ answer'[t] = IsMatch(a, s)
      BY <2>4, <2>8, Zenon DEF Match
    <3>2. IsMatch(a, s) <=> InWindow(a, s)
      BY <2>1, <2>2, <3>1, MatchesWindow
    <3>3. IsMatch(a, s) \in BOOLEAN /\ Active(a) \in BOOLEAN
      BY DEF IsMatch, Active
    <3>4. answer'[t] = Active(a)
      BY <2>1, <2>3, <3>1, <3>2, <3>3, Zenon
    <3> QED
      BY <2>1, <3>4
  <2>9. ASSUME NEW start, s.pattern # "None", IsClosest(start, now, s),
               start # NoTime => a < start + Duration(s), answer'[t] = Within(a, start)
        PROVE  \E time \in a..now : answer'[t] = Active(time)
    <3>1. PICK time \in a..now :
            InWindow(time, s) <=> start # NoTime /\ start <= a /\ a < start + Duration(s)
      BY <2>1, <2>2, <2>9, SomeTime
    <3>2. time \in Nat
      BY <2>1
    <3>3. Active(time) <=> Within(a, start)
      BY <2>3, <2>9, <3>1, <3>2, Zenon DEF Within
    <3>4. Within(a, start) \in BOOLEAN /\ Active(time) \in BOOLEAN
      BY DEF Within, Active
    <3> QED
      BY <2>9, <3>3, <3>4, Zenon
  <2>10. CASE Hit(t)
    <3>1. s.pattern # "None" /\ \E start \in cache : ~Passed(a, start) /\ Answer(t, Within(a, start))
      BY <2>10 DEF Hit, Lookup
    <3> PICK start \in cache : ~Passed(a, start) /\ Answer(t, Within(a, start))
      BY <3>1
    <3>2. IsClosest(start, now, s) /\ (start = NoTime \/ start \in Nat)
      BY DEF IInv, TypeOK, Times
    <3>3. start # NoTime => a < start + Duration(s)
      BY <2>1, <2>2, <3>1, <3>2, Fields DEF Passed
    <3> QED
      BY <2>4, <2>9, <3>1, <3>2, <3>3
  <2>11. CASE Set(t)
    <3> PICK start : start = closest[t]
      OBVIOUS
    <3>1. pc[t] = "set" /\ Answer(t, Within(a, start))
      BY <2>11 DEF Set
    <3>2. /\ s.pattern # "None" /\ IsClosest(start, now, s)
          /\ start # NoTime => a < start + Duration(s)
      BY <3>1 DEF IInv
    <3> QED
      BY <2>4, <2>9, <3>1, <3>2
  <2> QED
    BY <2>5, <2>6, <2>7, <2>8, <2>10, <2>11
<1> QED
  BY <1>1, InitInv, Inductive, PTL DEF Spec, AnswersAreRight

=============================================================================
