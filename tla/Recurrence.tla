------------------------------ MODULE Recurrence ------------------------------
(***************************************************************************)
(* RecurrenceEvaluator and RecurrenceValidator: which times lie in a       *)
(* recurring time window, which window is the closest, and which settings  *)
(* are accepted.                                                           *)
(*                                                                         *)
(* Time is counted in units of Day, in the offset of the start; time 0 is  *)
(* the beginning of a day of the week 0.                                   *)
(***************************************************************************)
EXTENDS Integers, Sequences, FiniteSets

CONSTANTS
  Day,        \* the length of a day
  NoTime      \* no date

ASSUME DayAssumption == Day \in Nat \ {0}
ASSUME NoTimeAssumption == NoTime \notin Int

DaysPerWeek == 7
MaxDays == 3650

DayOfWeek(t) == (t \div Day) % DaysPerWeek

Duration(s) == s.end - s.start

\* How many days day1 comes after day2 in a week.
WeeklyDayOffset(day1, day2) == (day1 - day2 + DaysPerWeek) % DaysPerWeek

Days(s) == {s.days[i] : i \in DOMAIN s.days}

Earlier(s, day) == {d \in Days(s) : WeeklyDayOffset(d, s.first) < WeeklyDayOffset(day, s.first)}

\* SortDaysOfWeek: the days once each, in the order of the week.
SortedDays(s) ==
  [i \in 1..Cardinality(Days(s)) |->
     CHOOSE d \in Days(s) : Cardinality(Earlier(s, d)) = i - 1]

\* List.IndexOf, counting from 0.
IndexOf(s, day) == Cardinality(Earlier(s, day))

-----------------------------------------------------------------------------
(* RecurrenceValidator.                                                    *)

\* A faulty variant: the gap from the last day of a week to the next week's first is
\* not looked at.
WithinOneWeek(s) ==
  LET sorted == SortedDays(s)
  IN \A i \in 2..Len(sorted) : Day * WeeklyDayOffset(sorted[i], sorted[i - 1]) >= Duration(s)

IsDurationCompliantWithDaysOfWeek(s) ==
  LET sorted == SortedDays(s)
      n == Len(sorted)
      Gap(d, e) == Day * WeeklyDayOffset(d, e)
      gaps == {Day * DaysPerWeek}
                \cup {Gap(sorted[i], sorted[i - 1]) : i \in 2..n}
                \cup (IF s.interval = 1 THEN {Gap(sorted[1], sorted[n])} ELSE {})
  IN Len(s.days) = 1 \/ \A gap \in gaps : gap >= Duration(s)

ValidWeekly(s) ==
  /\ s.days # << >>
  /\ Duration(s) <= Day * s.interval * DaysPerWeek
  /\ IsDurationCompliantWithDaysOfWeek(s)
  /\ DayOfWeek(s.start) \in Days(s)

TryValidatePattern(s) ==
  /\ s.interval > 0
  /\ s.pattern = "Daily" => Duration(s) <= Day * s.interval
  /\ s.pattern = "Weekly" => ValidWeekly(s)

TryValidateRange(s) ==
  /\ s.range = "EndDate" => s.endDate >= s.start
  /\ s.range = "Numbered" => s.number >= 1

TryValidateSettings(s) ==
  s.pattern # "None" =>
    /\ s.start # NoTime /\ s.end # NoTime
    /\ s.end > s.start /\ Duration(s) < Day * MaxDays
    /\ TryValidatePattern(s)
    /\ TryValidateRange(s)

-----------------------------------------------------------------------------
(* RecurrenceEvaluator. An occurrence is given with its number.            *)

FindDailyPreviousOccurrence(time, s) ==
  LET intervals == (time - s.start) \div (Day * s.interval)
  IN [at |-> s.start + intervals * Day * s.interval, number |-> intervals + 1]

\* A faulty variant: the days before the start are counted in the first week.
CountWholeWeek(time, s) ==
  LET length == Day * s.interval * DaysPerWeek
      startWeek == s.start - Day * WeeklyDayOffset(DayOfWeek(s.start), s.first)
      intervals == (time - startWeek) \div length
      week == startWeek + intervals * length
      sorted == SortedDays(s)
      n == Len(sorted)
      On(day) == week + Day * WeeklyDayOffset(day, s.first)
      passed == {i \in 1..n : On(sorted[i]) <= time}
  IN IF passed # {}
     THEN [at |-> On(sorted[Cardinality(passed)]),
           number |-> intervals * n + Cardinality(passed)]
     ELSE [at |-> On(sorted[n]) - length, number |-> intervals * n]

FindWeeklyPreviousOccurrence(time, s) ==
  LET length == Day * s.interval * DaysPerWeek
      startWeek == s.start - Day * WeeklyDayOffset(DayOfWeek(s.start), s.first)
      intervals == (time - startWeek) \div length
      week == startWeek + intervals * length
      sorted == SortedDays(s)
      n == Len(sorted)
      On(day) == week + Day * WeeklyDayOffset(day, s.first)
      before == intervals * n - IndexOf(s, DayOfWeek(s.start))
      begins == On(sorted[1]) >= s.start
      min == IF begins THEN On(sorted[1]) ELSE s.start
      later == {i \in IndexOf(s, DayOfWeek(min)) + 2..n : On(sorted[i]) <= time}
      last == IndexOf(s, DayOfWeek(min)) + 1 + Cardinality(later)
  IN IF time - week > Day * DaysPerWeek
     THEN [at |-> On(sorted[n]), number |-> before + n]
     ELSE IF time >= min
     THEN [at |-> IF later = {} THEN min ELSE On(sorted[last]),
           number |-> (IF begins THEN before ELSE 0) + 1 + Cardinality(later)]
     ELSE [at |-> On(sorted[n]) - length, number |-> before]

FindPreviousOccurrence(time, s) ==
  IF s.pattern = "Daily" THEN FindDailyPreviousOccurrence(time, s)
  ELSE FindWeeklyPreviousOccurrence(time, s)

\* The previous occurrence counts only if the range has not ended before it.
InRange(previous, s) ==
  /\ s.range = "EndDate" => previous.at <= s.endDate
  /\ s.range = "Numbered" => previous.number <= s.number

IsMatch(time, s) ==
  /\ time >= s.start
  /\ LET previous == FindPreviousOccurrence(time, s)
     IN InRange(previous, s) /\ time < previous.at + Duration(s)

\* A faulty variant: the interval is not applied when the week is over.
NextWeek(previous, s) ==
  LET sorted == SortedDays(s)
      day == DayOfWeek(previous)
      i == IndexOf(s, day) + 2
  IN IF i <= Len(sorted)
     THEN previous + Day * WeeklyDayOffset(sorted[i], day)
     ELSE previous + Day * (DaysPerWeek - WeeklyDayOffset(day, sorted[1]))

\* CalculateWeeklyNextOccurrence
NextWeekly(previous, s) ==
  LET sorted == SortedDays(s)
      day == DayOfWeek(previous)
      i == IndexOf(s, day) + 2
  IN IF i <= Len(sorted)
     THEN previous + Day * WeeklyDayOffset(sorted[i], day)
     ELSE previous + Day * (s.interval * DaysPerWeek - WeeklyDayOffset(day, sorted[1]))

NextOccurrence(previous, s) ==
  LET next == IF s.pattern = "Daily" THEN previous.at + Day * s.interval
              ELSE NextWeekly(previous.at, s)
  IN IF \/ s.range = "EndDate" /\ next > s.endDate
        \/ s.range = "Numbered" /\ previous.number >= s.number
     THEN NoTime ELSE next

CalculateClosestStart(time, s) ==
  LET previous == FindPreviousOccurrence(time, s)
  IN IF time < s.start THEN s.start
     ELSE IF ~InRange(previous, s) THEN NoTime
     ELSE IF time < previous.at + Duration(s) THEN previous.at
     ELSE NextOccurrence(previous, s)

-----------------------------------------------------------------------------
(* What recurrence means: the occurrences of a pattern within its range.   *)

Recurs(t, s) ==
  LET startWeek == s.start - Day * WeeklyDayOffset(DayOfWeek(s.start), s.first)
  IN IF s.pattern = "Daily" THEN ((t - s.start) \div Day) % s.interval = 0
     ELSE /\ DayOfWeek(t) \in Days(s)
          /\ ((t - startWeek) \div (Day * DaysPerWeek)) % s.interval = 0

\* The times, a number of days after the start, at which the pattern recurs.
Recurrences(s, horizon) ==
  {t \in {s.start + k * Day : k \in 0..((horizon - s.start) \div Day)} : Recurs(t, s)}

Occurrences(s, horizon) ==
  {t \in Recurrences(s, horizon) :
     /\ s.range = "EndDate" => t <= s.endDate
     /\ s.range = "Numbered" => Cardinality(Recurrences(s, t)) <= s.number}

\* A time is in a window that began at one of the occurrences.
InWindow(time, s) ==
  \E t \in Occurrences(s, time) : time < t + Duration(s)

=============================================================================
