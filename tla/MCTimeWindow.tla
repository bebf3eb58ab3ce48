----------------------------- MODULE MCTimeWindow -----------------------------
(***************************************************************************)
(* Settings to check the time window filter with. A day is 2 units.        *)
(***************************************************************************)
EXTENDS TimeWindow

Window(start, end) ==
  [start |-> start, end |-> end, pattern |-> "None", interval |-> 1, days |-> << >>,
   first |-> 0, range |-> "NoEnd", endDate |-> 0, number |-> 1]

\* A range: without end, until a date or a number of occurrences.
Ranges == {<<"NoEnd", 0, 1>>}
            \cup {<<"EndDate", date, 1>> : date \in {8, 19, 34}}
            \cup {<<"Numbered", 0, n>> : n \in {1, 4, 5}}

Ranged(s, r) == [s EXCEPT !.range = r[1], !.endDate = r[2], !.number = r[3]]

Daily ==
  {Ranged([Window(start, start + duration) EXCEPT !.pattern = "Daily", !.interval = interval], r) :
     start \in {0, 3}, duration \in {1, 2, 3, 7}, interval \in 1..3, r \in Ranges}

\* Days of the week in any order, the same day twice among them.
DayLists == {<<0>>, <<3>>, <<3, 0>>, <<1, 6, 3>>, <<0, 3, 6>>, <<3, 3, 1>>, <<2, 1, 0, 3>>}

Weekly ==
  {Ranged([Window(start, start + duration) EXCEPT
             !.pattern = "Weekly", !.interval = interval, !.days = days, !.first = first], r) :
     start \in {0, 3, 6}, duration \in {1, 2, 5, 9}, interval \in 1..2,
     days \in DayLists, first \in {0, 1, 4}, r \in Ranges}

\* Every combination, of which Init takes the valid ones.
Recurring == Daily \cup Weekly

\* Windows with nothing, a start or an end, and recurring ones that do not touch.
Apart ==
  {Window(NoTime, NoTime), Window(3, NoTime), Window(NoTime, 5), Window(2, 4),
   [Window(1, 2) EXCEPT !.pattern = "Daily"],
   Ranged([Window(1, 2) EXCEPT !.pattern = "Daily"], <<"Numbered", 0, 2>>),
   Ranged([Window(2, 3) EXCEPT !.pattern = "Weekly", !.days = <<3, 1>>], <<"EndDate", 7, 1>>)}

\* Calls are made under the second kind of settings, for some days; under all others
\* time passes until Horizon.
Calls == settings \in Apart /\ Next /\ now' <= 7
TimePasses == settings \notin Apart /\ Tick(1)

CallsOrTime == Init /\ [][Calls \/ TimePasses]_vars

AllSettings == Recurring \cup Apart

=============================================================================
