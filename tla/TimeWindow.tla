------------------------------ MODULE TimeWindow ------------------------------
(***************************************************************************)
(* TimeWindowFilter: calls of the filter of one feature, by several threads *)
(* while time goes on, and the cached start of the closest window.         *)
(***************************************************************************)
EXTENDS Recurrence

CONSTANTS
  Callers,
  Settings,   \* filter settings to choose from
  Horizon,    \* bound: the last time
  Steps       \* how far the clock may move between two steps of a call

\* Times are counted from a midnight before the first of them.
IsSettings(s) ==
  s \in [start : Nat \cup {NoTime}, end : Nat \cup {NoTime},
         pattern : {"None", "Daily", "Weekly"}, interval : Int,
         days : Seq(0..DaysPerWeek - 1), first : 0..DaysPerWeek - 1,
         range : {"NoEnd", "EndDate", "Numbered"}, endDate : Int, number : Int]

ASSUME SettingsAssumption == \A s \in Settings : IsSettings(s)
ASSUME HorizonAssumption == Horizon \in Nat
ASSUME StepsAssumption == Steps \subseteq Nat \ {0}

VARIABLES
  settings,
  now,        \* the system clock
  cache,      \* {} or the one cached closest start, which may be NoTime
  pc,
  bound,      \* the call has settings that can be a cache key
  asked,      \* the time a call read first
  closest,    \* the closest start a call found or calculated
  answer      \* auxiliary: what each call returned last

vars == <<settings, now, cache, pc, bound, asked, closest, answer>>
call == <<bound, asked>>

Goto(t, label) == pc' = [pc EXCEPT ![t] = label]

\* BindParameters lets only valid settings through.
Init ==
  /\ settings \in Settings
  /\ TryValidateSettings(settings)
  /\ now = 0
  /\ cache = {}
  /\ pc = [t \in Callers |-> "idle"]
  /\ bound = [t \in Callers |-> FALSE]
  /\ asked = [t \in Callers |-> 0]
  /\ closest = [t \in Callers |-> NoTime]
  /\ answer = [t \in Callers |-> FALSE]

-----------------------------------------------------------------------------

Tick(n) ==
  /\ now + n <= Horizon
  /\ now' = now + n
  /\ UNCHANGED <<settings, cache, pc, call, closest, answer>>

\* The memory cache drops an entry when it expires or under pressure.
Evict ==
  /\ cache # {}
  /\ cache' = {}
  /\ UNCHANGED <<settings, now, pc, call, closest, answer>>

Call(t, b) ==
  /\ pc[t] = "idle"
  /\ asked' = [asked EXCEPT ![t] = now]
  /\ bound' = [bound EXCEPT ![t] = b]
  /\ Goto(t, "first")
  /\ UNCHANGED <<settings, now, cache, closest, answer>>

Answer(t, b) ==
  /\ answer' = [answer EXCEPT ![t] = b]
  /\ Goto(t, "idle")

\* The window that Start and End define, either of which may be missing.
InFirst(time, s) ==
  /\ s.start # NoTime \/ s.end # NoTime
  /\ s.start # NoTime => time >= s.start
  /\ s.end # NoTime => time < s.end

First(t) ==
  /\ pc[t] = "first"
  /\ InFirst(asked[t], settings)
  /\ Answer(t, TRUE)
  /\ UNCHANGED <<settings, now, cache, call, closest>>

NoRecurrence(t) ==
  /\ pc[t] = "first"
  /\ ~InFirst(asked[t], settings)
  /\ settings.pattern = "None"
  /\ Answer(t, FALSE)
  /\ UNCHANGED <<settings, now, cache, call, closest>>

\* Without a cache, or without settings of its own to key it, the call calculates.
Match(t) ==
  /\ pc[t] = "first"
  /\ ~InFirst(asked[t], settings)
  /\ settings.pattern # "None"
  /\ ~bound[t]
  /\ Answer(t, IsMatch(asked[t], settings))
  /\ UNCHANGED <<settings, now, cache, call, closest>>

Within(time, start) == start # NoTime /\ start <= time /\ time < start + Duration(settings)

\* A faulty variant: a window that has passed is not recalculated.
PassedNever(time, start) == FALSE

Passed(time, start) == start # NoTime /\ time >= start + Duration(settings)

Lookup(t) ==
  /\ pc[t] = "first"
  /\ ~InFirst(asked[t], settings)
  /\ settings.pattern # "None"
  /\ bound[t]

Hit(t) ==
  /\ Lookup(t)
  /\ \E start \in cache :
       /\ ~Passed(asked[t], start)
       /\ Answer(t, Within(asked[t], start))
  /\ UNCHANGED <<settings, now, cache, call, closest>>

Miss(t) ==
  /\ Lookup(t)
  /\ \A start \in cache : Passed(asked[t], start)
  /\ Goto(t, "reload")
  /\ UNCHANGED <<settings, now, cache, call, closest, answer>>

\* A faulty variant: the next window is cached although the previous one is on.
ReloadNext(t) ==
  /\ pc[t] = "reload"
  /\ closest' = [closest EXCEPT ![t] =
       IF now < settings.start THEN settings.start
       ELSE NextOccurrence(FindPreviousOccurrence(now, settings), settings)]
  /\ Goto(t, "set")
  /\ UNCHANGED <<settings, now, cache, call, answer>>

\* ReloadClosestStart reads the clock again.
Reload(t) ==
  /\ pc[t] = "reload"
  /\ closest' = [closest EXCEPT ![t] = CalculateClosestStart(now, settings)]
  /\ Goto(t, "set")
  /\ UNCHANGED <<settings, now, cache, call, answer>>

\* A faulty variant: a thread adds an entry of its own beside the cached one.
SetBeside(t) ==
  /\ pc[t] = "set"
  /\ cache' = cache \cup {closest[t]}
  /\ closest' = [closest EXCEPT ![t] = NoTime]
  /\ Answer(t, Within(asked[t], closest[t]))
  /\ UNCHANGED <<settings, now, call>>

Set(t) ==
  /\ pc[t] = "set"
  /\ cache' = {closest[t]}
  /\ closest' = [closest EXCEPT ![t] = NoTime]
  /\ Answer(t, Within(asked[t], closest[t]))
  /\ UNCHANGED <<settings, now, call>>

-----------------------------------------------------------------------------

Step(t) ==
  \/ First(t)
  \/ NoRecurrence(t)
  \/ Match(t)
  \/ Hit(t)
  \/ Miss(t)
  \/ Reload(t)
  \/ Set(t)

Next ==
  \/ \E n \in Steps : Tick(n)
  \/ Evict
  \/ \E t \in Callers : Step(t) \/ \E b \in BOOLEAN : Call(t, b)

Spec == Init /\ [][Next]_vars

-----------------------------------------------------------------------------

Times == Nat \cup {NoTime}

\* The variables have the types their declarations say, and the memory cache keeps one
\* entry for the settings object, however many threads set it.
TypeOK ==
  /\ settings \in Settings
  /\ now \in 0..Horizon
  /\ cache \subseteq Times /\ Cardinality(cache) <= 1
  /\ pc \in [Callers -> {"idle", "first", "reload", "set"}]
  /\ bound \in [Callers -> BOOLEAN]
  /\ asked \in [Callers -> 0..Horizon]
  /\ closest \in [Callers -> Times]
  /\ answer \in [Callers -> BOOLEAN]

Active(time) ==
  \/ InFirst(time, settings)
  \/ settings.pattern # "None" /\ InWindow(time, settings)

\* A call answers whether the feature is on at some time between the clock reading
\* it begins with and its end, whatever other calls have cached meanwhile.
AnswersAreRight ==
  [][\A t \in Callers :
       pc[t] # "idle" /\ pc'[t] = "idle" =>
         \E time \in asked[t]..now : answer'[t] = Active(time)]_vars

\* The cached window is one that recurs, and no window opened before it that was
\* still to come when it was calculated: none is skipped while the cache is used.
CacheSkipsNothing ==
  \A start \in cache :
    /\ start = NoTime => ~Active(now)
    /\ start # NoTime => /\ start \in Occurrences(settings, start)
                         /\ now < start => ~Active(now)

\* RecurrenceEvaluator.IsMatch finds exactly the times in the windows of the pattern
\* that the range admits.
IsMatchIsRight ==
  settings.pattern # "None" => (IsMatch(now, settings) <=> InWindow(now, settings))

\* RecurrenceEvaluator.CalculateClosestStart returns the window the time is in, else
\* the next one there is.
ClosestStartIsRight ==
  settings.pattern # "None" =>
    LET start == CalculateClosestStart(now, settings)
        later == (IF now < settings.start THEN settings.start ELSE now)
                   + Day * 2 * DaysPerWeek * settings.interval
        Upcoming == {t \in Occurrences(settings, later) : now < t + Duration(settings)}
    IN IF Upcoming = {} THEN start = NoTime
       ELSE start \in Upcoming /\ \A t \in Upcoming : start <= t

\* The windows of the settings the validator accepts do not overlap, in one week or
\* from one to the next (RecurrenceValidator.IsDurationCompliantWithDaysOfWeek).
WindowsDoNotOverlap ==
  settings.pattern # "None" =>
    \A t, u \in Occurrences(settings, Horizon) : t < u => t + Duration(settings) <= u

=============================================================================
