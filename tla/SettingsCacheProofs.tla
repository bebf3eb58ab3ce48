------------------------- MODULE SettingsCacheProofs -------------------------
(***************************************************************************)
(* What SettingsCache promises about the settings a filter runs with, for  *)
(* any number of callers, reloads, evictions, flags and filters.           *)
(***************************************************************************)
EXTENDS SettingsCache, TLAPS

USE BoundsAssumption, AskedAssumption, SwitchesAssumption

\* The settings s are bound from the filter at j of the definition d, and when
\* sections are copies, from the configuration the definition was parsed from.
Right(s, d, j) ==
  /\ s.of = <<d.id, j>>
  /\ ~Live => s.load = d.load
  /\ s.load \in d.load..loads
  /\ s.value = Content(s.load, d.index, j)

\* An identity belongs to one definition of those something still refers to.
Distinct == \A d, e \in Held : d.id = e.id => d = e

\* What is cached for parameters that are still in use was bound from them.
CacheAgrees ==
  \A x \in Items : \A d \in Held :
    d.id = x.parameters[1] => Right(x.settings, d, x.parameters[2])

\* The settings a caller has bound, or runs its filter with, are right.
CallAgrees(t) ==
  /\ pc[t] \in {"bind", "set", "run"} => at[t] <= Len(Filters(def[t]))
  /\ pc[t] \in {"bind", "set"} => Filter(t).kind = "wrapper"
  /\ pc[t] = "set" => Right(settings[t], def[t], at[t])
  /\ pc[t] = "run" /\ Filter(t).kind \in {"wrapper", "plain"} =>
       Right(settings[t], def[t], at[t])
  /\ pc[t] = "run" /\ Filter(t).kind = "object" => settings[t].value = Filter(t).value

\* The inductive invariant.
IInv == TypeOK /\ Distinct /\ CacheAgrees /\ \A t \in Callers : CallAgrees(t)

\* Configurations are only added.
Grows == loads \in Nat /\ loads' \in Nat /\ loads <= loads'
           /\ \A n \in 1..loads : history'[n] = history[n]

\* What a definition was parsed from stays while configurations are added.
LEMMA ParsedStays ==
  ASSUME Grows, NEW d, NEW f, IsDefinitionOf(d, f)
  PROVE  /\ d \in Definition /\ d.load \in 1..loads'
         /\ d.index \in 1..Len(history'[d.load]) /\ history'[d.load][d.index].name = f
<1>1. /\ d \in Definition /\ d.load \in 1..loads
      /\ d.index \in 1..Len(history[d.load]) /\ history[d.load][d.index].name = f
  BY DEF IsDefinitionOf
<1>2. history'[d.load] = history[d.load]
  BY <1>1 DEF Grows
<1>3. d.load \in 1..loads'
  BY <1>1 DEF Grows
<1>4. QED
  BY <1>1, <1>2, <1>3

-----------------------------------------------------------------------------
(* Configurations and what is read from them.                              *)

\* What is under an index of a loaded configuration is a flag.
LEMMA LoadedFlag ==
  ASSUME TypeOK, NEW n \in 1..loads, NEW i \in 1..Len(history[n])
  PROVE  IsFlag(history[n][i])
<1>1. history[n] \in Layouts
  BY DEF TypeOK, loads
<1>2. IsLayout(history[n])
  BY <1>1, LayoutsAssumption
<1>3. QED
  BY <1>2 DEF IsLayout

\* The index of a flag is where it is, and nowhere else.
LEMMA IndexIs ==
  ASSUME TypeOK, NEW n \in 1..loads, NEW f \in Flags
  PROVE  /\ IndexOf(history[n], f) \in 1..Len(history[n])
         /\ history[n][IndexOf(history[n], f)].name = f
         /\ \A i \in 1..Len(history[n]) : history[n][i].name = f => i = IndexOf(history[n], f)
<1>1. history[n] \in Layouts
  BY DEF TypeOK, loads
<1>2. IsLayout(history[n])
  BY <1>1, LayoutsAssumption
<1>3. \E i \in 1..Len(history[n]) : history[n][i].name = f
  BY <1>2 DEF IsLayout
<1>4. /\ IndexOf(history[n], f) \in 1..Len(history[n])
      /\ history[n][IndexOf(history[n], f)].name = f
  BY <1>3 DEF IndexOf
<1>5. QED
  BY <1>2, <1>4 DEF IsLayout

\* What a binder reads is a value or nothing.
LEMMA ContentType ==
  ASSUME TypeOK, NEW n \in 1..loads, NEW i \in Nat \ {0}, NEW j \in Nat \ {0}
  PROVE  Content(n, i, j) \in Values \cup {Missing}
<1>1. CASE i <= Len(history[n]) /\ j <= Len(history[n][i].filters)
  <2>1. history[n] \in Layouts
    BY DEF TypeOK, loads
  <2>2. Len(history[n]) \in Nat
    BY <2>1, LayoutsAssumption DEF IsLayout
  <2>3. i \in 1..Len(history[n])
    BY <1>1, <2>2
  <2>4. IsFlag(history[n][i])
    BY <2>3, LoadedFlag
  <2>5. j \in 1..Len(history[n][i].filters)
    BY <1>1, <2>4 DEF IsFlag
  <2>6. QED
    BY <1>1, <2>4, <2>5 DEF IsFlag, Content
<1>2. CASE ~(i <= Len(history[n]) /\ j <= Len(history[n][i].filters))
  BY <1>2 DEF Content
<1>3. QED
  BY <1>1, <1>2

\* The facts about a definition: it was parsed from a configuration, its filters
\* are within the bound, and each takes its settings in one of the ways.
LEMMA DefinitionFacts ==
  ASSUME TypeOK, NEW d, NEW f, IsDefinitionOf(d, f)
  PROVE  /\ d \in Definition
         /\ d.load \in 1..loads /\ d.index \in Nat \ {0}
         /\ d.index \in 1..Len(history[d.load])
         /\ Len(Filters(d)) \in 0..MaxFilters
         /\ \A j \in 1..Len(Filters(d)) :
              /\ Filters(d)[j].kind \in Kinds /\ Filters(d)[j].value \in Values
              /\ Content(d.load, d.index, j) = Filters(d)[j].value
<1>1. /\ d \in Definition /\ d.load \in 1..loads
      /\ d.index \in 1..Len(history[d.load])
  BY DEF IsDefinitionOf
<1>2. IsFlag(history[d.load][d.index])
  BY <1>1, LoadedFlag
<1>3. loads \in Nat
  BY DEF TypeOK, loads
<1>4. history[d.load] \in Layouts
  BY <1>1 DEF TypeOK, loads
<1>5. Len(history[d.load]) \in Nat
  BY <1>4, LayoutsAssumption DEF IsLayout
<1>6. d.load \in 1..loads /\ d.index \in Nat \ {0}
  BY <1>1, <1>5
<1>7. d \in Definition
  BY <1>1, <1>3
<1>8. Len(Filters(d)) \in 0..MaxFilters
  BY <1>2 DEF IsFlag, Filters
<1>9. ASSUME NEW j \in 1..Len(Filters(d))
      PROVE  /\ Filters(d)[j].kind \in Kinds /\ Filters(d)[j].value \in Values
             /\ Content(d.load, d.index, j) = Filters(d)[j].value
  <2>1. /\ j \in 1..Len(history[d.load][d.index].filters)
        /\ j <= Len(history[d.load][d.index].filters) /\ d.index <= Len(history[d.load])
    BY <1>1, <1>5, <1>8, <1>9 DEF Filters
  <2>2. /\ Filters(d)[j].kind \in Kinds /\ Filters(d)[j].value \in Values
        /\ Content(d.load, d.index, j) = Filters(d)[j].value
    BY <1>2, <2>1, Zenon DEF IsFlag, Filters, Content
  <2>3. QED
    BY <2>2
<1>10. QED
  BY <1>1, <1>6, <1>7, <1>8, <1>9

\* A definition that is cached or in use is one.
LEMMA HeldFacts ==
  ASSUME TypeOK, NEW d \in Held
  PROVE  \E f \in Flags : IsDefinitionOf(d, f)
<1>1. CASE \E f \in Flags : d = definitions[f] /\ d # NoDefinition
  BY <1>1 DEF TypeOK
<1>2. CASE \E t \in Callers : d = def[t] /\ d # NoDefinition
  <2>1. PICK t \in Callers : d = def[t] /\ d # NoDefinition
    BY <1>2
  <2>2. pc[t] \notin {"idle", "define"}
    BY <2>1 DEF TypeOK
  <2>3. flag[t] \in Flags /\ IsDefinitionOf(def[t], flag[t])
    BY <2>2 DEF TypeOK, Labels
  <2>4. QED
    BY <2>1, <2>3
<1>3. QED
  BY <1>1, <1>2 DEF Held

\* A caller past the look-up holds a definition.
LEMMA CallerHolds ==
  ASSUME TypeOK, NEW t \in Callers, pc[t] \notin {"idle", "define"}
  PROVE  def[t] \in Held /\ IsDefinitionOf(def[t], flag[t]) /\ flag[t] \in Flags
<1>1. IsDefinitionOf(def[t], flag[t]) /\ flag[t] \in Flags
  BY DEF TypeOK, Labels
<1>2. def[t] \in Definition
  BY <1>1, DefinitionFacts
<1>3. def[t] # NoDefinition
  BY <1>2, NothingAssumption DEF Definition
<1>4. QED
  BY <1>1, <1>3 DEF Held

-----------------------------------------------------------------------------
(* What stays when configurations are only added.                          *)

\* A step that leaves the configurations alone adds none.
LEMMA SameGrows == ASSUME TypeOK, history' = history PROVE Grows
  BY DEF TypeOK, Grows, loads

\* Loading adds one.
LEMMA LoadGrows ==
  ASSUME TypeOK, NEW l \in Layouts, Load(l)
  PROVE  Grows /\ history' \in Seq(Layouts) /\ loads' = loads + 1
  BY DEF TypeOK, Load, Grows, loads

\* Settings that are right stay right.
LEMMA RightStays ==
  ASSUME Grows, NEW s, NEW d, NEW j, d.load \in Nat \ {0}, Right(s, d, j)
  PROVE  Right(s, d, j)'
<1>1. s.load \in 1..loads /\ s.load \in d.load..loads'
  BY DEF Right, Grows
<1>2. Content(s.load, d.index, j)' = Content(s.load, d.index, j)
  BY <1>1 DEF Content, Grows
<1>3. QED
  BY <1>1, <1>2 DEF Right

\* A definition stays one, with its filters.
LEMMA DefinitionStays ==
  ASSUME TypeOK, Grows, NEW d, NEW f, IsDefinitionOf(d, f)
  PROVE  IsDefinitionOf(d, f)' /\ Filters(d)' = Filters(d)
<1>1. /\ d \in Definition /\ d.load \in 1..loads
      /\ d.load \in 1..loads
      /\ d.index \in 1..Len(history[d.load])
      /\ history[d.load][d.index].name = f
  BY DEF IsDefinitionOf
<1>2. history'[d.load] = history[d.load] /\ d.load \in 1..loads'
  BY <1>1 DEF Grows
<1>3. d.load \in 1..loads'
  BY <1>1, <1>2
<1>4. IsDefinitionOf(d, f)'
  BY <1>1, <1>2, <1>3 DEF IsDefinitionOf
<1>5. QED
  BY <1>2, <1>4 DEF Filters

\* Nothing changes for a caller that a step leaves alone.
LEMMA CallStays ==
  ASSUME TypeOK, Grows, NEW t \in Callers, CallAgrees(t),
         pc'[t] = pc[t], def'[t] = def[t], at'[t] = at[t], settings'[t] = settings[t]
  PROVE  CallAgrees(t)'
<1>1. CASE pc[t] \notin {"bind", "set", "run"}
  BY <1>1 DEF CallAgrees
<1>2. CASE pc[t] \in {"bind", "set", "run"}
  <2>1. IsDefinitionOf(def[t], flag[t])
    BY <1>2, CallerHolds
  <2>2. history'[def[t].load] = history[def[t].load] /\ def[t].load \in 1..loads
    BY <2>1, DefinitionFacts DEF Grows
  <2>3. Filters(def[t])' = Filters(def[t]) /\ Filter(t)' = Filter(t)
    BY <2>2 DEF Filters, Filter
  <2>4. ASSUME Right(settings[t], def[t], at[t])
        PROVE  Right(settings[t], def[t], at[t])'
    <3>1. settings[t].load \in 1..loads /\ settings[t].load \in def[t].load..loads'
      BY <2>2, <2>4 DEF Right, Grows
    <3>2. Content(settings[t].load, def[t].index, at[t])'
            = Content(settings[t].load, def[t].index, at[t])
      BY <3>1 DEF Content, Grows
    <3>3. QED
      BY <2>4, <3>1, <3>2 DEF Right
  <2>5. QED
    BY <2>3, <2>4 DEF CallAgrees
<1>3. QED
  BY <1>1, <1>2

\* The invariant is kept by a step that takes up no new definition and caches
\* nothing new.
LEMMA NothingNew ==
  ASSUME IInv, Grows, Held' \subseteq Held, Items' \subseteq Items
  PROVE  Distinct' /\ CacheAgrees'
<1>1. Distinct'
  BY DEF IInv, Distinct
<1>2. ASSUME NEW x \in Items', NEW d \in Held', d.id = x.parameters[1]
      PROVE  Right(x.settings, d, x.parameters[2])'
  <2>1. x \in Items /\ d \in Held
    OBVIOUS
  <2>2. d.load \in Nat \ {0}
    BY <2>1, HeldFacts, DefinitionFacts DEF IInv
  <2>3. Right(x.settings, d, x.parameters[2])
    BY <1>2, <2>1 DEF IInv, CacheAgrees
  <2>4. QED
    BY <2>2, <2>3, RightStays
<1>3. QED
  BY <1>1, <1>2 DEF CacheAgrees

-----------------------------------------------------------------------------
(* A step of one caller.                                                   *)

\* What the type invariant says of one call.
CallTypes(t) ==
  /\ pc[t] # "idle" => flag[t] \in Flags
  /\ pc[t] \in {"idle", "define"} => def[t] = NoDefinition
  /\ pc[t] \notin {"idle", "define"} => IsDefinitionOf(def[t], flag[t])
  /\ pc[t] = "set" => settings[t] \in Settings

\* The other calls are where they were.
Alone(t) ==
  \A u \in Callers \ {t} :
    /\ pc'[u] = pc[u] /\ flag'[u] = flag[u] /\ def'[u] = def[u]
    /\ at'[u] = at[u] /\ settings'[u] = settings[u]

\* The types of the variables of the calls.
CallVariables ==
  /\ pc \in [Callers -> Labels]
  /\ flag \in [Callers -> Flags \cup {NoFlag}]
  /\ def \in [Callers -> Definition \cup {NoDefinition}]
  /\ at \in [Callers -> 1..MaxFilters + 1]
  /\ settings \in [Callers -> Settings \cup {NoSettings}]

\* The type invariant is what is said of the variables and of each call.
LEMMA TypesOfCalls ==
  ASSUME TypeOK PROVE CallVariables /\ \A t \in Callers : CallTypes(t)
  BY DEF TypeOK, CallVariables, CallTypes

\* A step of a caller that leaves what is shared alone, and the others.
LEMMA OneCaller ==
  ASSUME TypeOK, \A u \in Callers : CallAgrees(u), NEW t \in Callers,
         history' = history, CallVariables', Alone(t), CallTypes(t)', CallAgrees(t)'
  PROVE  /\ \A u \in Callers : CallTypes(u)'
         /\ \A u \in Callers : CallAgrees(u)'
<1>1. Grows
  BY SameGrows
<1>2. ASSUME NEW u \in Callers \ {t}
      PROVE  CallTypes(u)' /\ CallAgrees(u)'
  <2>1. /\ pc'[u] = pc[u] /\ flag'[u] = flag[u] /\ def'[u] = def[u]
        /\ at'[u] = at[u] /\ settings'[u] = settings[u]
    BY DEF Alone
  <2>2. CallAgrees(u)'
    BY <1>1, <2>1, CallStays
  <2>3. CallTypes(u)
    BY TypesOfCalls
  <2>4. CallTypes(u)'
    BY <2>1, <2>3 DEF CallTypes, IsDefinitionOf, loads
  <2>5. QED
    BY <2>2, <2>4
<1>3. QED
  BY <1>2

\* The invariant is kept by a step of one caller that changes no more than its
\* own call, if that stays right and its definition is none or one in use.
LEMMA CallStep ==
  ASSUME IInv, NEW t \in Callers, UNCHANGED <<provider, caching>>,
         CallVariables', Alone(t), CallTypes(t)', CallAgrees(t)',
         def'[t] \in Held \cup {NoDefinition}
  PROVE  IInv'
<1>1. TypeOK /\ (\A u \in Callers : CallAgrees(u)) /\ history' = history
  BY DEF IInv, provider
<1>2. Grows
  BY <1>1, SameGrows
<1>3. /\ \A u \in Callers : CallTypes(u)'
      /\ \A u \in Callers : CallAgrees(u)'
  BY <1>1, OneCaller
<1>4. TypeOK'
  BY <1>1, <1>3 DEF TypeOK, CallTypes, CallVariables, provider, caching, loads, IsDefinitionOf
<1>5. Held' \subseteq Held /\ Items' \subseteq Items
  BY DEF Held, Items, Alone, provider, caching
<1>6. QED
  BY <1>2, <1>3, <1>4, <1>5, NothingNew DEF IInv

-----------------------------------------------------------------------------
(* Steps that change no more than the call of one caller.                  *)

\* A call begins.
LEMMA CallKeeps ==
  ASSUME IInv, NEW t \in Callers, NEW f \in Asked, Call(t, f) PROVE IInv'
<1>1. TypeOK /\ CallVariables /\ CallTypes(t) /\ CallAgrees(t)
  BY TypesOfCalls DEF IInv
<1>2. CallVariables' /\ Alone(t) /\ pc'[t] = "define" /\ def'[t] = def[t] /\ flag'[t] = f
  BY <1>1 DEF Call, Goto, CallVariables, Alone, Labels
<1>3. CallTypes(t)' /\ def'[t] = NoDefinition
  BY <1>1, <1>2 DEF Call, CallTypes
<1>4. CallAgrees(t)'
  BY <1>2 DEF CallAgrees
<1>5. QED
  BY <1>2, <1>3, <1>4, CallStep DEF Call

\* The cached definition is taken.
LEMMA DefineHitKeeps ==
  ASSUME IInv, NEW t \in Callers, DefineHit(t) PROVE IInv'
<1>1. TypeOK /\ CallVariables /\ CallTypes(t) /\ flag[t] \in Flags
  BY TypesOfCalls DEF IInv, CallTypes, DefineHit
<1>2. definitions[flag[t]] \in Definition /\ IsDefinitionOf(definitions[flag[t]], flag[t])
  BY <1>1 DEF TypeOK, DefineHit
<1>3. /\ CallVariables' /\ Alone(t) /\ pc'[t] = "filter" /\ flag'[t] = flag[t]
      /\ def'[t] = definitions[flag[t]]
  BY <1>1, <1>2 DEF DefineHit, Goto, CallVariables, Alone, Labels
<1>4. CallTypes(t)'
  BY <1>1, <1>2, <1>3 DEF CallTypes, DefineHit, provider, IsDefinitionOf, loads
<1>5. CallAgrees(t)'
  BY <1>3 DEF CallAgrees
<1>6. def'[t] \in Held
  BY <1>1, <1>3 DEF DefineHit, Held
<1>7. QED
  BY <1>3, <1>4, <1>5, <1>6, CallStep DEF DefineHit

\* A call ends.
LEMMA LeaveKeeps ==
  ASSUME IInv, NEW t \in Callers, Leave(t) PROVE IInv'
<1>1. TypeOK /\ CallVariables
  BY TypesOfCalls DEF IInv
<1>2. CallVariables' /\ Alone(t) /\ pc'[t] = "idle" /\ def'[t] = NoDefinition
  BY <1>1 DEF Leave, Goto, CallVariables, Alone, Labels
<1>3. CallTypes(t)' /\ CallAgrees(t)'
  BY <1>2 DEF CallTypes, CallAgrees
<1>4. QED
  BY <1>2, <1>3, CallStep DEF Leave

\* The next filter is up.
LEMMA RunNextKeeps ==
  ASSUME IInv, NEW t \in Callers, RunNext(t) PROVE IInv'
<1>1. TypeOK /\ CallVariables /\ CallTypes(t) /\ CallAgrees(t)
  BY TypesOfCalls DEF IInv
<1>2. IsDefinitionOf(def[t], flag[t]) /\ def[t] \in Held
  BY <1>1, CallerHolds DEF RunNext
<1>3. at[t] <= Len(Filters(def[t])) /\ Len(Filters(def[t])) \in 0..MaxFilters
  BY <1>1, <1>2, DefinitionFacts DEF RunNext, CallAgrees
<1>4. at[t] + 1 \in 1..MaxFilters + 1
  BY <1>1, <1>3 DEF CallVariables
<1>5. /\ CallVariables' /\ Alone(t) /\ pc'[t] = "filter" /\ flag'[t] = flag[t]
      /\ def'[t] = def[t]
  BY <1>1, <1>4 DEF RunNext, Goto, CallVariables, Alone, Labels
<1>6. CallTypes(t)'
  BY <1>1, <1>2, <1>5 DEF CallTypes, RunNext, provider, IsDefinitionOf, loads
<1>7. CallAgrees(t)'
  BY <1>5 DEF CallAgrees
<1>8. QED
  BY <1>2, <1>5, <1>6, <1>7, CallStep DEF RunNext

\* What is known when it is a filter's turn.
LEMMA TurnFacts ==
  ASSUME IInv, NEW t \in Callers, NEW kinds, Turn(t, kinds)
  PROVE  /\ TypeOK /\ CallVariables /\ CallTypes(t)
         /\ IsDefinitionOf(def[t], flag[t]) /\ def[t] \in Held /\ flag[t] \in Flags
         /\ at[t] \in 1..Len(Filters(def[t])) /\ at[t] \in 1..MaxFilters
         /\ Parameters(t) \in Identity
         /\ Filter(t).kind \in kinds /\ Filter(t).value \in Values
<1>1. TypeOK /\ CallVariables /\ CallTypes(t) /\ pc[t] = "filter"
  BY TypesOfCalls DEF IInv, Turn
<1>2. IsDefinitionOf(def[t], flag[t]) /\ def[t] \in Held /\ flag[t] \in Flags
  BY <1>1, CallerHolds
<1>3. /\ Len(Filters(def[t])) \in 0..MaxFilters /\ def[t] \in Definition
      /\ \A j \in 1..Len(Filters(def[t])) : Filters(def[t])[j].value \in Values
  BY <1>1, <1>2, DefinitionFacts
<1>4. at[t] \in 1..Len(Filters(def[t])) /\ at[t] \in 1..MaxFilters
  BY <1>1, <1>3 DEF Turn, CallVariables
<1>5. Parameters(t) \in Identity
  BY <1>3, <1>4 DEF Parameters, Identity, Definition
<1>6. Filter(t).kind \in kinds /\ Filter(t).value \in Values
  BY <1>3, <1>4 DEF Turn, Filter
<1>7. QED
  BY <1>1, <1>2, <1>4, <1>5, <1>6

\* What is bound is right, and has its type.
LEMMA BoundRight ==
  ASSUME IInv, NEW t \in Callers, IsDefinitionOf(def[t], flag[t]),
         at[t] \in 1..MaxFilters, Parameters(t) \in Identity
  PROVE  Right(Bound(t), def[t], at[t]) /\ Bound(t) \in Settings
<1> DEFINE n == IF Live THEN loads ELSE def[t].load
<1>1. TypeOK
  BY DEF IInv
<1>2. def[t].load \in 1..loads /\ def[t].index \in Nat \ {0} /\ loads \in Nat
  BY <1>1, DefinitionFacts DEF TypeOK, loads
<1>3. n \in def[t].load..loads /\ n \in 1..loads /\ n \in Nat /\ (~Live => n = def[t].load)
  BY <1>2
<1>4. Content(n, def[t].index, at[t]) \in Values \cup {Missing}
  BY <1>1, <1>2, <1>3, ContentType
<1>5. Bound(t) = [value |-> Content(n, def[t].index, at[t]), load |-> n, of |-> Parameters(t)]
  BY DEF Bound
<1> HIDE DEF n
<1>6. QED
  BY <1>3, <1>4, <1>5 DEF Right, Settings, Parameters

\* A filter is given settings that are right for it.
LEMMA GiveKeeps ==
  ASSUME IInv, NEW t \in Callers, NEW kinds, Turn(t, kinds), NEW s \in Settings \cup {NoSettings},
         Give(t, s), UNCHANGED <<provider, caching, flag, def, at>>,
         Filter(t).kind \in {"wrapper", "plain"} => Right(s, def[t], at[t]),
         Filter(t).kind = "object" => s.value = Filter(t).value
  PROVE  IInv'
<1>1. /\ CallVariables /\ CallTypes(t) /\ def[t] \in Held /\ pc[t] = "filter"
      /\ IsDefinitionOf(def[t], flag[t]) /\ at[t] \in 1..Len(Filters(def[t]))
  BY TurnFacts DEF Turn
<1>2. /\ CallVariables' /\ Alone(t) /\ pc'[t] = "run" /\ settings'[t] = s
      /\ flag'[t] = flag[t] /\ def'[t] = def[t] /\ at'[t] = at[t]
  BY <1>1 DEF Give, Goto, CallVariables, Alone, Labels
<1>3. CallTypes(t)'
  BY <1>1, <1>2 DEF CallTypes, provider, IsDefinitionOf, loads
<1>4. /\ Filters(def[t])' = Filters(def[t]) /\ Filter(t)' = Filter(t)
      /\ Right(s, def[t], at[t]) => Right(settings[t], def[t], at[t])'
  BY <1>2 DEF Filters, Filter, provider, Right, Content, loads
<1>5. at[t] <= Len(Filters(def[t]))
  BY <1>1, DefinitionFacts DEF IInv
<1>6. CallAgrees(t)'
  BY <1>2, <1>4, <1>5 DEF CallAgrees
<1>7. QED
  BY <1>1, <1>2, <1>3, <1>6, CallStep

\* Each way to be given settings without storing them preserves it.
LEMMA GiveSteps ==
  ASSUME IInv, NEW t \in Callers,
         Supplied(t) \/ Unbound(t) \/ BindUncached(t) \/ CacheHit(t)
  PROVE  IInv'
<1>1. CASE Supplied(t)
  <2> DEFINE s == [value |-> Filter(t).value, load |-> def[t].load, of |-> Parameters(t)]
  <2>1. Turn(t, {"object"}) /\ Give(t, s) /\ UNCHANGED <<provider, caching, flag, def, at>>
    BY <1>1 DEF Supplied
  <2>2. /\ IsDefinitionOf(def[t], flag[t]) /\ Parameters(t) \in Identity
        /\ Filter(t).value \in Values /\ Filter(t).kind = "object"
    BY <2>1, TurnFacts
  <2>3. def[t].load \in Nat
    BY <2>2 DEF IsDefinitionOf, Definition
  <2>4. s \in Settings /\ s.value = Filter(t).value
    BY <2>2, <2>3 DEF Settings
  <2> HIDE DEF s
  <2>5. QED
    BY <2>1, <2>2, <2>4, GiveKeeps
<1>2. CASE Unbound(t)
  <2>1. /\ Turn(t, {"unbound"}) /\ Give(t, NoSettings)
        /\ UNCHANGED <<provider, caching, flag, def, at>>
    BY <1>2 DEF Unbound
  <2>2. Filter(t).kind = "unbound"
    BY <2>1 DEF Turn
  <2>3. QED
    BY <2>1, <2>2, GiveKeeps
<1>3. CASE BindUncached(t)
  <2> DEFINE kinds == IF HasCache THEN {"plain"} ELSE {"plain", "wrapper"}
  <2>1. /\ Turn(t, kinds) /\ Give(t, Bound(t))
        /\ UNCHANGED <<provider, caching, flag, def, at>>
    BY <1>3 DEF BindUncached
  <2>2. Filter(t).kind # "object"
    BY <2>1 DEF Turn
  <2> HIDE DEF kinds
  <2>3. Right(Bound(t), def[t], at[t]) /\ Bound(t) \in Settings
    BY <2>1, TurnFacts, BoundRight
  <2>4. QED
    BY <2>1, <2>2, <2>3, GiveKeeps
<1>4. CASE CacheHit(t)
  <2>1. /\ Turn(t, {"wrapper"}) /\ Give(t, Cached(t).settings)
        /\ UNCHANGED <<provider, caching, flag, def, at>>
        /\ Cached(t) # NoItem /\ Cached(t).parameters = Parameters(t)
    BY <1>4 DEF CacheHit, UpToDate
  <2>2. /\ TypeOK /\ flag[t] \in Flags /\ at[t] \in 1..MaxFilters /\ def[t] \in Held
        /\ Filter(t).kind = "wrapper"
    BY <2>1, TurnFacts
  <2>3. Cached(t) \in Items /\ Cached(t) \in Item
    BY <2>1, <2>2 DEF Cached, Slot, Items, TypeOK
  <2>4. Cached(t).settings \in Settings
    BY <2>3 DEF Item
  <2>5. Cached(t).parameters[1] = def[t].id /\ Cached(t).parameters[2] = at[t]
    BY <2>1 DEF Parameters
  <2>6. Right(Cached(t).settings, def[t], at[t])
    BY <2>2, <2>3, <2>5 DEF IInv, CacheAgrees
  <2>7. QED
    BY <2>1, <2>2, <2>4, <2>6, GiveKeeps
<1>5. QED
  BY <1>1, <1>2, <1>3, <1>4

\* The cache has nothing for the filter.
LEMMA CacheMissKeeps ==
  ASSUME IInv, NEW t \in Callers, CacheMiss(t) PROVE IInv'
<1>1. Turn(t, {"wrapper"})
  BY DEF CacheMiss
<1>2. /\ CallVariables /\ CallTypes(t) /\ def[t] \in Held /\ pc[t] = "filter"
      /\ at[t] \in 1..Len(Filters(def[t])) /\ Filter(t).kind = "wrapper"
      /\ IsDefinitionOf(def[t], flag[t])
  BY <1>1, TurnFacts DEF Turn
<1>3. /\ CallVariables' /\ Alone(t) /\ pc'[t] = "bind" /\ flag'[t] = flag[t]
      /\ def'[t] = def[t] /\ at'[t] = at[t]
  BY <1>2 DEF CacheMiss, Goto, CallVariables, Alone, Labels
<1>4. CallTypes(t)'
  BY <1>2, <1>3 DEF CacheMiss, CallTypes, provider, IsDefinitionOf, loads
<1>5. at[t] <= Len(Filters(def[t]))
  BY <1>2, DefinitionFacts DEF IInv
<1>6. CallAgrees(t)'
  BY <1>2, <1>3, <1>5 DEF CacheMiss, CallAgrees, Filter, Filters, provider
<1>7. QED
  BY <1>2, <1>3, <1>4, <1>6, CallStep DEF CacheMiss

\* A caller about to bind or to store is at a filter of its definition.
LEMMA BusyFacts ==
  ASSUME IInv, NEW t \in Callers, pc[t] \in {"bind", "set"}
  PROVE  /\ TypeOK /\ CallVariables /\ CallTypes(t) /\ CallAgrees(t)
         /\ IsDefinitionOf(def[t], flag[t]) /\ def[t] \in Held /\ flag[t] \in Flags
         /\ at[t] \in 1..MaxFilters /\ Parameters(t) \in Identity
<1>1. TypeOK /\ CallVariables /\ CallTypes(t) /\ CallAgrees(t)
  BY TypesOfCalls DEF IInv
<1>2. IsDefinitionOf(def[t], flag[t]) /\ def[t] \in Held /\ flag[t] \in Flags
  BY <1>1, CallerHolds
<1>3. Len(Filters(def[t])) \in 0..MaxFilters /\ def[t] \in Definition
  BY <1>1, <1>2, DefinitionFacts
<1>4. at[t] \in 1..MaxFilters
  BY <1>1, <1>3 DEF CallAgrees, CallVariables
<1>5. Parameters(t) \in Identity
  BY <1>3, <1>4 DEF Parameters, Identity, Definition
<1>6. QED
  BY <1>1, <1>2, <1>4, <1>5

\* The settings are bound.
LEMMA BindKeeps ==
  ASSUME IInv, NEW t \in Callers, Bind(t) PROVE IInv'
<1>1. /\ TypeOK /\ CallVariables /\ CallTypes(t) /\ CallAgrees(t) /\ pc[t] = "bind"
      /\ IsDefinitionOf(def[t], flag[t]) /\ def[t] \in Held
      /\ at[t] \in 1..MaxFilters /\ Parameters(t) \in Identity
  BY BusyFacts DEF Bind
<1>2. Right(Bound(t), def[t], at[t]) /\ Bound(t) \in Settings
  BY <1>1, BoundRight
<1>3. /\ CallVariables' /\ Alone(t) /\ pc'[t] = "set" /\ settings'[t] = Bound(t)
      /\ flag'[t] = flag[t] /\ def'[t] = def[t] /\ at'[t] = at[t]
  BY <1>1, <1>2 DEF Bind, Goto, CallVariables, Alone, Labels
<1>4. CallTypes(t)'
  BY <1>1, <1>2, <1>3 DEF Bind, CallTypes, provider, IsDefinitionOf, loads
<1>5. Right(Bound(t), def[t], at[t]) => Right(settings[t], def[t], at[t])'
  BY <1>3 DEF Bind, provider, Right, Content, loads
<1>6. CallAgrees(t)'
  BY <1>1, <1>2, <1>3, <1>5 DEF Bind, CallAgrees, Filter, Filters, provider
<1>7. QED
  BY <1>1, <1>3, <1>4, <1>6, CallStep DEF Bind

-----------------------------------------------------------------------------
(* Steps that make or replace a definition or an item of the cache.        *)

\* What is parsed is a definition of the flag, with the identity it was given.
LEMMA ParsedFacts ==
  ASSUME TypeOK, NEW f \in Flags, NEW i \in Ids
  PROVE  IsDefinitionOf(Parsed(f, i), f) /\ Parsed(f, i) \in Definition /\ Parsed(f, i).id = i
<1>1. Readable \in 1..loads /\ Readable \in Nat
  BY DEF TypeOK, Readable, loads
<1>2. /\ IndexOf(history[Readable], f) \in 1..Len(history[Readable])
      /\ history[Readable][IndexOf(history[Readable], f)].name = f
  BY <1>1, IndexIs
<1>3. history[Readable] \in Layouts
  BY <1>1 DEF TypeOK, loads
<1>4. IndexOf(history[Readable], f) \in Nat
  BY <1>2, <1>3, LayoutsAssumption DEF IsLayout
<1>5. Parsed(f, i) \in Definition
  BY <1>1, <1>4 DEF Parsed, Definition
<1>6. QED
  BY <1>1, <1>2, <1>5 DEF Parsed, IsDefinitionOf

\* A new definition has an identity of its own.
LEMMA DefineMissKeeps ==
  ASSUME IInv, NEW t \in Callers, DefineMiss(t) PROVE IInv'
<1>1. /\ TypeOK /\ CallVariables /\ CallTypes(t) /\ flag[t] \in Flags
      /\ \A u \in Callers : CallAgrees(u)
  BY TypesOfCalls DEF IInv, CallTypes, DefineMiss
<1>2. PICK i \in Ids \ InUse : def' = [def EXCEPT ![t] = Parsed(flag[t], i)]
  BY DEF DefineMiss
<1> DEFINE d0 == Parsed(flag[t], i)
<1>3. IsDefinitionOf(d0, flag[t]) /\ d0 \in Definition /\ d0.id = i
  BY <1>1, ParsedFacts
<1>4. def' = [def EXCEPT ![t] = d0]
  BY <1>2
<1> HIDE DEF d0
<1>5. /\ CallVariables' /\ Alone(t) /\ pc'[t] = "add" /\ flag'[t] = flag[t] /\ def'[t] = d0
      /\ UNCHANGED <<provider, caching>> /\ history' = history
  BY <1>1, <1>3, <1>4 DEF DefineMiss, Goto, CallVariables, Alone, Labels, provider
<1>6. CallTypes(t)' /\ CallAgrees(t)'
  BY <1>1, <1>3, <1>5 DEF CallTypes, CallAgrees, IsDefinitionOf, loads
<1>7. /\ \A u \in Callers : CallTypes(u)'
      /\ \A u \in Callers : CallAgrees(u)'
  BY <1>1, <1>5, <1>6, OneCaller
<1>8. TypeOK'
  BY <1>1, <1>5, <1>7 DEF TypeOK, CallTypes, CallVariables, provider, caching, loads, IsDefinitionOf
<1>9. Held' \subseteq Held \cup {d0} /\ Items' = Items
  BY <1>5 DEF Held, Items, Alone, provider, caching
<1>10. /\ \A d \in Held : d.id # d0.id
       /\ \A x \in Items : x.parameters[1] # d0.id
  BY <1>3 DEF InUse
<1>11. Distinct'
  BY <1>9, <1>10 DEF IInv, Distinct
<1>12. ASSUME NEW x \in Items', NEW d \in Held', d.id = x.parameters[1]
       PROVE  Right(x.settings, d, x.parameters[2])'
  <2>1. x \in Items /\ d \in Held
    BY <1>9, <1>10, <1>12
  <2>2. Right(x.settings, d, x.parameters[2])
    BY <2>1, <1>12 DEF IInv, CacheAgrees
  <2>3. QED
    BY <2>2, <1>5 DEF Right, Content, loads
<1>13. CacheAgrees'
  BY <1>12 DEF CacheAgrees
<1>14. QED
  BY <1>7, <1>8, <1>11, <1>13 DEF IInv

\* A definition is added, or the one that is there is taken.
LEMMA DefineAddKeeps ==
  ASSUME IInv, NEW t \in Callers, DefineAdd(t) PROVE IInv'
<1>1. TypeOK /\ CallVariables /\ CallTypes(t) /\ \A u \in Callers : CallAgrees(u)
  BY TypesOfCalls DEF IInv
<1>2. /\ IsDefinitionOf(def[t], flag[t]) /\ flag[t] \in Flags
      /\ def[t] \in Definition /\ def[t] \in Held
  BY <1>1, CallerHolds DEF DefineAdd, IsDefinitionOf
<1>3. history' = history /\ raised' = raised /\ UNCHANGED <<caching, flag, at, settings>>
  BY DEF DefineAdd
<1>4. /\ definitions' \in [Flags -> Definition \cup {NoDefinition}]
      /\ \A f \in Flags : definitions'[f] # NoDefinition => IsDefinitionOf(definitions'[f], f)
      /\ \A f \in Flags : definitions'[f] \in Held \cup {NoDefinition}
      /\ definitions'[flag[t]] # NoDefinition
  BY <1>1, <1>2, NothingAssumption DEF DefineAdd, TypeOK, Held, Definition
<1>5. definitions'[flag[t]] \in Definition
  BY <1>2, <1>4
<1>6. /\ CallVariables' /\ Alone(t) /\ pc'[t] = "filter" /\ flag'[t] = flag[t]
      /\ def'[t] = definitions'[flag[t]]
  BY <1>1, <1>5 DEF DefineAdd, Goto, CallVariables, Alone, Labels
<1>7. CallTypes(t)' /\ CallAgrees(t)'
  BY <1>2, <1>3, <1>4, <1>6 DEF CallTypes, CallAgrees, IsDefinitionOf, loads
<1>8. /\ \A u \in Callers : CallTypes(u)'
      /\ \A u \in Callers : CallAgrees(u)'
  BY <1>1, <1>3, <1>6, <1>7, OneCaller
<1>9. \A f \in Flags : definitions'[f] # NoDefinition => IsDefinitionOf(definitions[f], f)'
  BY <1>3, <1>4 DEF IsDefinitionOf, loads
<1>10. TypeOK'
  BY <1>1, <1>3, <1>4, <1>6, <1>8, <1>9 DEF TypeOK, CallTypes, CallVariables, caching, loads
<1>11. Held' \subseteq Held /\ Items' \subseteq Items /\ Grows
  BY <1>1, <1>2, <1>3, <1>4, <1>6, SameGrows DEF Held, Items, Alone, caching
<1>12. QED
  BY <1>8, <1>10, <1>11, NothingNew DEF IInv

\* What is stored was bound from the parameters it is stored with.
LEMMA CacheSetKeeps ==
  ASSUME IInv, NEW t \in Callers, CacheSet(t) PROVE IInv'
<1>1. /\ TypeOK /\ CallVariables /\ CallTypes(t) /\ CallAgrees(t) /\ pc[t] = "set"
      /\ IsDefinitionOf(def[t], flag[t]) /\ def[t] \in Held /\ flag[t] \in Flags
      /\ at[t] \in 1..MaxFilters /\ Parameters(t) \in Identity
      /\ \A u \in Callers : CallAgrees(u)
  BY BusyFacts DEF IInv, CacheSet
<1>2. /\ UNCHANGED <<provider, evictions, flag, def, at, settings>>
      /\ history' = history
  BY DEF CacheSet, provider
<1> DEFINE x0 == [parameters |-> Parameters(t), settings |-> settings[t]]
<1>3. x0 \in Item /\ x0.parameters = <<def[t].id, at[t]>> /\ x0.settings = settings[t]
  BY <1>1 DEF CallTypes, Item, Parameters
<1>4. cache' = [cache EXCEPT ![flag[t]] = [cache[flag[t]] EXCEPT ![at[t]] = x0]]
  BY DEF CacheSet, Slot
<1>5. Right(x0.settings, def[t], at[t])
  BY <1>1, <1>3 DEF CallAgrees
<1> HIDE DEF x0
<1>6. [cache[flag[t]] EXCEPT ![at[t]] = x0] \in [1..MaxFilters -> Item \cup {NoItem}]
  BY <1>1, <1>3 DEF TypeOK
<1>7. cache' \in [Flags -> [1..MaxFilters -> Item \cup {NoItem}]]
  BY <1>1, <1>4, <1>6 DEF TypeOK
<1>8. Items' \subseteq Items \cup {x0} /\ Held' = Held
  BY <1>1, <1>2, <1>4 DEF Items, Held, TypeOK, provider
<1>9. CallVariables' /\ Alone(t) /\ pc'[t] = "run"
  BY <1>1, <1>2 DEF CacheSet, Goto, CallVariables, Alone, Labels
<1>10. CallTypes(t)'
  BY <1>1, <1>2, <1>9 DEF CallTypes, IsDefinitionOf, loads
<1>11. CallAgrees(t)'
  BY <1>1, <1>2, <1>9 DEF CallAgrees, Filter, Filters, Right, Content, loads
<1>12. /\ \A u \in Callers : CallTypes(u)'
       /\ \A u \in Callers : CallAgrees(u)'
  BY <1>1, <1>2, <1>9, <1>10, <1>11, OneCaller
<1>13. TypeOK'
  BY <1>1, <1>2, <1>7, <1>9, <1>12
     DEF TypeOK, CallTypes, CallVariables, provider, loads, IsDefinitionOf
<1>14. Distinct'
  BY <1>8 DEF IInv, Distinct
<1>15. ASSUME NEW x \in Items', NEW d \in Held', d.id = x.parameters[1]
       PROVE  Right(x.settings, d, x.parameters[2])'
  <2>1. d \in Held
    BY <1>8
  <2>2. CASE x \in Items
    BY <2>1, <2>2, <1>2, <1>15 DEF IInv, CacheAgrees, Right, Content, loads
  <2>3. CASE x = x0
    <3>1. d = def[t]
      BY <2>1, <2>3, <1>1, <1>3, <1>15 DEF IInv, Distinct
    <3>2. QED
      <4>1. Right(x.settings, d, x.parameters[2])
        BY <2>3, <3>1, <1>3, <1>5
      <4>2. QED
        BY <4>1, <1>2, Zenon DEF Right, Content, loads
  <2>4. QED
    BY <2>2, <2>3, <1>8
<1>16. CacheAgrees'
  BY <1>15 DEF CacheAgrees
<1>17. QED
  BY <1>12, <1>13, <1>14, <1>16 DEF IInv

-----------------------------------------------------------------------------
(* The environment, and the invariant.                                     *)

\* A reload and its notification preserve the invariant.
LEMMA ReloadKeeps ==
  ASSUME IInv, (\E l \in Layouts : Load(l)) \/ Raise PROVE IInv'
<1>1. TypeOK /\ CallVariables /\ \A u \in Callers : CallTypes(u) /\ CallAgrees(u)
  BY TypesOfCalls DEF IInv
<1>2. Grows /\ history' \in Seq(Layouts) /\ raised' \in 1..loads'
  <2>1. CASE \E l \in Layouts : Load(l)
    <3>1. PICK l \in Layouts : Load(l)
      BY <2>1
    <3>2. Grows /\ history' \in Seq(Layouts) /\ loads' = loads + 1
      BY <1>1, <3>1, LoadGrows
    <3>3. raised' = raised /\ raised \in 1..loads /\ loads \in Nat
      BY <1>1, <3>1 DEF Load, TypeOK, loads
    <3>4. QED
      BY <3>2, <3>3
  <2>2. CASE Raise
    BY <1>1, <2>2, SameGrows DEF Raise, TypeOK, loads
  <2>3. QED
    BY <2>1, <2>2
<1>3. UNCHANGED <<caching, call>>
  BY DEF Load, Raise
<1>4. /\ definitions' \in [Flags -> Definition \cup {NoDefinition}]
      /\ \A f \in Flags : definitions'[f] # NoDefinition => definitions'[f] = definitions[f]
  BY <1>1 DEF Load, Raise, TypeOK
<1>5. ASSUME NEW f \in Flags, definitions'[f] # NoDefinition
      PROVE  IsDefinitionOf(definitions[f], f)'
  <2>1. definitions'[f] = definitions[f] /\ IsDefinitionOf(definitions[f], f)
    BY <1>1, <1>4, <1>5 DEF TypeOK
  <2>2. IsDefinitionOf(definitions[f], f) =>
          /\ definitions[f] \in Definition /\ definitions[f].load \in 1..loads'
          /\ definitions[f].index \in 1..Len(history'[definitions[f].load])
          /\ history'[definitions[f].load][definitions[f].index].name = f
    BY <1>2, ParsedStays DEF IsDefinitionOf
  <2>3. QED
    BY <2>1, <2>2 DEF IsDefinitionOf
<1>6. ASSUME NEW u \in Callers
      PROVE  CallTypes(u)' /\ CallAgrees(u)'
  <2>1. CallAgrees(u)'
    BY <1>1, <1>2, <1>3, CallStays DEF call
  <2>2. IsDefinitionOf(def[u], flag[u]) => IsDefinitionOf(def[u], flag[u])'
    BY <1>2, <1>3, ParsedStays DEF IsDefinitionOf, call
  <2>3. CallTypes(u)'
    BY <1>1, <1>3, <2>2 DEF CallTypes, call
  <2>4. QED
    BY <2>1, <2>3
<1>7. TypeOK'
  BY <1>1, <1>2, <1>3, <1>4, <1>5, <1>6 DEF TypeOK, CallTypes, call, caching
<1>8. Held' \subseteq Held /\ Items' \subseteq Items
  BY <1>3, <1>4 DEF Held, Items, call, caching
<1>9. QED
  BY <1>2, <1>6, <1>7, <1>8, NothingNew DEF IInv

\* So does an eviction.
LEMMA EvictKeeps ==
  ASSUME IInv, NEW f \in Flags, NEW j \in 1..MaxFilters, Evict(f, j) PROVE IInv'
<1>1. TypeOK /\ \A u \in Callers : CallAgrees(u)
  BY DEF IInv
<1>2. UNCHANGED <<provider, call>> /\ history' = history
  BY DEF Evict, provider
<1>3. Grows
  BY <1>1, <1>2, SameGrows
<1>4. [cache[f] EXCEPT ![j] = NoItem] \in [1..MaxFilters -> Item \cup {NoItem}]
  BY <1>1 DEF TypeOK
<1>5. cache' \in [Flags -> [1..MaxFilters -> Item \cup {NoItem}]] /\ evictions' \in Nat
  BY <1>1, <1>4 DEF TypeOK, Evict
<1>6. TypeOK'
  BY <1>1, <1>2, <1>5 DEF TypeOK, provider, call, loads, IsDefinitionOf
<1>7. Held' \subseteq Held /\ Items' \subseteq Items
  BY <1>1, <1>2, <1>4 DEF Held, Items, provider, call, Evict, TypeOK
<1>8. \A u \in Callers : CallAgrees(u)'
  BY <1>1, <1>2, <1>3, CallStays DEF call
<1>9. QED
  BY <1>3, <1>6, <1>7, <1>8, NothingNew DEF IInv

\* The invariant holds at the start.
LEMMA InitInv == Init => IInv
<1> SUFFICES ASSUME Init PROVE IInv
  OBVIOUS
<1>1. PICK l \in Layouts : history = <<l>>
  BY DEF Init
<1>2. history \in Seq(Layouts) /\ loads = 1
  BY <1>1 DEF loads
<1>3. Held = {} /\ Items = {}
  BY DEF Init, Held, Items
<1>4. TypeOK
  BY <1>2 DEF Init, TypeOK, Labels, loads
<1>5. \A t \in Callers : CallAgrees(t)
  BY DEF Init, CallAgrees
<1>6. QED
  BY <1>3, <1>4, <1>5 DEF IInv, Distinct, CacheAgrees

\* It is inductive.
LEMMA Inductive == IInv /\ [Next]_vars => IInv'
<1> SUFFICES ASSUME IInv, [Next]_vars PROVE IInv'
  OBVIOUS
<1>1. CASE UNCHANGED vars
  <2>1. TypeOK /\ \A u \in Callers : CallAgrees(u)
    BY DEF IInv
  <2>2. UNCHANGED <<history, raised, definitions, cache, evictions, pc, flag, def, at, settings>>
    BY <1>1 DEF vars, provider, caching, call
  <2>3. TypeOK'
    BY <2>1, <2>2 DEF TypeOK, loads, IsDefinitionOf
  <2>4. Grows /\ Held' = Held /\ Items' = Items
    BY <2>1, <2>2, SameGrows DEF Held, Items
  <2>5. \A u \in Callers : CallAgrees(u)'
    BY <2>1, <2>2, <2>4, CallStays
  <2>6. QED
    BY <2>3, <2>4, <2>5, NothingNew DEF IInv
<1>2. CASE (\E l \in Layouts : Load(l)) \/ Raise
  BY <1>2, ReloadKeeps
<1>3. CASE \E f \in Flags, j \in 1..MaxFilters : Evict(f, j)
  BY <1>3, EvictKeeps
<1>4. ASSUME NEW t \in Callers, Step(t) PROVE IInv'
  <2>1. CASE \E f \in Asked : Call(t, f)
    BY <2>1, CallKeeps
  <2>2. CASE DefineHit(t)
    BY <2>2, DefineHitKeeps
  <2>3. CASE DefineMiss(t)
    BY <2>3, DefineMissKeeps
  <2>4. CASE DefineAdd(t)
    BY <2>4, DefineAddKeeps
  <2>5. CASE Finish(t) \/ Fail(t) \/ RunLast(t)
    BY <2>5, LeaveKeeps DEF Finish, Fail, RunLast
  <2>6. CASE RunNext(t)
    BY <2>6, RunNextKeeps
  <2>7. CASE Supplied(t) \/ Unbound(t) \/ BindUncached(t) \/ CacheHit(t)
    BY <2>7, GiveSteps
  <2>8. CASE CacheMiss(t)
    BY <2>8, CacheMissKeeps
  <2>9. CASE Bind(t)
    BY <2>9, BindKeeps
  <2>10. CASE CacheSet(t)
    BY <2>10, CacheSetKeeps
  <2>11. QED
    BY <1>4, <2>1, <2>2, <2>3, <2>4, <2>5, <2>6, <2>7, <2>8, <2>9, <2>10 DEF Step
<1>5. QED
  BY <1>1, <1>2, <1>3, <1>4 DEF Next

-----------------------------------------------------------------------------

\* What the invariant says of a filter that runs.
LEMMA RunFacts ==
  ASSUME IInv, NEW t \in Callers, pc[t] = "run"
  PROVE  /\ IsDefinitionOf(def[t], flag[t]) /\ flag[t] \in Flags
         /\ def[t].load \in 1..loads /\ loads \in Nat
         /\ at[t] \in 1..Len(Filters(def[t])) /\ Filter(t).kind \in Kinds
         /\ Content(def[t].load, def[t].index, at[t]) = Filter(t).value
         /\ IndexOf(history[def[t].load], flag[t]) = def[t].index
<1>1. TypeOK /\ CallVariables /\ CallTypes(t) /\ CallAgrees(t)
  BY TypesOfCalls DEF IInv
<1>2. IsDefinitionOf(def[t], flag[t]) /\ flag[t] \in Flags
  BY <1>1, CallerHolds
<1>3. Len(Filters(def[t])) \in 0..MaxFilters /\ def[t].load \in 1..loads /\ loads \in Nat
  BY <1>1, <1>2, DefinitionFacts DEF TypeOK, loads
<1>4. at[t] \in 1..Len(Filters(def[t]))
  BY <1>1, <1>3 DEF CallAgrees, CallVariables
<1>5. /\ Filter(t).kind \in Kinds
      /\ Content(def[t].load, def[t].index, at[t]) = Filter(t).value
  BY <1>1, <1>2, <1>4, DefinitionFacts DEF Filter
<1>6. IndexOf(history[def[t].load], flag[t]) = def[t].index
  <2>1. /\ def[t].index \in 1..Len(history[def[t].load])
        /\ history[def[t].load][def[t].index].name = flag[t]
    BY <1>2 DEF IsDefinitionOf
  <2>2. \A i \in 1..Len(history[def[t].load]) :
          history[def[t].load][i].name = flag[t] => i = IndexOf(history[def[t].load], flag[t])
    <3> DEFINE n == def[t].load
               f == flag[t]
    <3>1. TypeOK /\ n \in 1..loads /\ f \in Flags
      BY <1>1, <1>2, <1>3
    <3> HIDE DEF n, f
    <3>2. \A i \in 1..Len(history[n]) : history[n][i].name = f => i = IndexOf(history[n], f)
      BY <3>1, IndexIs
    <3>3. QED
      BY <3>2 DEF n, f
  <2>3. QED
    BY <2>1, <2>2
<1>7. QED
  BY <1>2, <1>3, <1>4, <1>5, <1>6

\* A filter runs with settings bound from its own parameters.
LEMMA OwnFromInv == IInv => OwnSettings
<1> SUFFICES ASSUME IInv, NEW t \in Callers, pc[t] = "run",
                    Filter(t).kind \in {"wrapper", "plain"}
             PROVE  Right(settings[t], def[t], at[t])
  BY DEF OwnSettings, Right
<1>1. QED
  BY DEF IInv, CallAgrees

\* With a current definition they are the current ones.
LEMMA CurrentFromInv == IInv => CurrentSettings
<1> SUFFICES ASSUME IInv, NEW t \in Callers, pc[t] = "run", def[t].load = loads,
                    Filter(t).kind # "unbound"
             PROVE  settings[t].value =
                      history[loads][IndexOf(history[loads], flag[t])].filters[at[t]].value
  BY DEF CurrentSettings
<1>1. /\ Filter(t).kind \in Kinds /\ loads \in Nat
      /\ Content(loads, def[t].index, at[t]) = Filter(t).value
      /\ IndexOf(history[loads], flag[t]) = def[t].index
  BY RunFacts
<1>2. CASE Filter(t).kind = "object"
  BY <1>1, <1>2 DEF IInv, CallAgrees, Filter, Filters
<1>3. CASE Filter(t).kind \in {"wrapper", "plain"}
  <2>1. Right(settings[t], def[t], at[t])
    BY <1>3 DEF IInv, CallAgrees
  <2>2. settings[t].load = loads
    BY <1>1, <2>1 DEF Right
  <2>3. QED
    BY <1>1, <2>1, <2>2 DEF Right, Filter, Filters
<1>4. QED
  BY <1>1, <1>2, <1>3 DEF Kinds

\* When sections are copies they are those of the feature itself.
LEMMA CopiesFromInv == IInv /\ ~Live => OwnFeature
<1> SUFFICES ASSUME IInv, ~Live, NEW t \in Callers, pc[t] = "run",
                    Filter(t).kind # "unbound"
             PROVE  \E n \in def[t].load..loads :
                      settings[t].value =
                        Content(n, IndexOf(history[n], flag[t]), at[t])
  BY DEF OwnFeature
<1>1. /\ Filter(t).kind \in Kinds /\ def[t].load \in def[t].load..loads
      /\ Content(def[t].load, def[t].index, at[t]) = Filter(t).value
      /\ IndexOf(history[def[t].load], flag[t]) = def[t].index
  BY RunFacts
<1>2. CASE Filter(t).kind = "object"
  BY <1>1, <1>2 DEF IInv, CallAgrees
<1>3. CASE Filter(t).kind \in {"wrapper", "plain"}
  BY <1>1, <1>3 DEF IInv, CallAgrees, Right
<1>4. QED
  BY <1>1, <1>2, <1>3 DEF Kinds

\* The invariant holds at all times.
THEOREM Invariant == Spec => []IInv
  BY InitInv, Inductive, PTL DEF Spec

\* Every variable of SettingsCache keeps its type.
THEOREM Types == Spec => []TypeOK
<1>1. IInv => TypeOK
  BY DEF IInv
<1>2. QED
  BY <1>1, Invariant, PTL

\* A filter runs with settings bound from its own parameters, however definitions
\* of several loads are in use at once and callers overwrite the entry.
THEOREM SettingsAreOwn == Spec => []OwnSettings
  BY OwnFromInv, Invariant, PTL

\* With a current definition a filter runs with what the configuration has for it.
THEOREM SettingsAreCurrent == Spec => []CurrentSettings
  BY CurrentFromInv, Invariant, PTL

\* Where sections are captured, as custom merging does, a filter runs with settings
\* of its own feature even when its definition is an old one.
THEOREM CapturedOwnFeature == ASSUME ~Live PROVE Spec => []OwnFeature
  BY CopiesFromInv, Invariant, PTL

=============================================================================
