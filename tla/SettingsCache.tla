---------------------------- MODULE SettingsCache ----------------------------
(***************************************************************************)
(* FeatureManager.BindSettings: the settings that filters are given, bound *)
(* from the parameters of a definition and cached in an IMemoryCache.      *)
(*                                                                         *)
(* The key of the cache is the feature and the place of the filter, what   *)
(* is compared is the identity of the parameters, and the parameters are a *)
(* ConfigurationWrapper that reads the configuration under an index when   *)
(* it is bound.  A reload replaces the flags under the indexes; the        *)
(* definitions parsed before it go on being used by the calls that hold    *)
(* them.  Callers run between any two accesses of shared state.            *)
(***************************************************************************)
EXTENDS Naturals, Sequences

CONSTANTS
  Callers,
  Flags,         \* feature names
  Asked,         \* those the callers evaluate
  Ids,           \* identities of objects
  Values,        \* what the parameters of a filter may hold
  Layouts,       \* configurations: sequences of flags with their filters
  MaxFilters,    \* bound: filters of one flag
  MaxLoads,      \* bound: times the configuration is loaded
  MaxEvictions,  \* bound: entries that expire or are evicted
  Live,          \* sections are read from the configuration, not from a copy
  HasCache,      \* FeatureManager.Cache is set
  Missing,       \* what is bound from a section that is not there
  NoFlag, NoDefinition, NoItem, NoSettings

\* wrapper: a ConfigurationWrapper; plain: another IConfiguration, of a custom
\* definition provider; object: a ParametersObject; unbound: the filter takes no
\* settings.
Kinds == {"wrapper", "plain", "object", "unbound"}

IsFlag(g) ==
  /\ g.name \in Flags
  /\ Len(g.filters) \in 0..MaxFilters
  /\ \A j \in 1..Len(g.filters) :
       g.filters[j].kind \in Kinds /\ g.filters[j].value \in Values

\* Every feature has one flag in every configuration.
IsLayout(l) ==
  /\ Len(l) \in Nat
  /\ \A i \in 1..Len(l) : IsFlag(l[i])
  /\ \A i, j \in 1..Len(l) : l[i].name = l[j].name => i = j
  /\ \A f \in Flags : \E i \in 1..Len(l) : l[i].name = f

ASSUME BoundsAssumption == MaxFilters \in Nat /\ MaxLoads \in Nat /\ MaxEvictions \in Nat
ASSUME AskedAssumption == Asked \subseteq Flags
ASSUME LayoutsAssumption == \A l \in Layouts : IsLayout(l)
ASSUME NothingAssumption ==
  /\ NoDefinition \notin [id : Ids, load : Nat, index : Nat]
  /\ NoItem \notin [parameters : Ids \X (1..MaxFilters),
                     settings : [value : Values \cup {Missing}, load : Nat,
                                 of : Ids \X (1..MaxFilters)]]
ASSUME SwitchesAssumption == Live \in BOOLEAN /\ HasCache \in BOOLEAN

VARIABLES
  history,      \* the configurations loaded so far; the last one is in force
  raised,       \* how many of them have been notified
  definitions,  \* the definition the provider has cached for each flag
  cache,        \* IMemoryCache: an item per feature and filter index
  pc,
  flag,         \* the feature a caller evaluates
  def,          \* its definition
  at,           \* filterIndex
  settings,     \* FeatureFilterEvaluationContext.Settings
  evictions     \* auxiliary: entries evicted so far

provider == <<history, raised, definitions>>
caching == <<cache, evictions>>
call == <<pc, flag, def, at, settings>>
vars == <<provider, caching, call>>

loads == Len(history)

Goto(t, label) == pc' = [pc EXCEPT ![t] = label]

Init ==
  /\ \E l \in Layouts : history = <<l>>
  /\ raised = 1
  /\ definitions = [f \in Flags |-> NoDefinition]
  /\ cache = [f \in Flags |-> [j \in 1..MaxFilters |-> NoItem]]
  /\ pc = [t \in Callers |-> "idle"]
  /\ flag = [t \in Callers |-> NoFlag]
  /\ def = [t \in Callers |-> NoDefinition]
  /\ at = [t \in Callers |-> 1]
  /\ settings = [t \in Callers |-> NoSettings]
  /\ evictions = 0

-----------------------------------------------------------------------------
(* The environment: the data is replaced, its change token fires later and *)
(* the provider drops its definitions; the memory cache drops entries.     *)

Load(l) ==
  /\ loads < MaxLoads
  /\ history' = Append(history, l)
  /\ UNCHANGED <<raised, definitions, caching, call>>

Raise ==
  /\ raised < loads
  /\ raised' = loads
  /\ definitions' = [f \in Flags |-> NoDefinition]
  /\ UNCHANGED <<history, caching, call>>

Evict(f, j) ==
  /\ evictions < MaxEvictions
  /\ cache[f][j] # NoItem
  /\ cache' = [cache EXCEPT ![f] = [cache[f] EXCEPT ![j] = NoItem]]
  /\ evictions' = evictions + 1
  /\ UNCHANGED <<provider, call>>

-----------------------------------------------------------------------------
(* The definition of a call: the cached one, or a new one added by GetOrAdd. *)

Call(t, f) ==
  /\ pc[t] = "idle"
  /\ flag' = [flag EXCEPT ![t] = f]
  /\ Goto(t, "define")
  /\ UNCHANGED <<provider, caching, def, at, settings>>

DefineHit(t) ==
  /\ pc[t] = "define"
  /\ definitions[flag[t]] # NoDefinition
  /\ def' = [def EXCEPT ![t] = definitions[flag[t]]]
  /\ Goto(t, "filter")
  /\ UNCHANGED <<provider, caching, flag, at, settings>>

IndexOf(l, f) == CHOOSE i \in 1..Len(l) : l[i].name = f

\* The definitions and the items that something still refers to, and the
\* identities of these: an item keeps its parameters alive.
Held ==
  ({definitions[f] : f \in Flags} \cup {def[t] : t \in Callers}) \ {NoDefinition}
Items == {cache[f][j] : f \in Flags, j \in 1..MaxFilters} \ {NoItem}
InUse == {d.id : d \in Held} \cup {x.parameters[1] : x \in Items}

\* What is parsed: the configuration itself, or the copy of the last refresh.
Readable == IF Live THEN loads ELSE raised

\* What a definition remembers of its configuration: where its flag was. A
\* parse makes new wrappers.
Parsed(f, id) == [id |-> id, load |-> Readable, index |-> IndexOf(history[Readable], f)]

DefineMiss(t) ==
  /\ pc[t] = "define"
  /\ definitions[flag[t]] = NoDefinition
  /\ Ids \ InUse # {}
  /\ def' = [def EXCEPT ![t] = Parsed(flag[t], CHOOSE i \in Ids \ InUse : TRUE)]
  /\ Goto(t, "add")
  /\ UNCHANGED <<provider, caching, flag, at, settings>>

\* A faulty variant: whoever wins the race goes on with what was there before.
DefineAddOld(t) ==
  /\ pc[t] = "add"
  /\ definitions' = IF definitions[flag[t]] = NoDefinition
                    THEN [definitions EXCEPT ![flag[t]] = def[t]] ELSE definitions
  /\ def' = [def EXCEPT ![t] = definitions[flag[t]]]
  /\ Goto(t, "filter")
  /\ UNCHANGED <<history, raised, caching, flag, at, settings>>

DefineAdd(t) ==
  /\ pc[t] = "add"
  /\ definitions' = IF definitions[flag[t]] = NoDefinition
                    THEN [definitions EXCEPT ![flag[t]] = def[t]] ELSE definitions
  /\ def' = [def EXCEPT ![t] = definitions'[flag[t]]]
  /\ Goto(t, "filter")
  /\ UNCHANGED <<history, raised, caching, flag, at, settings>>

-----------------------------------------------------------------------------
(* The filters of the definition, one after the other.                     *)

Filters(d) == history[d.load][d.index].filters

Filter(t) == Filters(def[t])[at[t]]

Leave(t) ==
  /\ flag' = [flag EXCEPT ![t] = NoFlag]
  /\ def' = [def EXCEPT ![t] = NoDefinition]
  /\ at' = [at EXCEPT ![t] = 1]
  /\ settings' = [settings EXCEPT ![t] = NoSettings]
  /\ Goto(t, "idle")
  /\ UNCHANGED <<provider, caching>>

Finish(t) ==
  /\ pc[t] = "filter"
  /\ at[t] > Len(Filters(def[t]))
  /\ Leave(t)

\* Parsing, binding or a filter throws, or the call is cancelled.
Fail(t) ==
  /\ pc[t] \notin {"idle", "filter"}
  /\ Leave(t)

\* The filter ran: it ended the evaluation, or the next one is up.
RunLast(t) ==
  /\ pc[t] = "run"
  /\ Leave(t)

RunNext(t) ==
  /\ pc[t] = "run"
  /\ at' = [at EXCEPT ![t] = at[t] + 1]
  /\ settings' = [settings EXCEPT ![t] = NoSettings]
  /\ Goto(t, "filter")
  /\ UNCHANGED <<provider, caching, flag, def>>

-----------------------------------------------------------------------------
(* BindSettings.                                                           *)

\* The identity of the parameters.
Parameters(t) == <<def[t].id, at[t]>>

Turn(t, kinds) ==
  /\ pc[t] = "filter"
  /\ at[t] <= Len(Filters(def[t]))
  /\ Filter(t).kind \in kinds

Give(t, s) ==
  /\ settings' = [settings EXCEPT ![t] = s]
  /\ Goto(t, "run")

\* The settings came with the definition.
Supplied(t) ==
  /\ Turn(t, {"object"})
  /\ Give(t, [value |-> Filter(t).value, load |-> def[t].load, of |-> Parameters(t)])
  /\ UNCHANGED <<provider, caching, flag, def, at>>

Unbound(t) ==
  /\ Turn(t, {"unbound"})
  /\ Give(t, NoSettings)
  /\ UNCHANGED <<provider, caching, flag, def, at>>

\* A faulty variant: the path leads to the first filter of the flag.
ContentOfFirst(n, i, j) ==
  IF i <= Len(history[n]) /\ j <= Len(history[n][i].filters)
  THEN history[n][i].filters[1].value ELSE Missing

\* What the configuration of one load holds under an index.
Content(n, i, j) ==
  IF i <= Len(history[n]) /\ j <= Len(history[n][i].filters)
  THEN history[n][i].filters[j].value ELSE Missing

\* BindParameters: one read of what the section holds by now, or of the captured copy.
Bound(t) ==
  LET n == IF Live THEN loads ELSE def[t].load
  IN  [value |-> Content(n, def[t].index, at[t]), load |-> n, of |-> Parameters(t)]

BindUncached(t) ==
  /\ Turn(t, IF HasCache THEN {"plain"} ELSE {"plain", "wrapper"})
  /\ Give(t, Bound(t))
  /\ UNCHANGED <<provider, caching, flag, def, at>>

\* A faulty variant: the key of the cache is the feature alone.
SlotShared(t) == 1

\* With the feature, the key of the cache.
Slot(t) == at[t]

Cached(t) == cache[flag[t]][Slot(t)]

\* An item is there and was bound from the same parameters.
UpToDate(t) == Cached(t) # NoItem /\ Cached(t).parameters = Parameters(t)

\* A faulty variant: what is found is used, whatever it was bound from.
CacheHitAny(t) ==
  /\ HasCache
  /\ Turn(t, {"wrapper"})
  /\ Cached(t) # NoItem
  /\ Give(t, Cached(t).settings)
  /\ UNCHANGED <<provider, caching, flag, def, at>>

CacheHit(t) ==
  /\ HasCache
  /\ Turn(t, {"wrapper"})
  /\ UpToDate(t)
  /\ Give(t, Cached(t).settings)
  /\ UNCHANGED <<provider, caching, flag, def, at>>

CacheMiss(t) ==
  /\ HasCache
  /\ Turn(t, {"wrapper"})
  /\ ~UpToDate(t)
  /\ Goto(t, "bind")
  /\ UNCHANGED <<provider, caching, flag, def, at, settings>>

Bind(t) ==
  /\ pc[t] = "bind"
  /\ settings' = [settings EXCEPT ![t] = Bound(t)]
  /\ Goto(t, "set")
  /\ UNCHANGED <<provider, caching, flag, def, at>>

\* Cache.Set overwrites; the caller goes on with what it has bound.
CacheSet(t) ==
  /\ pc[t] = "set"
  /\ cache' = [cache EXCEPT ![flag[t]] = [cache[flag[t]] EXCEPT ![Slot(t)] =
                 [parameters |-> Parameters(t), settings |-> settings[t]]]]
  /\ Goto(t, "run")
  /\ UNCHANGED <<provider, evictions, flag, def, at, settings>>

-----------------------------------------------------------------------------

Step(t) ==
  \/ \E f \in Asked : Call(t, f)
  \/ DefineHit(t)
  \/ DefineMiss(t)
  \/ DefineAdd(t)
  \/ Finish(t)
  \/ Fail(t)
  \/ RunLast(t)
  \/ RunNext(t)
  \/ Supplied(t)
  \/ Unbound(t)
  \/ BindUncached(t)
  \/ CacheHit(t)
  \/ CacheMiss(t)
  \/ Bind(t)
  \/ CacheSet(t)

Next ==
  \/ \E l \in Layouts : Load(l)
  \/ Raise
  \/ \E f \in Flags, j \in 1..MaxFilters : Evict(f, j)
  \/ \E t \in Callers : Step(t)

Spec == Init /\ [][Next]_vars

-----------------------------------------------------------------------------

Definition == [id : Ids, load : Nat, index : Nat]
Identity == Ids \X (1..MaxFilters)
Settings == [value : Values \cup {Missing}, load : Nat, of : Identity]
Item == [parameters : Identity, settings : Settings]
Labels == {"idle", "define", "add", "filter", "bind", "set", "run"}

\* A definition of f: where the configuration it was parsed from has the flag.
IsDefinitionOf(d, f) ==
  /\ d \in Definition /\ d.load \in 1..loads
  /\ d.index \in 1..Len(history[d.load])
  /\ history[d.load][d.index].name = f

\* Every variable has the type its declaration says; a call past the look-up has
\* a definition of its own feature, and one that has bound has settings.
TypeOK ==
  /\ history \in Seq(Layouts) /\ raised \in 1..loads
  /\ evictions \in Nat
  /\ definitions \in [Flags -> Definition \cup {NoDefinition}]
  /\ \A f \in Flags : definitions[f] # NoDefinition => IsDefinitionOf(definitions[f], f)
  /\ cache \in [Flags -> [1..MaxFilters -> Item \cup {NoItem}]]
  /\ pc \in [Callers -> Labels]
  /\ flag \in [Callers -> Flags \cup {NoFlag}]
  /\ def \in [Callers -> Definition \cup {NoDefinition}]
  /\ at \in [Callers -> 1..MaxFilters + 1]
  /\ settings \in [Callers -> Settings \cup {NoSettings}]
  /\ \A t \in Callers :
       /\ pc[t] # "idle" => flag[t] \in Flags
       /\ pc[t] \in {"idle", "define"} => def[t] = NoDefinition
       /\ pc[t] \notin {"idle", "define"} => IsDefinitionOf(def[t], flag[t])
       /\ pc[t] = "set" => settings[t] \in Settings

\* A filter runs with settings bound from its own parameters and no others (the
\* test of line 707), at a time when its definition was already there, and they
\* are what these parameters held then, however many definitions of the feature
\* are in use at once and whoever overwrote the entry last.
OwnSettings ==
  \A t \in Callers : pc[t] = "run" /\ Filter(t).kind \in {"wrapper", "plain"} =>
    /\ settings[t].of = <<def[t].id, at[t]>>
    /\ settings[t].load \in def[t].load..loads
    /\ settings[t].value = Content(settings[t].load, def[t].index, at[t])

\* When the configuration has not been loaded since its definition was parsed, a
\* filter runs with what the configuration has for this feature and this filter:
\* ConfigurationWrapper's "cache busting based on the reference" leaves no entry
\* of an earlier load behind.
CurrentSettings ==
  \A t \in Callers :
    pc[t] = "run" /\ def[t].load = loads /\ Filter(t).kind # "unbound" =>
      settings[t].value =
        history[loads][IndexOf(history[loads], flag[t])].filters[at[t]].value

\* The settings are what some configuration since the definition was parsed has
\* for this feature and this filter.
OwnFeature ==
  \A t \in Callers : pc[t] = "run" /\ Filter(t).kind # "unbound" =>
    \E n \in def[t].load..loads :
      LET i == IndexOf(history[n], flag[t])
      IN  settings[t].value = Content(n, i, at[t])

\* Callers that bind at the same time, or for different definitions, overwrite
\* each other's entries, but not for ever: when reloads and evictions have
\* ended, every key comes to hold the settings of one definition.
CacheSettles == <>[][cache' = cache]_vars

=============================================================================
