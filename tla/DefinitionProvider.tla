------------------------- MODULE DefinitionProvider -------------------------
(***************************************************************************)
(* The cache of feature definitions kept by the singleton                  *)
(* ConfigurationFeatureDefinitionProvider in front of an IConfiguration    *)
(* that reloads, called by any number of threads without a lock.           *)
(*                                                                         *)
(* The content of the configuration is abstracted to its version: configs  *)
(* is the history of everything the configuration has ever held, and a     *)
(* definition remembers the version it was parsed from.  A section list    *)
(* (GetChildren) is represented by the version it was enumerated at: its   *)
(* keys are fixed from then on, and what its sections answer is read       *)
(* either live or from the dictionaries captured then.                     *)
(***************************************************************************)
EXTENDS Naturals, Sequences

CONSTANTS
  Features,         \* the feature names callers may ask for
  NoName,           \* the id of a flag that has none (or an empty one)
  Getters,          \* threads that call GetFeatureDefinitionAsync
  Enumerators,      \* threads that call GetAllFeatureDefinitionsAsync
  Configurations,   \* the contents a reload may bring
  MaxVersion        \* bound: the number of contents the configuration takes

ASSUME NameAssumption == NoName \notin Features
ASSUME BoundAssumption == MaxVersion \in Nat \ {0}
ASSUME ConfigurationAssumption ==
  \* ms: the ids of feature_management:feature_flags, by index; dn: the keys of
  \* the .NET schema section; bad: the features whose definition has a field that
  \* does not parse in the factory (a status, a requirement type, a telemetry flag).
  Configurations \subseteq [ms : Seq(Features \cup {NoName}),
                            dn : SUBSET Features,
                            bad : SUBSET Features]

Threads == Getters \cup Enumerators

VARIABLES
  configs,       \* the contents of the configuration so far; the last is live
  captured,      \* whether the sections of feature flags are captured; fixed
  raised,        \* the version of the last reload whose token has fired
  stale,         \* _stale
  initialized,   \* _initialized
  dnVer,         \* _dotnetFeatureDefinitionSections (0: null)
  msVer,         \* _microsoftFeatureDefinitionSections (0: null)
  definitions,   \* _definitions
  pc,            \* where each thread is
  job,           \* "get", or the list GetAllFeatureDefinitionsAsync is in
  phase,         \* who is storing sections: EnsureInit or the refresh
  held,          \* a section list computed and not yet stored
  feature,       \* featureName, the argument of the lookup
  sec,           \* the section list the factory searches
  pos,           \* how far that search has gone
  found,         \* the index of the last match (0: none)
  draft,         \* the definition about to be added or returned
  list,          \* the section list the foreach walks
  next,          \* its position
  dnLeft,        \* the keys the second foreach has still to visit
  listed,        \* the names yielded so far
  alone,         \* auxiliary: version a refresh no other call overlaps took up
  quiet,         \* auxiliary: the last refresh overlapped no other call
  floor,         \* auxiliary: version taken up by the last such refresh
  began          \* auxiliary: version at which an enumeration began

shared == <<stale, initialized, dnVer, msVer, definitions>>
config == <<configs, captured, raised>>
search == <<sec, pos, found>>
listing == <<list, next, dnLeft, listed, began>>
history == <<alone, quiet, floor>>
vars == <<config, shared, pc, job, phase, held, feature, search, draft,
          listing, history>>

-----------------------------------------------------------------------------

Latest == Len(configs)
Version == 0..MaxVersion

\* A faulty variant: sections are read live although merging is custom.
LiveAlways(v) == Latest

\* The version the fields of the flags enumerated at version v are read from.  They are
\* captured (OnDemandConfigurationProvider) with custom merging, when the configuration is a
\* root of ConfigurationProviders and of chained roots like it.  They are live with native
\* merging, and with custom merging of any other configuration.
Live(v) == IF captured THEN v ELSE Latest

\* section[Id] of the i-th flag of the list enumerated at version v.
IdAt(v, i) ==
  LET flags == configs[Live(v)].ms
  IN  IF i \in DOMAIN flags THEN flags[i] ELSE NoName

Entry == [schema : {"absent", "none", "ms", "dn", "error"},
          name : Features \cup {NoName},
          version : Version]

\* No key in the dictionary; a key whose definition is null is a "none" entry.
NoEntry == [schema |-> "absent", name |-> NoName, version |-> 0]

Least(a, b) == IF a <= b THEN a ELSE b

OthersIdle(t) == \A u \in Threads \ {t} : pc[u] = "idle"

Goto(t, label) == pc' = [pc EXCEPT ![t] = label]

\* A call ends: its locals are gone.
Leave(t) ==
  /\ Goto(t, "idle")
  /\ job' = [job EXCEPT ![t] = "get"]
  /\ phase' = [phase EXCEPT ![t] = "init"]
  /\ held' = [held EXCEPT ![t] = 0]
  /\ feature' = [feature EXCEPT ![t] = NoName]
  /\ sec' = [sec EXCEPT ![t] = 0]
  /\ pos' = [pos EXCEPT ![t] = 0]
  /\ found' = [found EXCEPT ![t] = 0]
  /\ draft' = [draft EXCEPT ![t] = NoEntry]
  /\ list' = [list EXCEPT ![t] = 0]
  /\ next' = [next EXCEPT ![t] = 0]
  /\ dnLeft' = [dnLeft EXCEPT ![t] = {}]
  /\ listed' = [listed EXCEPT ![t] = {}]
  /\ began' = [began EXCEPT ![t] = 0]

-----------------------------------------------------------------------------

Init ==
  /\ \E c \in Configurations : configs = <<c>>
  /\ captured \in BOOLEAN
  /\ raised = 1
  /\ stale = FALSE
  /\ initialized = FALSE
  /\ dnVer = 0
  /\ msVer = 0
  /\ definitions = [f \in Features |-> NoEntry]
  /\ pc = [t \in Threads |-> "idle"]
  /\ job = [t \in Threads |-> "get"]
  /\ phase = [t \in Threads |-> "init"]
  /\ held = [t \in Threads |-> 0]
  /\ feature = [t \in Threads |-> NoName]
  /\ sec = [t \in Threads |-> 0]
  /\ pos = [t \in Threads |-> 0]
  /\ found = [t \in Threads |-> 0]
  /\ draft = [t \in Threads |-> NoEntry]
  /\ list = [t \in Threads |-> 0]
  /\ next = [t \in Threads |-> 0]
  /\ dnLeft = [t \in Threads |-> {}]
  /\ listed = [t \in Threads |-> {}]
  /\ began = [t \in Threads |-> 0]
  /\ alone = 0
  /\ quiet = TRUE
  /\ floor = 1

-----------------------------------------------------------------------------
(* The configuration: a provider replaces its data, then fires its token.  *)

Load ==
  /\ raised = Latest
  /\ Latest < MaxVersion
  /\ \E c \in Configurations : configs' = Append(configs, c)
  /\ UNCHANGED <<captured, raised, shared, pc, job, phase, held, feature, search,
                 draft, listing, history>>

\* The ChangeToken.OnChange callback of the constructor.
RaiseChanged ==
  /\ raised < Latest
  /\ raised' = Latest
  /\ stale' = TRUE
  /\ UNCHANGED <<configs, captured, initialized, dnVer, msVer, definitions, pc,
                 job, phase, held, feature, search, draft, listing, history>>

-----------------------------------------------------------------------------
(* A call begins.                                                          *)

Enter(t) ==
  /\ pc[t] = "idle"
  /\ Goto(t, "init")
  /\ alone' = IF OthersIdle(t) THEN alone ELSE 0
  /\ UNCHANGED <<config, shared, phase, held, search, draft, list, next,
                 dnLeft, listed, quiet, floor>>

StartGet(t, f) ==
  /\ t \in Getters
  /\ Enter(t)
  /\ feature' = [feature EXCEPT ![t] = f]
  /\ UNCHANGED <<job, began>>

StartAll(t) ==
  /\ t \in Enumerators
  /\ Enter(t)
  /\ job' = [job EXCEPT ![t] = "ms"]
  /\ began' = [began EXCEPT ![t] = IF raised = Latest THEN Latest ELSE 0]
  /\ UNCHANGED feature

-----------------------------------------------------------------------------
(* EnsureInit, the exchange of _stale and the refresh.                     *)

\* A faulty variant: _initialized is set before the sections are there.
EnsureInitEarly(t) ==
  /\ pc[t] = "init"
  /\ Goto(t, IF initialized THEN "exchange" ELSE "readDn")
  /\ initialized' = TRUE
  /\ UNCHANGED <<config, stale, dnVer, msVer, definitions, job, phase, held,
                 feature, search, draft, listing, history>>

\* A variant with a lock: one thread initialises, the others wait for it.
EnsureInitLocked(t) ==
  /\ pc[t] = "init"
  /\ \A u \in Threads :
       pc[u] \notin {"readDn", "storeDn", "readMs", "storeMs", "markInit"}
  /\ Goto(t, IF initialized THEN "exchange" ELSE "readDn")
  /\ UNCHANGED <<config, shared, job, phase, held, feature, search, draft,
                 listing, history>>

EnsureInit(t) ==
  /\ pc[t] = "init"
  /\ Goto(t, IF initialized THEN "exchange" ELSE "readDn")
  /\ phase' = [phase EXCEPT ![t] = "init"]
  /\ UNCHANGED <<config, shared, job, held, feature, search, draft, listing,
                 history>>

\* The right-hand side of an assignment to one of the section fields.
ReadSections(t) ==
  /\ \/ pc[t] = "readDn" /\ Goto(t, "storeDn")
     \/ pc[t] = "readMs" /\ Goto(t, "storeMs")
  /\ held' = [held EXCEPT ![t] = Latest]
  /\ UNCHANGED <<config, shared, job, phase, feature, search, draft, listing,
                 history>>

StoreDn(t) ==
  /\ pc[t] = "storeDn"
  /\ dnVer' = held[t]
  /\ Goto(t, "readMs")
  /\ UNCHANGED <<config, stale, initialized, msVer, definitions, job, phase,
                 held, feature, search, draft, listing, history>>

StoreMs(t) ==
  /\ pc[t] = "storeMs"
  /\ msVer' = held[t]
  /\ Goto(t, IF phase[t] = "init" THEN "markInit" ELSE "clear")
  /\ UNCHANGED <<config, stale, initialized, dnVer, definitions, job, phase,
                 held, feature, search, draft, listing, history>>

MarkInit(t) ==
  /\ pc[t] = "markInit"
  /\ initialized' = TRUE
  /\ Goto(t, "exchange")
  /\ UNCHANGED <<config, stale, dnVer, msVer, definitions, job, phase, held,
                 feature, search, draft, listing, history>>

\* What follows the refresh: the lookup, or the first foreach.
Body(t) == IF job[t] = "get" THEN "tryGet" ELSE "openMs"

\* Interlocked.Exchange(ref _stale, 0)
ExchangeStale(t) ==
  /\ pc[t] = "exchange"
  /\ stale' = FALSE
  /\ IF stale
     THEN /\ Goto(t, "readDn")
          /\ phase' = [phase EXCEPT ![t] = "refresh"]
          /\ alone' = IF OthersIdle(t) THEN raised ELSE 0
     ELSE /\ Goto(t, Body(t))
          /\ UNCHANGED <<phase, alone>>
  /\ UNCHANGED <<config, initialized, dnVer, msVer, definitions, job, held,
                 feature, search, draft, listing, quiet, floor>>

\* A faulty variant: the dictionary keeps its entries.
ClearNothing(t) ==
  /\ pc[t] = "clear"
  /\ Goto(t, Body(t))
  /\ quiet' = (alone # 0)
  /\ floor' = IF alone # 0 THEN alone ELSE floor
  /\ alone' = 0
  /\ UNCHANGED <<config, shared, job, phase, held, feature, search, draft,
                 listing>>

\* A faulty variant: _stale is reset once the refresh is done.
ClearAndReset(t) ==
  /\ pc[t] = "clear"
  /\ definitions' = [f \in Features |-> NoEntry]
  /\ stale' = FALSE
  /\ Goto(t, Body(t))
  /\ quiet' = (alone # 0)
  /\ floor' = IF alone # 0 THEN alone ELSE floor
  /\ alone' = 0
  /\ UNCHANGED <<config, initialized, dnVer, msVer, job, phase, held, feature,
                 search, draft, listing>>

Clear(t) ==
  /\ pc[t] = "clear"
  /\ definitions' = [f \in Features |-> NoEntry]
  /\ Goto(t, Body(t))
  /\ quiet' = (alone # 0)
  /\ floor' = IF alone # 0 THEN alone ELSE floor
  /\ alone' = 0
  /\ UNCHANGED <<config, stale, initialized, dnVer, msVer, job, phase, held,
                 feature, search, draft, listing>>

-----------------------------------------------------------------------------
(* _definitions.GetOrAdd(featureName, _getFeatureDefinitionFunc): the value *)
(* factory runs outside the dictionary's locks.                            *)

TryGet(t) ==
  /\ pc[t] = "tryGet"
  /\ IF definitions[feature[t]] = NoEntry
     THEN Goto(t, "openScan") /\ UNCHANGED draft
     ELSE /\ Goto(t, "return")
          /\ draft' = [draft EXCEPT ![t] = definitions[feature[t]]]
  /\ UNCHANGED <<config, shared, job, phase, held, feature, search, listing,
                 history>>

\* LastOrDefault over _microsoftFeatureDefinitionSections: the field is read,
\* then the id of each section in turn.
OpenScan(t) ==
  /\ pc[t] = "openScan"
  /\ sec' = [sec EXCEPT ![t] = msVer]
  /\ pos' = [pos EXCEPT ![t] = 1]
  /\ found' = [found EXCEPT ![t] = 0]
  /\ Goto(t, "scan")
  /\ UNCHANGED <<config, shared, job, phase, held, feature, draft, listing,
                 history>>

ScanMs(t) ==
  /\ pc[t] = "scan"
  /\ pos[t] <= Len(configs[sec[t]].ms)
  /\ found' = IF IdAt(sec[t], pos[t]) = feature[t]
              THEN [found EXCEPT ![t] = pos[t]] ELSE found
  /\ pos' = [pos EXCEPT ![t] = pos[t] + 1]
  /\ UNCHANGED <<config, shared, pc, job, phase, held, feature, sec, draft,
                 listing, history>>

EndScan(t) ==
  /\ pc[t] = "scan"
  /\ pos[t] > Len(configs[sec[t]].ms)
  /\ Goto(t, IF found[t] = 0 THEN "findDn" ELSE "parseMs")
  /\ UNCHANGED <<config, shared, job, phase, held, feature, search, draft,
                 listing, history>>

\* A faulty variant: a definition that does not parse is cached like any other.
ParsedAnyhow(t, schema, name, version, fails) ==
  /\ draft' = [draft EXCEPT ![t] =
                 [schema |-> IF fails THEN "error" ELSE schema,
                  name |-> name, version |-> version]]
  /\ Goto(t, "tryAdd")

\* A definition that parses goes to TryAdd; one that does not makes the factory,
\* and with it GetOrAdd and the call, throw, and nothing is added.
Parsed(t, schema, name, version, fails) ==
  /\ draft' = [draft EXCEPT ![t] =
                 [schema |-> IF fails THEN "error" ELSE schema,
                  name |-> name, version |-> version]]
  /\ Goto(t, IF fails THEN "return" ELSE "tryAdd")

\* ParseMicrosoftSchemaFeatureDefinition reads the id again.
ParseMs(t) ==
  /\ pc[t] = "parseMs"
  /\ LET name == IdAt(sec[t], found[t])
     IN  Parsed(t, "ms", name, Live(sec[t]), name \in configs[Live(sec[t])].bad)
  /\ UNCHANGED <<config, shared, job, phase, held, feature, search, listing,
                 history>>

\* FirstOrDefault over the keys of _dotnetFeatureDefinitionSections.
FindDn(t) ==
  /\ pc[t] = "findDn"
  /\ IF feature[t] \in configs[dnVer].dn
     THEN Goto(t, "parseDn") /\ UNCHANGED draft
     ELSE Parsed(t, "none", feature[t], Least(sec[t], dnVer), FALSE)
  /\ UNCHANGED <<config, shared, job, phase, held, feature, search, listing,
                 history>>

\* ParseDotnetSchemaFeatureDefinition reads the live configuration; a key that
\* is gone by now makes an empty definition, not a null one.
ParseDn(t) ==
  /\ pc[t] = "parseDn"
  /\ Parsed(t, "dn", feature[t], Latest,
            feature[t] \in configs[Latest].dn \cap configs[Latest].bad)
  /\ UNCHANGED <<config, shared, job, phase, held, feature, search, listing,
                 history>>

\* The dictionary keeps the entry it has, and GetOrAdd returns that one.
TryAdd(t) ==
  /\ pc[t] = "tryAdd"
  /\ IF definitions[feature[t]] = NoEntry
     THEN /\ definitions' = [definitions EXCEPT ![feature[t]] = draft[t]]
          /\ UNCHANGED draft
     ELSE /\ draft' = [draft EXCEPT ![t] = definitions[feature[t]]]
          /\ UNCHANGED definitions
  /\ Goto(t, "return")
  /\ UNCHANGED <<config, stale, initialized, dnVer, msVer, job, phase, held,
                 feature, search, listing, history>>

\* GetFeatureDefinitionAsync returns, or throws what the factory threw.
ReturnGet(t) ==
  /\ pc[t] = "return"
  /\ job[t] = "get"
  /\ Leave(t)
  /\ UNCHANGED <<config, shared, history>>

-----------------------------------------------------------------------------
(* GetAllFeatureDefinitionsAsync: the Microsoft schema list, then the .NET *)
(* schema list, each captured when its foreach starts.                     *)

OpenMs(t) ==
  /\ pc[t] = "openMs"
  /\ list' = [list EXCEPT ![t] = msVer]
  /\ next' = [next EXCEPT ![t] = 1]
  /\ Goto(t, "nextMs")
  /\ UNCHANGED <<config, shared, job, phase, held, feature, search, draft,
                 dnLeft, listed, began, history>>

\* A faulty variant: a flag without id ends the list instead of being skipped.
NextMsBreak(t) ==
  /\ pc[t] = "nextMs"
  /\ next[t] <= Len(configs[list[t]].ms)
  /\ LET id == IdAt(list[t], next[t])
     IN  IF id = NoName
         THEN /\ next' = [next EXCEPT ![t] = Len(configs[list[t]].ms) + 1]
              /\ UNCHANGED <<pc, feature>>
         ELSE /\ next' = [next EXCEPT ![t] = next[t] + 1]
              /\ feature' = [feature EXCEPT ![t] = id]
              /\ Goto(t, "tryGet")
  /\ UNCHANGED <<config, shared, job, phase, held, search, draft, list,
                 dnLeft, listed, began, history>>

NextMs(t) ==
  /\ pc[t] = "nextMs"
  /\ next[t] <= Len(configs[list[t]].ms)
  /\ next' = [next EXCEPT ![t] = next[t] + 1]
  /\ LET id == IdAt(list[t], next[t])
     IN  IF id = NoName
         THEN UNCHANGED <<pc, feature>>
         ELSE /\ feature' = [feature EXCEPT ![t] = id]
              /\ Goto(t, "tryGet")
  /\ UNCHANGED <<config, shared, job, phase, held, search, draft, list,
                 dnLeft, listed, began, history>>

OpenDn(t) ==
  /\ pc[t] = "nextMs"
  /\ next[t] > Len(configs[list[t]].ms)
  /\ dnLeft' = [dnLeft EXCEPT ![t] = configs[dnVer].dn]
  /\ job' = [job EXCEPT ![t] = "dn"]
  /\ Goto(t, "nextDn")
  /\ UNCHANGED <<config, shared, phase, held, feature, search, draft, list,
                 next, listed, began, history>>

NextDn(t) ==
  /\ pc[t] = "nextDn"
  /\ \E f \in dnLeft[t] :
       /\ feature' = [feature EXCEPT ![t] = f]
       /\ dnLeft' = [dnLeft EXCEPT ![t] = dnLeft[t] \ {f}]
  /\ Goto(t, "tryGet")
  /\ UNCHANGED <<config, shared, job, phase, held, search, draft, list, next,
                 listed, began, history>>

\* A null definition is skipped, any other is yielded.
Yield(t) ==
  /\ pc[t] = "return"
  /\ job[t] # "get"
  /\ draft[t].schema # "error"
  /\ Goto(t, IF job[t] = "ms" THEN "nextMs" ELSE "nextDn")
  /\ listed' = IF draft[t].schema = "none" THEN listed
               ELSE [listed EXCEPT ![t] = @ \cup {draft[t].name}]
  /\ UNCHANGED <<config, shared, job, phase, held, feature, search, draft,
                 list, next, dnLeft, began, history>>

\* A definition that does not parse ends the enumeration with its exception.
FailAll(t) ==
  /\ pc[t] = "return"
  /\ job[t] # "get"
  /\ draft[t].schema = "error"
  /\ Leave(t)
  /\ UNCHANGED <<config, shared, history>>

EndAll(t) ==
  /\ pc[t] = "nextDn"
  /\ dnLeft[t] = {}
  /\ Leave(t)
  /\ UNCHANGED <<config, shared, history>>

-----------------------------------------------------------------------------

\* The steps of a call once it has begun.
Step(t) ==
  \/ EnsureInit(t)
  \/ ReadSections(t)
  \/ StoreDn(t)
  \/ StoreMs(t)
  \/ MarkInit(t)
  \/ ExchangeStale(t)
  \/ Clear(t)
  \/ TryGet(t)
  \/ OpenScan(t)
  \/ ScanMs(t)
  \/ EndScan(t)
  \/ ParseMs(t)
  \/ FindDn(t)
  \/ ParseDn(t)
  \/ TryAdd(t)
  \/ ReturnGet(t)
  \/ OpenMs(t)
  \/ NextMs(t)
  \/ OpenDn(t)
  \/ NextDn(t)
  \/ Yield(t)
  \/ FailAll(t)
  \/ EndAll(t)

Next ==
  \/ Load
  \/ RaiseChanged
  \/ \E t \in Threads :
       \/ \E f \in Features : StartGet(t, f)
       \/ StartAll(t)
       \/ Step(t)

Spec == Init /\ [][Next]_vars

-----------------------------------------------------------------------------
(* Type correctness.  The dictionary never holds a definition that failed to *)
(* parse: the factory throws before there is anything to add.              *)

Labels == {"idle", "init", "readDn", "storeDn", "readMs", "storeMs",
           "markInit", "exchange", "clear", "tryGet", "openScan", "scan",
           "parseMs", "findDn", "parseDn", "tryAdd", "return", "openMs",
           "nextMs", "nextDn"}

ConfigTypes ==
  /\ configs \in Seq(Configurations)
  /\ Len(configs) \in 1..MaxVersion
  /\ captured \in BOOLEAN
  /\ raised \in Version

CacheTypes ==
  /\ stale \in BOOLEAN
  /\ initialized \in BOOLEAN
  /\ dnVer \in Version
  /\ msVer \in Version
  /\ definitions \in [Features -> {e \in Entry : e.schema # "error"}]

CallTypes ==
  /\ pc \in [Threads -> Labels]
  /\ job \in [Threads -> {"get", "ms", "dn"}]
  /\ phase \in [Threads -> {"init", "refresh"}]
  /\ held \in [Threads -> Version]
  /\ feature \in [Threads -> Features \cup {NoName}]

SearchTypes ==
  /\ sec \in [Threads -> Version]
  /\ pos \in [Threads -> Nat]
  /\ found \in [Threads -> Nat]

DraftTypes == draft \in [Threads -> Entry]

ListTypes ==
  /\ list \in [Threads -> Version]
  /\ next \in [Threads -> Nat]
  /\ dnLeft \in [Threads -> SUBSET Features]
  /\ listed \in [Threads -> SUBSET (Features \cup {NoName})]
  /\ began \in [Threads -> Version]

HistoryTypes ==
  /\ alone \in Version
  /\ quiet \in BOOLEAN
  /\ floor \in Version

\* Every variable has the type its declaration says, and no entry of
\* _definitions is a definition whose parse failed.
TypeOK ==
  /\ ConfigTypes
  /\ CacheTypes
  /\ CallTypes
  /\ SearchTypes
  /\ DraftTypes
  /\ ListTypes
  /\ HistoryTypes

-----------------------------------------------------------------------------
(* Safety.                                                                 *)

InitLabels == {"idle", "init", "readDn", "storeDn", "readMs", "storeMs", "markInit"}

\* No thread that is past EnsureInit, and none that comes later, finds a
\* section field null, however many threads initialise at the same time.
SectionsReady ==
  /\ initialized => dnVer > 0 /\ msVer > 0
  /\ \A t \in Threads :
       pc[t] \notin InitLabels => dnVer > 0 /\ msVer > 0

\* What a thread is about to hand to the dictionary or to its caller.
Answering(t) == pc[t] \in {"tryAdd", "return"}

\* Once a refresh has run while no other call was in progress, nothing older
\* than the reload it took up is cached, stored as sections, about to be added
\* or about to be returned: no call brings back what that refresh threw away.
QuietRefreshHolds ==
  /\ \A f \in Features :
       definitions[f] # NoEntry => definitions[f].version >= floor
  /\ \A t \in Threads : Answering(t) => draft[t].version >= floor
  /\ initialized => dnVer >= floor /\ msVer >= floor

\* Between taking up a reload and clearing the dictionary.
Refreshing(t) ==
  /\ phase[t] = "refresh"
  /\ pc[t] \in {"readDn", "storeDn", "readMs", "storeMs", "clear"}

\* A reload whose token has fired is either still flagged in _stale, or being
\* taken up, or taken up: it gets lost only when its refresh overlaps a call.
ReloadNotLost ==
  (~stale /\ quiet /\ \A t \in Threads : ~Refreshing(t)) => floor = raised

\* The definition cached or returned for a name is the definition of that name.
OwnDefinition ==
  /\ \A f \in Features : definitions[f] # NoEntry => definitions[f].name = f
  /\ \A t \in Threads : Answering(t) => draft[t].name = feature[t]

\* Captured sections keep the promise of GetFeatureDefinitionAsync across reloads: the flag
\* that was found is the flag that is parsed, cached and returned.
CapturedOwnDefinition == captured => OwnDefinition

Flags(c) == {c.ms[i] : i \in DOMAIN c.ms}

\* The feature was at index i of the list of flags in every configuration so far.
AlwaysAt(f, i) ==
  \A v \in DOMAIN configs : i \in DOMAIN configs[v].ms /\ configs[v].ms[i] = f

\* Every configuration so far defines the feature in the same schema, and where flags are
\* read live it never moved.
AlwaysDefined(f) ==
  \/ captured /\ \A v \in DOMAIN configs : f \in Flags(configs[v])
  \/ \E i \in DOMAIN configs[1].ms : AlwaysAt(f, i)
  \/ \A v \in DOMAIN configs : f \in configs[v].dn

\* Such a feature is never reported as unknown, neither by the search nor by the cache,
\* whatever reloads and refreshes of other threads the look-up overlaps.
AlwaysDefinedIsFound ==
  \A t \in Threads :
    pc[t] = "return" /\ AlwaysDefined(feature[t]) => draft[t].schema # "none"

\* An enumeration that no other call and no reload overlaps, begun with every
\* reload notified, yields exactly the features of the configuration.
ListsEverything ==
  \A t \in Threads :
    pc[t] = "nextDn" /\ dnLeft[t] = {} /\ began[t] = Latest
      => listed[t] = (Flags(configs[Latest]) \ {NoName}) \cup configs[Latest].dn

\* When no call is in progress and every reload has been notified and taken
\* up, every cached definition is that of the latest configuration.
LatestWhenIdle ==
  (~stale /\ raised = Latest /\ \A t \in Threads : pc[t] = "idle")
    => \A f \in Features :
         definitions[f] # NoEntry => definitions[f].version = Latest

=============================================================================
