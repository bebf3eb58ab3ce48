# Verification of the feature management library

TLA+ models of `src/src/Microsoft.FeatureManagement`, the configurations that check
them with TLC, and theorems about them that TLAPS proves for every value of the
constants. Paths below are relative to `src/src/Microsoft.FeatureManagement` unless
they begin otherwise.

## 1. Inventory

The library answers two questions of an application: is a feature enabled, and which
variant of it is assigned. It has no threads of its own. What makes it hard is that
one singleton is called by every thread of a web server, that its configuration
reloads underneath it, that its operations give way at every `await`, and that
seven caches hold answers of different age: definitions, bound settings, filter
metadata, closest windows, resolved services, the answers of a request and its user.

| component | state | operations | interacts with |
|---|---|---|---|
| `ConfigurationFeatureDefinitionProvider` (singleton) | `_definitions`, the two lists of sections, `_initialized`, `_stale` | `GetFeatureDefinitionAsync`, `GetAllFeatureDefinitionsAsync`, the reload callback | the `IConfiguration`, whose data is replaced first and whose token fires afterwards |
| `FeatureManager` (singleton or scoped) | caches of filter metadata and of bound settings; otherwise the locals of a call | `IsEnabledAsync`, `GetVariantAsync`, `GetFeatureNamesAsync` | definition provider, filters, session managers, targeting context accessor, telemetry |
| `FeatureManagerSnapshot` (one per request) | `_flagCache`, `_variantCache`, `_featureNames` | the same, remembered | `FeatureManager` |
| `TimeWindowFilter` with `RecurrenceEvaluator` and `RecurrenceValidator` | one cached closest start per settings object | `BindParameters`, `EvaluateAsync` | clock, memory cache |
| `TargetingEvaluator` with the targeting filters | none | `IsTargeted`, `TryValidateSettings` | targeting contexts, SHA-256 |
| `PercentageFilter` | a random generator per thread | `EvaluateAsync` | |
| `VariantServiceProvider` | services resolved per variant name | `GetServiceAsync` | `FeatureManager` twice per call, the container |
| gates of `Microsoft.FeatureManagement.AspNetCore` | none | attribute, endpoint filter, action filter, tag helper, `UseForFeature` | the snapshot, for several features in turn |
| `DefaultHttpTargetingContextAccessor`, `TargetingHttpContextMiddleware` | the context in `HttpContext.Items` | `GetContextAsync`, `InvokeAsync` | authentication, which sets the user |
| telemetry, in the core and for Application Insights | an activity listener | `Publish`, `HandleFeatureFlagEvent` | the ambient activity |
| registration (`ServiceCollectionExtensions`, builders) | the container | run once at start | |

What makes them correct, and what is hard about it:

* **Definition provider.** No thread sees null sections; the definition of a name is
  that name's; a defined feature is found and listed whatever reloads; a reload is
  neither lost nor undone; a thread that stops blocks nobody. There is no lock:
  the refresh is an exchange of a flag followed by three separate writes, and the
  dictionary's factory runs outside its locks.
* **Snapshot.** Within a request a flag has one answer, and what is cached stays.
  Callers of one request overlap, and evaluations fail.
* **FeatureManager.** The state is the one the requirement type asks for, the variant
  the one the allocation asks for in its order of precedence, and the session keeps
  one state in all its managers. Definitions reload and calls fail between the steps, the
  rules of an allocation are read one by one while they are tried, and a feature may be
  asked for by any spelling of its name.
* **Time window.** A call answers for a time at which it ran, the cached window is
  never one too far, and the arithmetic of weeks, first days and occurrences agrees
  with what a recurrence means.
* **Targeting.** Ramping up takes the feature from nobody, 100 percent is everybody,
  case does not matter where the comparison and the server's culture agree on it, adjacent
  shares neither overlap nor leave a gap.
* **Settings cache.** A filter runs with settings bound from its own parameters, although
  the key is the feature's name and an index, definitions of several loads are in use at
  once, and the parameters are read when they are bound.
* **Variant services.** One instance per name is given out, and it is the one promised for
  what the call's own evaluations answered; the variant and the state are two evaluations.
* **Gates and the user of a request.** The gates of one request decide alike, and for one
  user, though each stops at a feature of its own, any definition is handed out, sessions
  hold any state and authentication may come late.

## 2. Plan

Modules, in the order of the importance of what they show:

1. `DefinitionProvider`, `DefinitionProviderProofs`
2. `RequestSnapshot` (abstract), `FeatureSnapshot`, `FeatureSnapshotProofs`
3. `FeatureEvaluation`, `FeatureEvaluationProofs`
4. `Recurrence`, `TimeWindow`, `TimeWindowProofs`
5. `Targeting`, `TargetingProofs`
6. `SettingsCache`, `SettingsCacheProofs`
7. `VariantService`, `VariantServiceProofs`
8. `FeatureGate`, `FeatureGateProofs`, with the targeting context of the request

All of them are done. Left, in the order of what they would add:

* the provider as an abstract specification, "some version between the beginning and the
  end of a call", which it implements only while refreshes do not overlap calls;
* telemetry: which activity an event is attached to.

## 3. The modules

### DefinitionProvider

One variable per field (`stale`, `initialized`, `dnVer`, `msVer`, `definitions`) and
one function per local of a call; `pc` is where a thread is. A thread may be
interrupted between any two accesses of shared state. `EnsureInit` and the refresh are
`ReadSections`, `StoreDn`, `StoreMs`, `MarkInit`, `ExchangeStale`, `Clear`; the lookup
is `GetOrAdd` with its factory running in between, as the two searches over the
schemas; the enumeration walks both lists and looks each name up. `Load` replaces the
configuration and `RaiseChanged` fires the token, in that order.

Abstractions: the content of a definition is the version of the configuration it was
parsed from, and one parse reads one version; a reload replaces everything at once;
the name of a feature has one spelling; the fallback to the root of the configuration
is part of the set of .NET schema keys; an enumeration is walked to its end; writes
are seen in program order, `_initialized` included.

Sections of feature flags are read live or captured (`Live`), which `captured` fixes at the
start. They are captured with custom merging, when the configuration is an
`IConfigurationRoot` of `ConfigurationProvider`s and of chained roots like it: then they are
read from the dictionary taken when they were enumerated, which a provider replaces when it
loads and does not change. They are live with native merging, and with custom merging of any
other configuration (lines 258-272). Lists that mix captured and live flags are left out. A
parse throws for a status, a requirement type or a telemetry flag; a bad percentile throws
only when the rules of an allocation are read, which is `Fail` in `FeatureEvaluation`.

### FeatureSnapshot and RequestSnapshot

`owner` is `_flagCache`: not a value but whose running evaluation it is. `FlagMiss`
starts an evaluation, `FlagAdd` adds it or takes the one that was added first;
`Finish` is the feature manager, which returns anything or fails. `VariantCheck`,
`VariantStore` and the names have a check, an await and an overwrite, as in the code.
`RequestSnapshot` is what a request is promised: a flag is decided once, and everybody
is told that. The overloads are merged, since the key of the cache is the feature's
name alone: neither the context nor the cancellation token is part of it. That cache is
case-sensitive: what is said of a flag is said of each spelling of its name.

### FeatureEvaluation

`EvaluateFeature` of one feature in one session, an action for each piece between two
awaits: the definition, each session manager (`ReadMiss`, `ReadHit`), each filter
(`AlwaysOn`, `Skip`, `Missing`, `EvaluateContextual`, `EvaluatePlain`), the target of the
variant (`DetermineVariant`), each rule of the allocation (`TryRule`, `NextKind`), the
override, and the store in each session manager. `Fail` may happen wherever the code calls
out. `Reload` changes the definition and `Forget` ends a session at any time.

The provider fixes how many users, groups and percentiles an allocation lists when it parses
a definition, but what each of them says is a deferred select over its section: it is read
when the evaluation comes to it, from the configuration in force, or from the copy if the
definition is `captured`. A rule that is gone by then has no users or groups, which throws,
or no percentiles, which applies to nobody. `during` records what the sections held while a
variant was determined.

Session managers keep a state per spelling. A state is read under the name that the
definition has (`Key`, line 400) and stored under the name that the caller gave (line 385),
while definitions are found whatever the case.

Abstractions: filters answer anything; the targeting of an allocation rule is the set
of users it applies to (`Targeting` says which), and one rule is read at once; features that
change place are in `DefinitionProvider`; binding settings is part of the filter and its
failure is `Fail` (`SettingsCache` has the binding); the cache of filter metadata is
transparent, since the registry never changes; telemetry is left out. `fresh` and `seen`
record whether a state was computed and what the filters said, `answer` what the caller was
told.

### Recurrence and TimeWindow

`Recurrence` has the validator (`TryValidateSettings` and what it calls) and the
evaluator (`IsMatch`, `CalculateClosestStart` and what they call) as operators, and the
definition they are checked against: `Occurrences`, the set of starts that a pattern
gives. Times are numbered from the midnight before the first start, in half days
(`Day` is 2), in one time zone. `TimeWindow` has the calls of the filter for one
settings object: the first reading of the clock, the look-up, the recalculation with a
second reading, the store, the answer; the clock moves and the memory cache evicts
whenever they like.

### Targeting

The operators of `TargetingEvaluator`, for an arbitrary function in place of SHA-256.
Case has two meanings in it: names are compared by `OrdinalIgnoreCase` (`Fold`), and hashed,
or looked up as a group of the context, as `ToLower` of the server's culture makes them
(`lower`, one of `Cultures`); on a Turkish server the two differ. The actions are edits
that an operator makes to widen an audience, to exclude somebody, or to split a share of a
percentile allocation. Settings bound from the configuration are evaluated only if they are
valid (`validated`, `Valid`: `BindParameters` validates them); settings that a definition
provider gives as an object (`ParametersObject`, FeatureManager.cs:502) are never validated.
A hash is a number of 0..`Full`, a percentage any number (`Amount`); NaN is none of them.

### SettingsCache

`BindSettings` for the filters of a definition in turn (`Supplied`, `Unbound`,
`BindUncached`, `CacheHit`, `CacheMiss`, `Bind`, `CacheSet`), with what it depends on: the
provider that parses a definition under the index its flag has (`DefineMiss`,
`DefineAdd`), the configuration that is loaded and then notified (`Load`, `Raise`), and the
memory cache (`Evict`). The identity of a parameters object is the identity of the
definition it belongs to and the index of the filter; objects that something still refers
to are not given again (`Held`, external: the garbage collector). `Live` says whether a
`ConfigurationWrapper` reads the configuration in force or a captured copy. Binding reads
everything at once: an object bound half from one load, half from the next is left out.

### VariantService

A call of `GetServiceAsync`: the first evaluation (`Assign`), the dictionary (`LookHit`,
`LookMiss`), the factory, which runs outside the dictionary's locks (`Resolve`), the entry
that the first to add wins (`Add`), and the second evaluation for the fallback (`Status`,
`NoFallback`). Each evaluation answers anything: between them the configuration may be
reloaded, a window may open, a session manager may hold another state. `Fail` comes wherever
the call calls out. The aliases, keys and the case of names are those of the registrations
(`Setups`). `AnswerAgrees` takes for the promise the fallback type itself, and is about
registrations of which each fallback is what its name resolves to (`FallbacksResolve`);
without that condition it is `FallbackIsTheType`, which the code does not keep.

### FeatureGate

One HTTP request. `Enter` begins a gate: an attribute, an endpoint filter, a filter that
runs with a feature, a branch of the pipeline or a tag; they differ in `Declared` alone.
A gate asks the snapshot for one feature or variant after the other and stops where the
code does (`Take`). `FlagMiss` to `VariantFault` are the snapshot, which is that of
`RequestSnapshot` for one gate at a time. An evaluation takes whichever definition the
provider hands out: the latest, an older one, or another feature's (`Rules`, for the two
violations of the provider below), and whatever state a session manager may hold for the
feature (`Session`), which another user's evaluation may have stored there; the outcome is
that definition's for the state and the user. `Evaluate` makes the context of the user at
its first use and keeps it in `item`. `Authenticate` changes the user and `AddBaggage` is the
middleware, at any time between gates. `flagFor` and `variantFor` record what the evaluation
that was settled has for each user; a flag and the variant of the same feature are evaluated,
and explained, apart. A feature has the one name that the gates give it.

## 4. What the runs check

| run | bounds | shows |
|---|---|---|
| `provider_calls` | two threads, one of which enumerates too, 1 feature that moves between the schemas and may not parse, 1 reload, live sections; or one thread, 2 features, 4 lists with missing, repeated, moved and bad flags, 1 reload with live sections and 2 with captured ones | `SectionsReady`, `QuietRefreshHolds`: what a refresh that overlapped no call threw away never comes back. `CapturedOwnDefinition`, `AlwaysDefinedIsFound`, `OneThreadListsEverything`, `ReloadNotLost`, `CallEnds` |
| `provider_reordered` | 1 thread, 1 reload, live or captured sections | **violated**: `OwnDefinition` |
| `provider_stale_forever` | 2 threads, 1 feature, 1 reload | **violated**: `LatestWhenIdle` |
| `snapshot_calls` | 2 callers, 1 feature, 2 outcomes and a failure | `FlagsAreSnapshot` (refinement), `CachesSettle`, `CallersAnswered` |
| `snapshot_concurrent` | 2 callers | **violated**: `VariantsRepeat` |
| `evaluation_calls` | 1 caller, 2 spellings of the name, 2 session managers, 7 registered filters; lists of up to 2 filters, evaluated by one spelling without a reload; 4 allocations, one with two rules of a kind, captured and live, with 1 reload | `VerdictMatchesRequirement`, `VariantPrecedence`, `DisabledIsDisabled`, `SessionManagersAgree`, `SessionKeepsState` |
| `evaluation_skipped` | the same | **violated**: `AllMeansAll` |
| `window_calls` | 1470 valid recurrences over 31 days in half days; calls by 2 threads in the first three and a half days for 7 settings whose windows do not touch | `IsMatchIsRight`, `ClosestStartIsRight`, `WindowsDoNotOverlap`, `AnswersAreRight`, `CacheSkipsNothing` |
| `targeting_audience` | 3 names of users and 2 of a group, 2 cultures, 3 hash functions, at most 2 rollouts and 3 entries, `Full` = 2, percentages of -1..3, validated or not | `RampUpKeeps`, `FullIsEverybody`, `CaseDoesNotMatter`, `OneShareEach` |
| `settings_calls` | 2 callers, 2 flags of which one is evaluated, up to 2 filters, 3 layouts that move flags and filters, 1 reload, 1 eviction, live sections | `OwnSettings`, `CurrentSettings`, `CacheSettles` |
| `service_calls` | 2 callers, 4 names of which two differ by case, 3 implementations, 4 registrations, 3 instances | `OneServicePerName`, `AnswerAgrees` |
| `gate_request` | 6 gates over 2 features, 2 users, 4 definitions, 3 states of a session | `GatesAgree`, `OneUser` |

Every passing run also checks the type invariant of its module.

**Why the bounds are enough.** Two threads are enough for the races of the provider:
its properties relate a thread to the one that refreshes. One reload is enough for a
thread to hold something old, two for a reload during a refresh; with the longer lists
there is one thread, since there it is the reload that interferes, and the theorems cover
any number of both. Two features are needed for one to take the index of the other. Two
callers of a snapshot are enough for one evaluation to be dropped. Filter lists of two
have a first and a last; every registered kind of filter occurs as the first. Two rules of
one kind are enough for one to be passed over, and one reload for the second to be read from
another configuration than the first. The
month of `window_calls` holds two intervals of the longest pattern and more than the
greatest number of occurrences. `Full` = 2 has a share between the edges. Two layouts
of `settings_calls` have one flag at different indexes, and its six identities leave one
free whenever a definition is parsed. A third instance in `service_calls` is the one that two
callers race for after each has its own; one of its registrations has a fallback that another
one shadows, and three have not. The percentages of `targeting_audience` go one beyond the range on
either side, and one of its cultures lowers a name to another one than the comparison takes it
for. The gates of `gate_request` ask for the two
features in both orders, so that each may be the first to fix one. `MaxVersion`,
`MaxReloads`, `MaxLoads`, `MaxEvictions`, `MaxMade`, `Horizon`, `MaxGroups` and `MaxEntries`
bound the environment, and nothing else is bounded.

Two runs restrict the next-state relation further, in their MC modules. `MCNext` of
`MCDefinitionProvider` has two threads for the single feature and one for the lists, so that
one run asks both questions; `MCNext` of `MCFeatureEvaluation` has, for all but two of the
lists of filters, neither a reload nor a second spelling, and no reload that turns captured
definitions into live ones, which a program does not do.

`window_calls` uses `CallsOrTime`: for the many recurrences only time passes, and the
operators are compared at every time; for seven settings calls are made. It may stop
when the clock reaches `Horizon`, so deadlock is not checked there. It is in all others.

### What the violations say

* `provider_reordered`: with live sections the id of a flag is read to find its section
  and again to parse it. A reload that moves flags in between makes the provider return,
  and cache, the definition of another feature.
* `provider_stale_forever`: a thread that parsed a definition before a reload adds it
  after another thread cleared the dictionary for that reload. Nothing removes it until
  the next one.
* `evaluation_skipped`: a filter that has no half for the call's context is passed over with a
  warning (FeatureManager.cs:475), so that under `All` a feature is enabled although that
  condition was never asked, while RequirementType.cs:16 and FeatureDefinition.cs:25 say that
  all filters must be enabled. `VerdictMatchesRequirement` is about evaluations that passed
  over none, where `All` is concerned.
* `snapshot_concurrent`: overlapping calls for the variant of one feature each evaluate
  it and may be told different variants, within one request.

### Observed without a run

* With two callers in one session the first evaluations both find no state and the
  second overwrites the state the first one returned. `SessionKeepsState` is checked
  for one caller.
* A variant that overrides the state, taken from `DefaultWhenEnabled` and
  `DefaultWhenDisabled` in opposite senses, makes the stored state of a session alternate
  from call to call: the state that was read is overridden and stored again.
* The session's state is returned before the status of the definition is looked at
  (FeatureManager.cs:402): a feature stored as on stays on for its session when it is
  disabled, while FeatureStatus.Disabled is documented as always off
  (FeatureDefinition.cs:31). `DisabledIsDisabled` is about states that were computed.
* A session's state is read under the name that the definition has (FeatureManager.cs:400)
  and stored under the one that the caller gave (line 385). For a caller that spells the name
  otherwise the state is never found, and what was stored is overwritten by each call.
  `SessionKeepsState` and `SessionManagersAgree` are about the spelling of the definitions.
* A feature that has no definition is stored as off (line 385), and stays off for its session
  when a definition comes.
* The rules of an allocation are read while they are tried (ConfigurationFeatureDefinitionProvider.cs:495-537).
  With live sections a reload in between makes the variant one of neither configuration, and
  a user or group rule that is gone fails the evaluation. `VariantPrecedence` says what is
  left: what each rule said, some configuration of that time said.
* Names are compared by `OrdinalIgnoreCase` but hashed as the culture of the server lowers
  them (TargetingEvaluator.cs:234-241), while TargetingEvaluationOptions.cs:12 speaks of
  case alone. On a server with the culture tr-TR the users IAN and ian are the same when they
  are listed, and in different buckets of a rollout; and the group IT, lowered with a dotless
  i, is in no rollout at all. `CaseDoesNotMatter` is about spellings that are alike to both.
* Settings that come as a `ParametersObject` are used as they are (FeatureManager.cs:502,
  Targeting/ContextualTargetingFilter.cs:79): a percentage out of range, which bound settings
  are refused for, is evaluated. NaN passes the validation too (line 54 of the evaluator).
* The clock is read twice in a call of the time window filter (TimeWindowFilter.cs:139):
  at the boundary of two windows that touch the answer may be false although the feature
  is on at both readings. `AnswersAreRight` is checked and proved for windows with a gap.
* With live sections a call that holds a definition from before a reload that moves flags
  may bind the parameters that another feature has now under the old index (`OwnFeature`
  of `SettingsCache`). With captured sections it cannot: a theorem.
* A reload between the two evaluations of `GetServiceAsync` combines the variant of one
  configuration with the state of the other, and so does a session manager that holds another
  state. `AnswerAgrees` takes both evaluations as they come and says nothing of that.
* The fallback is looked up by its name (VariantServiceProvider.cs:123), which may be the key
  or the alias of another registration: that one is then returned, while
  FeatureManagementBuilderExtensions.cs:57 promises the type itself. `FallbackIsTheType` states
  the promise without the condition of `AnswerAgrees`, and the third registration of
  `service_calls` breaks it. The cache of services is case-sensitive, the search is not.
* TagHelpers/FeatureTagHelper.cs (of the ASP.NET Core package) documents that the
  requirement has no effect when variants are named, and throws when several are named
  with the default requirement.
* A request that evaluates a feature before it is authenticated stays anonymous for the
  rest of it (DefaultHttpTargetingContextAccessor.cs:70). `OneUser` says that it is one
  user, not which.
* The validator compares the number of days before it removes duplicates, so a single day
  given twice is refused with an interval of one week.
* `ConfigurationFeatureDefinitionProviderOptions.cs:19` says that the custom merging is
  the default; the property's default is false.

## 5. Fairness

* `FairSpec` of `FeatureSnapshot`: weak fairness of every caller's steps, the end of its
  evaluations included. A call of the snapshot runs on a thread pool, waits for no lock
  and awaits evaluations only, and an evaluation returns, throws or is cancelled with the
  request.
* `FairToOne` of `MCDefinitionProvider`: weak fairness of one thread alone. Every step of
  a call of the provider is enabled whatever the others do, so that a scheduler that runs
  the thread now and then is enough: `CallEnds` says that the provider is wait-free, which
  is the point of having no lock in it. The number of reloads is bounded, but no loop of a
  call depends on it.

## 6. What is proved

| theorem | says | argument |
|---|---|---|
| `DefinitionProviderProofs!Types` | type invariant | a conjunct for each kind of variable, an action at a time |
| `!SectionsAreReady` | `SectionsReady` | what is held about to be stored is never 0; `IInv` |
| `!QuietRefresh` | `QuietRefreshHolds` | a refresh that runs alone has a floor, and nothing an answer can be made of is older: the fields, the cached definitions, the lists held or searched, the definitions about to be added (`NothingOlder`), while at most one thread refreshes alone |
| `!NoReloadLost` | `ReloadNotLost` | the version a lone refresh took up is the last that was raised, unless the flag is set again |
| `!CapturedNames` | `CapturedOwnDefinition` | where sections are captured the list searched is fixed, so what was found is what is parsed |
| `!AlwaysFound` | `AlwaysDefinedIsFound`, live sections included | a search that has found nothing has ruled out every position it passed; one that misses has seen a content without the feature in each schema, and a reload never makes a feature always defined again |
| `!LatestAlone` | `LatestWhenIdle`, with one thread | what the thread holds and will store or cache is of the configuration it took up, once no reload is waiting (`Current`) |
| `!EverythingListed` | `ListsEverything`, with one thread | both lists were read after the last reload that was taken up, and what is not yet listed is still to come (`Enumerations`) |
| `FeatureSnapshotProofs!Types` | type invariant | |
| `!FlagsRefine` | `FeatureSnapshot` implements `RequestSnapshot` | a flag is decided when the cached evaluation ends; a dropped evaluation decides nothing, as nobody awaits it |
| `!VariantsRepeatAlone` | `VariantsRepeat` when calls of a request do not overlap | with one caller nothing happens between the check and the store |
| `FeatureEvaluationProofs!Types` | type invariant | what holds of a call depends on its own variables (`Frame`), so one caller is looked at per step |
| `!Verdict` | `VerdictMatchesRequirement` | while no filter gave the answer that ends the loop, the state is its opposite, and the record is as long as the loop is far (`Counted`) |
| `!Precedence` | `VariantPrecedence` | every rule tried and passed over was not for the user in some allocation read until then (`Search`), and the allocations read since the search began only grow (`PassedKept`) |
| `!ComputedDisabled` | `DisabledIsDisabled` | a state that is not read is computed, and the override is not applied to a disabled feature |
| `!ManagersAgree`, `!SessionKept` | `SessionManagersAgree`, `SessionKeepsState`, with one caller and no variant that overrides, by the name that the definitions spell | a call by that name finds what was stored under it (`Learnt`, `Spelled`) and stores the state it read, or one it computed when no manager knew any; those it has told hold what it is telling the others (`SessionInv`) |
| `TimeWindowProofs!Types` | type invariant | |
| `!MatchIsRight`, `!ClosestIsRight`, `!NoOverlap` | `IsMatchIsRight`, `ClosestStartIsRight`, `WindowsDoNotOverlap` | the occurrences are numbered (`At`): see below |
| `!NothingSkipped` | `CacheSkipsNothing` | a closest start stays the closest while time goes on (`Later`), so that it does not matter which of two callers stores last |
| `!CallsAreRight` | `AnswersAreRight`, with gaps between the windows | an answer compared with a window calculated later is wrong only if there is no instant before the window at which it is off (`SomeTime`) |
| `TargetingProofs!Types` | type invariant | |
| `!RampUp` | `RampUpKeeps` | what is hashed has no percentage in it, and the first rollout of a group stays the first (`Widening`) |
| `!Everybody` | `FullIsEverybody` | |
| `!CaseBlind` | `CaseDoesNotMatter` | names are used through the comparison and the lowering only, so that what both take for the same is targeted alike (`Alike`) |
| `!OneShare` | `OneShareEach` | a split share is the union of its disjoint halves; strengthened by "there is a share" |
| `SettingsCacheProofs!Types` | type invariant | |
| `!SettingsAreOwn`, `!SettingsAreCurrent` | `OwnSettings`, `CurrentSettings` | definitions in use have different identities, and an item is what its parameters held at some load since its definition was parsed |
| `!CapturedOwnFeature` | `OwnFeature`, with captured sections | what is read is what was loaded with the definition |
| `VariantServiceProofs!TypesKept` | type invariant | |
| `!OneService` | `OneServicePerName` | an entry of the dictionary is never replaced, and what a call answers is the entry |
| `!AnswersAgree` | `AnswerAgrees` | an entry is what its name resolves to, whoever resolved it, and where fallbacks resolve to themselves that is what the two evaluations promise |
| `FeatureGateProofs!TypesKept` | type invariant | |
| `!GatesHaveOneState` | `GatesAgree` | what the snapshot has settled explains every decision so far (`Stands`), and settled answers stay |
| `!RequestHasOneUser` | `OneUser` | what was settled before the context is kept did not ask for the user, and is the same for all of them by its definition and session state |

They rest on the ASSUMEs of the modules alone: that the values standing for nothing are
not among the values, that bounds are natural numbers, and the types of the parameters.
The inductive invariants are needed because none of the properties mentions where a
call is: `SectionsReady` says nothing of a list that was read and not stored,
`VerdictMatchesRequirement` nothing of a loop half-way through.

**Recurrences.** The theorems of `TimeWindowProofs` are about daily and weekly recurrences of
any interval, set of days, first day of the week, duration and range. `Occurrences` filters
the days after the start one by one and counts them; the evaluator divides. Both are compared
with a numbering of the occurrences: the j-th of a daily recurrence is start + j intervals
(`DailyAt`), that of a weekly one the i-th of the sorted days in the w-th week that occurs,
where w and i - 1 are quotient and remainder of j, moved by the place of the start's day among
the days (`WeeklyAt`). That place is a cardinality and the sorted days are chosen by it, so the
ranks are shown first to number the days in the order of the week (`Ranks`, `Sorted`). Then
the occurrences are exactly the At(j) (`DailyRecurs`, `WeeklyRecurs`), there are j + 1 up to
At(j) (`Counted`, a bijection), a window ends before the next begins because of what the
validator compared (`Compliant`, `DaysApart`), the evaluator's previous occurrence is the last
At(q) that is not later, with number q + 1, in each of its branches (`WeeklyPrevious`), and
its next one is At(q + 1) (`Following`). All that follows is about `At` alone.

Some theorems have an assumption of their own, which their statements show:
`CapturedOwnFeature` captured sections (`~Live`); `LatestAlone` and `EverythingListed` one thread (`OneThread`); `VariantsRepeatAlone` one caller;
`ManagersAgree` and `SessionKept` one caller and no variant that overrides the state
(`OneCaller`, `NoOverride`); and `CallsAreRight` that the validator would accept windows one unit of time
longer, which leaves a gap between them (`HasGaps`). None is there for the proof alone:
without them the properties do not hold, as the runs that expect a violation and the
observations above say.

Model-checked only: liveness (`CallEnds`, `CallersAnswered`), and `CachesSettle` and
`CacheSettles`, which say that overwriting comes to an end and need a measure that decreases:
liveness under fairness, and induction over such a measure, are out of the prover's reach.

## 7. What is not modelled

Telemetry: an event is built from a finished evaluation and keeps no state; what is hard
about it is which activity is the ambient one, which the runtime decides. The percentage
filter is a filter that may answer anything. Registration runs once and has no behaviour
over time. What a denied request is answered with keeps no state. Exceptions are one
outcome: their types and messages are left out. Parsing is modelled by whether it throws.
Percentages that are no numbers, lists of flags of which some are captured and some live, and
objects or rules that are read half before and half after a reload are left out, as said above.
Time zones and offsets are one offset, that of the start; intervals so long that the
arithmetic of dates overflows are left out.

Examples, schemas and scripts have no part of the library's logic. The JavaScript files of
the repository are all of that kind: jQuery validation as it was copied into the example
applications, and their empty `site.js`. The library is C#, and every definition of the
modules is mapped to it.
