-------------------------- MODULE FeatureEvaluation --------------------------
(***************************************************************************)
(* FeatureManager.EvaluateFeature: one feature of one session, evaluated   *)
(* by several callers while its definition may be reloaded.                *)
(*                                                                         *)
(* An evaluation takes the definition, asks the session managers, runs the *)
(* filters when none of them knows the feature, tries the rules of the     *)
(* allocation, lets the variant override the state, and stores the state   *)
(* in every session manager.  The configuration may be reloaded between    *)
(* any two steps, and the evaluation may fail.  Filters answer anything;   *)
(* the targeting of a rule is the set of users it applies to.              *)
(*                                                                         *)
(* How many rules an allocation has is known when the definition is parsed; *)
(* what each of them says is read from its section when its turn comes.    *)
(* Definitions are found whatever the case of the name they are asked by,  *)
(* and session managers keep a state for every spelling of a name.         *)
(***************************************************************************)
EXTENDS Integers, Sequences

CONSTANTS
  Callers,        \* evaluations of the feature in one session
  Managers,       \* number of session managers
  Names,          \* the spellings of the feature's name
  Definitions,    \* definitions the feature may have
  FilterNames,    \* filter names definitions may use
  OnNames,        \* those of the always-on filter
  Registered,     \* registered filters: the names they match, the context
                  \* types they accept, whether they work without a context
  ContextTypes,   \* types of the contexts callers pass
  Users,          \* targeting contexts
  Args,           \* what callers pass: NoContext or a context
  Ambient,        \* what the targeting context accessor may return
  VariantNames,
  MaxReloads,     \* bound: reloads of the definition
  IgnoreMissingFeatures, IgnoreMissingFeatureFilters,
  Targeting,      \* the context type that is an ITargetingContext
  NoDefinition, NoContext, NoUser, NoName, NoAllocation, NoAnswer,
  Unset           \* a session manager does not know the feature

Statuses == {"Conditional", "Disabled"}

Reasons == {"None", "DefaultWhenEnabled", "DefaultWhenDisabled", "User", "Group",
            "Percentile"}

Rule == [to : SUBSET Users, variant : VariantNames \cup {NoName}]

\* user, group and percentile: the rules as they are when the definition is parsed.
Allocation == [user : Seq(Rule), group : Seq(Rule), percentile : Seq(Rule),
               whenEnabled : VariantNames \cup {NoName},
               whenDisabled : VariantNames \cup {NoName}]

Filter == [names : SUBSET FilterNames, contexts : SUBSET ContextTypes, plain : BOOLEAN]

Context == [type : ContextTypes, user : Users]

\* name: the name as the configuration spells it; captured: the rules are read from a
\* copy, not from the configuration in force.
IsDefinition(d) ==
  /\ d.name \in Names
  /\ d.captured \in BOOLEAN
  /\ d.status \in Statuses
  /\ d.requirement \in {"Any", "All"}
  /\ \A i \in 1..Len(d.filters) : d.filters[i] \in FilterNames
  /\ Len(d.filters) \in Nat
  /\ DOMAIN d.variants \subseteq VariantNames
  /\ \A v \in DOMAIN d.variants : d.variants[v] \in {"None", "Enabled", "Disabled"}
  /\ d.allocation # NoAllocation => d.allocation \in Allocation

ASSUME ManagersAssumption == Managers \in Nat /\ MaxReloads \in Nat
ASSUME DefinitionsAssumption ==
  NoDefinition \notin Definitions /\ \A d \in Definitions : IsDefinition(d)
ASSUME RegisteredAssumption == \A f \in Registered : f \in Filter
ASSUME ArgsAssumption ==
  NoContext \notin Context /\ \A a \in Args : a = NoContext \/ a \in Context
ASSUME AmbientAssumption == NoUser \notin Users /\ Ambient \subseteq Users \cup {NoUser}
ASSUME NoNameAssumption == NoName \notin VariantNames \cup Names
ASSUME UnsetAssumption == Unset \notin BOOLEAN
ASSUME OptionsAssumption ==
  IgnoreMissingFeatures \in BOOLEAN /\ IgnoreMissingFeatureFilters \in BOOLEAN

VARIABLES
  definition,  \* what the provider returns for the feature
  session,     \* the state each session manager has stored, by the spelling of the name
  pc,
  feature,     \* the name the caller passed
  arg,         \* the context the caller passed
  def,         \* EvaluationEvent.FeatureDefinition
  at,          \* the session manager, the filter or the rule whose turn it is
  target,      \* EvaluationEvent.TargetingContext
  enabled,     \* EvaluationEvent.Enabled
  variant,     \* EvaluationEvent.Variant
  reason,      \* EvaluationEvent.VariantAssignmentReason
  fresh,       \* auxiliary: the state was computed, not read from the session
  seen,        \* auxiliary: what each filter of this evaluation answered
  during,      \* auxiliary: what the rules' sections held while a variant was determined
  answer,      \* auxiliary: status, state and freshness of the evaluation a caller has ended
  reloads      \* auxiliary: reloads so far

world == <<definition, reloads, session>>
call == <<feature, arg>>
assignment == <<def, target, variant, reason>>
event == <<assignment, enabled>>
auxiliary == <<fresh, seen, during, answer>>
vars == <<definition, session, pc, feature, arg, def, target, at, enabled, variant, reason,
          fresh, seen, during, answer, reloads>>

Goto(t, label) == pc' = [pc EXCEPT ![t] = label]
SetAt(t, i) == at' = [at EXCEPT ![t] = i]

Init ==
  /\ definition \in Definitions \cup {NoDefinition}
  /\ session = [m \in 1..Managers |-> [n \in Names |-> Unset]]
  /\ pc = [t \in Callers |-> "idle"]
  /\ feature = [t \in Callers |-> NoName]
  /\ arg = [t \in Callers |-> NoContext]
  /\ def = [t \in Callers |-> NoDefinition]
  /\ at = [t \in Callers |-> 1]
  /\ target = [t \in Callers |-> NoUser]
  /\ enabled = [t \in Callers |-> FALSE]
  /\ variant = [t \in Callers |-> NoName]
  /\ reason = [t \in Callers |-> "None"]
  /\ fresh = [t \in Callers |-> TRUE]
  /\ seen = [t \in Callers |-> << >>]
  /\ during = [t \in Callers |-> {}]
  /\ answer = [t \in Callers |-> NoAnswer]
  /\ reloads = 0

-----------------------------------------------------------------------------
(* The environment: reloads, and sessions that end.                        *)

Nothing == [user |-> << >>, group |-> << >>, percentile |-> << >>,
            whenEnabled |-> NoName, whenDisabled |-> NoName]

\* What the sections of an allocation hold while the feature has the definition d and is
\* where it was in the configuration; DefinitionProvider has the features that move.
Sections(d) == IF d = NoDefinition \/ d.allocation = NoAllocation THEN Nothing ELSE d.allocation

Kinds == {"user", "group", "percentile"}

Reload ==
  /\ reloads < MaxReloads
  /\ reloads' = reloads + 1
  /\ definition' \in Definitions \cup {NoDefinition}
  /\ during' = [t \in Callers |-> IF pc[t] \in Kinds THEN during[t] \cup {Sections(definition')}
                                  ELSE during[t]]
  /\ UNCHANGED <<session, pc, call, event, at, fresh, seen, answer>>

Forget(m) ==
  /\ session' = [session EXCEPT ![m] = [n \in Names |-> Unset]]
  /\ UNCHANGED <<definition, reloads, pc, call, event, at, auxiliary>>

-----------------------------------------------------------------------------
(* The call and its definition.                                            *)

Call(t, n, a) ==
  /\ pc[t] = "idle"
  /\ feature' = [feature EXCEPT ![t] = n]
  /\ arg' = [arg EXCEPT ![t] = a]
  /\ answer' = [answer EXCEPT ![t] = NoAnswer]
  /\ Goto(t, "define")
  /\ UNCHANGED <<world, event, at, fresh, seen, during>>

\* What belongs to the call alone ends with it.
Leave(t) ==
  /\ Goto(t, "idle")
  /\ feature' = [feature EXCEPT ![t] = NoName]
  /\ arg' = [arg EXCEPT ![t] = NoContext]
  /\ def' = [def EXCEPT ![t] = NoDefinition]
  /\ target' = [target EXCEPT ![t] = NoUser]
  /\ enabled' = [enabled EXCEPT ![t] = FALSE]
  /\ variant' = [variant EXCEPT ![t] = NoName]
  /\ reason' = [reason EXCEPT ![t] = "None"]
  /\ fresh' = [fresh EXCEPT ![t] = TRUE]
  /\ seen' = [seen EXCEPT ![t] = << >>]
  /\ during' = [during EXCEPT ![t] = {}]
  /\ SetAt(t, 1)

\* A failure, or the cancellation the code looks out for: nothing is undone.
Fail(t) ==
  /\ pc[t] # "idle"
  /\ Leave(t)
  /\ UNCHANGED <<world, answer>>

\* GetFeatureDefinition; a missing feature fails the call unless it is ignored.
Define(t) ==
  /\ pc[t] = "define"
  /\ definition = NoDefinition => IgnoreMissingFeatures
  /\ def' = [def EXCEPT ![t] = definition]
  /\ Goto(t, "read")
  /\ UNCHANGED <<world, call, target, enabled, variant, reason, at, auxiliary>>

-----------------------------------------------------------------------------
(* The session managers are asked first, by the name of the definition or, *)
(* without one, by the caller's; the first one that knows it decides.      *)

Key(t) == IF def[t] = NoDefinition THEN feature[t] ELSE def[t].name

\* A faulty variant: only the first session manager is asked.
ReadMissOnce(t) ==
  /\ pc[t] = "read"
  /\ at[t] <= Managers
  /\ session[at[t]][Key(t)] = Unset
  /\ SetAt(t, Managers + 1)
  /\ UNCHANGED <<world, pc, call, event, auxiliary>>

ReadMiss(t) ==
  /\ pc[t] = "read"
  /\ at[t] <= Managers
  /\ session[at[t]][Key(t)] = Unset
  /\ SetAt(t, at[t] + 1)
  /\ UNCHANGED <<world, pc, call, event, auxiliary>>

ReadHit(t) ==
  /\ pc[t] = "read"
  /\ at[t] <= Managers
  /\ session[at[t]][Key(t)] # Unset
  /\ enabled' = [enabled EXCEPT ![t] = session[at[t]][Key(t)]]
  /\ fresh' = [fresh EXCEPT ![t] = FALSE]
  /\ SetAt(t, 1)
  /\ Goto(t, IF def[t] = NoDefinition THEN "store" ELSE "variant")
  /\ UNCHANGED <<world, call, assignment, seen, during, answer>>

Trivial(d) == d = NoDefinition \/ d.status = "Disabled" \/ d.filters = << >>

\* No session manager knows the feature.
ReadNone(t) ==
  /\ pc[t] = "read"
  /\ at[t] > Managers
  /\ enabled' = [enabled EXCEPT ![t] = ~Trivial(def[t]) /\ def[t].requirement = "All"]
  /\ SetAt(t, 1)
  /\ Goto(t, IF def[t] = NoDefinition THEN "store"
             ELSE IF Trivial(def[t]) THEN "variant" ELSE "filter")
  /\ UNCHANGED <<world, call, assignment, auxiliary>>

-----------------------------------------------------------------------------
(* The filters.                                                            *)

MatchingName(name) == {f \in Registered : name \in f.names}

\* GetFeatureFilterMetadata, with and without a context type.
Contextual(name, a) ==
  IF a = NoContext THEN {} ELSE {f \in MatchingName(name) : a.type \in f.contexts}
Plain(name) == {f \in MatchingName(name) : f.plain}

Candidates(name, a) ==
  IF Contextual(name, a) # {} THEN Contextual(name, a) ELSE Plain(name)

Ambiguous(S) == \E f, g \in S : f # g

Name(t) == def[t].filters[at[t]]
AtFilter(t) == pc[t] = "filter" /\ at[t] <= Len(def[t].filters)
Target(t) == def[t].requirement = "Any"

\* A faulty variant: the filter index is advanced twice.
NextFilterTwice(t) == SetAt(t, at[t] + 2) /\ Goto(t, "filter")

NextFilter(t) == SetAt(t, at[t] + 1) /\ Goto(t, "filter")

\* Remember the answers of the filter whose turn it is.
See(t, answers) ==
  seen' = [seen EXCEPT ![t] =
             IF at[t] <= Len(seen[t])
             THEN [seen[t] EXCEPT ![at[t]] = seen[t][at[t]] \cup answers]
             ELSE Append(seen[t], answers)]

Decide(t, b) ==
  /\ enabled' = [enabled EXCEPT ![t] = b]
  /\ SetAt(t, 1)
  /\ Goto(t, "variant")

AlwaysOn(t) ==
  /\ AtFilter(t)
  /\ Name(t) \in OnNames
  /\ See(t, {TRUE})
  /\ \/ /\ def[t].requirement = "Any"
        /\ Decide(t, TRUE)
     \/ /\ def[t].requirement = "All"
        /\ NextFilter(t)
        /\ UNCHANGED enabled
  /\ UNCHANGED <<world, call, assignment, fresh, during, answer>>

\* A filter of that name exists, but none for this call's context.
Skip(t) ==
  /\ AtFilter(t)
  /\ Name(t) \notin OnNames
  /\ Candidates(Name(t), arg[t]) = {}
  /\ MatchingName(Name(t)) # {}
  /\ See(t, {})
  /\ NextFilter(t)
  /\ UNCHANGED <<world, call, event, fresh, during, answer>>

\* A faulty variant: a missing filter does not count against All.
MissingPasses(t) ==
  /\ AtFilter(t)
  /\ Name(t) \notin OnNames
  /\ MatchingName(Name(t)) = {}
  /\ IgnoreMissingFeatureFilters
  /\ See(t, {FALSE})
  /\ NextFilter(t)
  /\ UNCHANGED <<world, call, event, fresh, during, answer>>

\* No filter has that name; unless that is ignored the evaluation fails.
Missing(t) ==
  /\ AtFilter(t)
  /\ Name(t) \notin OnNames
  /\ MatchingName(Name(t)) = {}
  /\ IgnoreMissingFeatureFilters
  /\ See(t, {FALSE})
  /\ \/ /\ def[t].requirement = "All"
        /\ Decide(t, FALSE)
     \/ /\ def[t].requirement = "Any"
        /\ NextFilter(t)
        /\ UNCHANGED enabled
  /\ UNCHANGED <<world, call, assignment, fresh, during, answer>>

Found(t) ==
  /\ Name(t) \notin OnNames
  /\ Candidates(Name(t), arg[t]) # {}
  /\ ~Ambiguous(Candidates(Name(t), arg[t]))

\* The contextual half of a filter that accepts the caller's context.
EvaluateContextual(t, b) ==
  /\ AtFilter(t)
  /\ Found(t)
  /\ Contextual(Name(t), arg[t]) # {}
  /\ See(t, {b})
  /\ \/ /\ b = Target(t)
        /\ Decide(t, b)
     \/ /\ b # Target(t)
        /\ IF \E f \in Candidates(Name(t), arg[t]) : f.plain
           THEN Goto(t, "plain") /\ UNCHANGED at
           ELSE NextFilter(t)
        /\ UNCHANGED enabled
  /\ UNCHANGED <<world, call, assignment, fresh, during, answer>>

\* The filter itself, after its contextual half or without one.
EvaluatePlain(t, b) ==
  /\ \/ pc[t] = "plain"
     \/ AtFilter(t) /\ Found(t) /\ Contextual(Name(t), arg[t]) = {}
  /\ See(t, {b})
  /\ \/ /\ b = Target(t)
        /\ Decide(t, b)
     \/ /\ b # Target(t)
        /\ NextFilter(t)
        /\ UNCHANGED enabled
  /\ UNCHANGED <<world, call, assignment, fresh, during, answer>>

FiltersDone(t) ==
  /\ pc[t] = "filter"
  /\ at[t] > Len(def[t].filters)
  /\ SetAt(t, 1)
  /\ Goto(t, "variant")
  /\ UNCHANGED <<world, call, event, auxiliary>>

-----------------------------------------------------------------------------
(* The variant, and its say in the state of the feature.                   *)

RulesOf(a, k) ==
  IF k = "user" THEN a.user ELSE IF k = "group" THEN a.group ELSE a.percentile

ReasonOf(k) ==
  IF k = "user" THEN "User" ELSE IF k = "group" THEN "Group" ELSE "Percentile"

\* Rule i of a list is there, and for the user.
Applies(rules, i, u) == i \in DOMAIN rules /\ u \in rules[i].to

Default(a, e) ==
  [name |-> IF a = NoAllocation THEN NoName
            ELSE IF e THEN a.whenEnabled ELSE a.whenDisabled,
   reason |-> IF e THEN "DefaultWhenEnabled" ELSE "DefaultWhenDisabled"]

\* The targeting context of an evaluation, given the ambient one.
TargetOf(a, ambient) ==
  IF a = NoContext THEN ambient ELSE IF a.type = Targeting THEN a.user ELSE NoUser

\* A faulty variant: a disabled feature is overridden too.
OverrideAlways(d, v, e) ==
  IF v = NoName \/ d.variants[v] = "None" THEN e ELSE d.variants[v] = "Enabled"

Override(d, v, e) ==
  IF v = NoName \/ d.status = "Disabled" \/ d.variants[v] = "None" THEN e
  ELSE d.variants[v] = "Enabled"

\* The variant of that name, if the definition has it.
Existing(d, v) == IF v \in DOMAIN d.variants THEN v ELSE NoName

Settle(t, choice) ==
  /\ variant' = [variant EXCEPT ![t] = Existing(def[t], choice.name)]
  /\ reason' = [reason EXCEPT ![t] = choice.reason]
  /\ enabled' = [enabled EXCEPT ![t] = Override(def[t], Existing(def[t], choice.name), @)]
  /\ SetAt(t, 1)
  /\ Goto(t, "store")

\* A definition without variants has nothing to determine.
NoVariants(t) ==
  /\ pc[t] = "variant"
  /\ DOMAIN def[t].variants = {}
  /\ Goto(t, "store")
  /\ UNCHANGED <<world, call, event, at, auxiliary>>

\* The user is resolved; the rules are for enabled features and known users.
DetermineVariant(t, ambient) ==
  /\ pc[t] = "variant"
  /\ DOMAIN def[t].variants # {}
  /\ target' = [target EXCEPT ![t] = TargetOf(arg[t], ambient)]
  /\ \/ /\ def[t].allocation # NoAllocation /\ enabled[t] /\ target'[t] # NoUser
        /\ during' = [during EXCEPT ![t] = {Sections(definition)}]
        /\ Goto(t, "user")
        /\ SetAt(t, 1)
        /\ UNCHANGED <<variant, reason, enabled>>
     \/ /\ def[t].allocation = NoAllocation \/ ~enabled[t] \/ target'[t] = NoUser
        /\ Settle(t, Default(def[t].allocation, enabled[t]))
        /\ UNCHANGED during
  /\ UNCHANGED <<world, call, def, fresh, seen, answer>>

\* Where the rules of a definition are read.
Source(t) == IF def[t].captured THEN def[t].allocation ELSE Sections(definition)

Count(t, k) == Len(RulesOf(def[t].allocation, k))

\* A faulty variant: a rule without a variant name is passed over.
TryRuleOnwards(t) ==
  LET rules == RulesOf(Source(t), pc[t])
  IN /\ pc[t] \in Kinds
     /\ at[t] <= Count(t, pc[t])
     /\ at[t] \in DOMAIN rules \/ pc[t] = "percentile"
     /\ IF Applies(rules, at[t], target[t]) /\ rules[at[t]].variant # NoName
        THEN Settle(t, [name |-> rules[at[t]].variant, reason |-> ReasonOf(pc[t])])
        ELSE SetAt(t, at[t] + 1) /\ UNCHANGED <<pc, variant, reason, enabled>>
     /\ UNCHANGED <<world, call, def, target, auxiliary>>

\* A rule is read and tried.  One that names no variant ends the search and leaves the
\* default.  One that is gone from the configuration has no users or groups, which
\* fails the evaluation, or no percentiles, which applies to nobody.
TryRule(t) ==
  LET rules == RulesOf(Source(t), pc[t])
  IN /\ pc[t] \in Kinds
     /\ at[t] <= Count(t, pc[t])
     /\ at[t] \in DOMAIN rules \/ pc[t] = "percentile"
     /\ IF Applies(rules, at[t], target[t])
        THEN Settle(t, IF rules[at[t]].variant = NoName THEN Default(def[t].allocation, enabled[t])
                       ELSE [name |-> rules[at[t]].variant, reason |-> ReasonOf(pc[t])])
        ELSE SetAt(t, at[t] + 1) /\ UNCHANGED <<pc, variant, reason, enabled>>
     /\ UNCHANGED <<world, call, def, target, auxiliary>>

\* Users before groups before percentiles; after all of them, the default.
NextKind(t) ==
  /\ pc[t] \in Kinds
  /\ at[t] > Count(t, pc[t])
  /\ \/ /\ pc[t] # "percentile"
        /\ Goto(t, IF pc[t] = "user" THEN "group" ELSE "percentile")
        /\ SetAt(t, 1)
        /\ UNCHANGED <<variant, reason, enabled>>
     \/ /\ pc[t] = "percentile"
        /\ Settle(t, Default(def[t].allocation, enabled[t]))
  /\ UNCHANGED <<world, call, def, target, auxiliary>>

-----------------------------------------------------------------------------
(* Every session manager is told the state, under the name that the caller *)
(* passed, before the caller is.                                           *)

Store(t) ==
  /\ pc[t] = "store"
  /\ at[t] <= Managers
  /\ session' = [session EXCEPT ![at[t]][feature[t]] = enabled[t]]
  /\ SetAt(t, at[t] + 1)
  /\ UNCHANGED <<definition, reloads, pc, call, event, auxiliary>>

Return(t) ==
  /\ pc[t] = "store"
  /\ at[t] > Managers
  /\ answer' = [answer EXCEPT ![t] =
       [status |-> IF def[t] = NoDefinition THEN "None" ELSE def[t].status,
        enabled |-> enabled[t], fresh |-> fresh[t]]]
  /\ Leave(t)
  /\ UNCHANGED <<world>>

-----------------------------------------------------------------------------

FilterStep(t) ==
  \/ AlwaysOn(t)
  \/ Skip(t)
  \/ Missing(t)
  \/ \E b \in BOOLEAN : EvaluateContextual(t, b)
  \/ \E b \in BOOLEAN : EvaluatePlain(t, b)
  \/ FiltersDone(t)

Step(t) ==
  \/ Fail(t)
  \/ Define(t)
  \/ ReadMiss(t)
  \/ ReadHit(t)
  \/ ReadNone(t)
  \/ FilterStep(t)
  \/ NoVariants(t)
  \/ \E u \in Ambient : DetermineVariant(t, u)
  \/ TryRule(t)
  \/ NextKind(t)
  \/ Store(t)
  \/ Return(t)

Next ==
  \/ Reload
  \/ \E m \in 1..Managers : Forget(m)
  \/ \E t \in Callers : Step(t) \/ \E n \in Names, a \in Args : Call(t, n, a)

Spec == Init /\ [][Next]_vars

-----------------------------------------------------------------------------

Labels == {"idle", "define", "read", "filter", "plain", "variant", "store"} \cup Kinds

VarTypes ==
  /\ definition \in Definitions \cup {NoDefinition}
  /\ session \in [1..Managers -> [Names -> BOOLEAN \cup {Unset}]]
  /\ pc \in [Callers -> Labels]
  /\ feature \in [Callers -> Names \cup {NoName}]
  /\ arg \in [Callers -> Args \cup {NoContext}]
  /\ def \in [Callers -> Definitions \cup {NoDefinition}]
  /\ target \in [Callers -> Users \cup {NoUser}]
  /\ at \in [Callers -> Nat \ {0}]
  /\ enabled \in [Callers -> BOOLEAN]
  /\ variant \in [Callers -> VariantNames \cup {NoName}]
  /\ reason \in [Callers -> Reasons]
  /\ fresh \in [Callers -> BOOLEAN]
  /\ seen \in [Callers -> Seq(SUBSET BOOLEAN)]
  /\ during \in [Callers -> SUBSET Allocation]
  /\ answer \in [Callers -> {NoAnswer} \cup [status : Statuses \cup {"None"},
                                             enabled : BOOLEAN, fresh : BOOLEAN]]
  /\ reloads \in 0..MaxReloads

\* Where a call is agrees with what it has.
PlaceOK(t) ==
  /\ pc[t] # "idle" => feature[t] \in Names
  /\ pc[t] \in {"filter", "plain", "variant"} \cup Kinds => def[t] \in Definitions
  /\ pc[t] = "filter" => at[t] \in 1..Len(def[t].filters) + 1
  /\ pc[t] = "plain" => at[t] \in 1..Len(def[t].filters)
  /\ pc[t] \in Kinds => at[t] \in 1..Count(t, pc[t]) + 1
  /\ variant[t] # NoName => variant[t] \in DOMAIN def[t].variants

\* The variables have the types their declarations say; an evaluation runs the
\* filters of a definition that exists, and tries its rules, each in its turn, and ends
\* with a variant the definition has.
TypeOK == VarTypes /\ \A t \in Callers : PlaceOK(t)

\* Every filter that was reached answered, and every filter of the definition that did
\* answered nothing but true.
NoneSkipped(t) == \A i \in DOMAIN seen[t] : seen[t][i] # {}
AllTrue(t) ==
  Len(seen[t]) = Len(def[t].filters) /\ \A i \in DOMAIN seen[t] : seen[t][i] = {TRUE}

VerdictOK(t) ==
  /\ Trivial(def[t]) => ~enabled[t]
  /\ ~Trivial(def[t]) /\ def[t].requirement = "Any" =>
       (enabled[t] <=> \E i \in DOMAIN seen[t] : TRUE \in seen[t][i])
  /\ ~Trivial(def[t]) /\ def[t].requirement = "All" /\ NoneSkipped(t) =>
       (enabled[t] <=> AllTrue(t))

\* RequirementType: a state computed from the filters is on under Any if and only if a
\* filter answered true, and under All, unless a filter was passed over for want of its
\* context, if and only if all of them did, in the order in which IsEnabledAsync stops.
VerdictMatchesRequirement ==
  \A t \in Callers : pc[t] = "variant" /\ fresh[t] => VerdictOK(t)

\* RequirementType.All: "evaluated as true if all the conditions in the set are true".  A
\* state that was computed to be on for that requirement has no filter that was not true.
AllMeansAll ==
  \A t \in Callers :
    pc[t] = "variant" /\ fresh[t] /\ enabled[t] /\ def[t].requirement = "All" => AllTrue(t)

\* FeatureStatus.Disabled: whatever the filters and the variants say, reloads do
\* and other callers store, a caller whose evaluation computed the state of a
\* disabled definition is told that it is disabled.
DisabledIsDisabled ==
  \A t \in Callers :
    answer[t] # NoAnswer /\ answer[t].fresh /\ answer[t].status = "Disabled" =>
      ~answer[t].enabled

\* The allocations that an evaluation's rules were read from.
Sources(t) == IF def[t].captured THEN {def[t].allocation} ELSE during[t]

Before(l, k) == <<l, k>> \in {<<"user", "group">>, <<"user", "percentile">>, <<"group", "percentile">>}

\* Each rule of a kind before k, and each of kind k before i, was not for the user.
Passed(t, k, i) ==
  \A l \in Kinds : \A j \in 1..Count(t, l) :
    Before(l, k) \/ (l = k /\ j < i) =>
      \E a \in Sources(t) : ~Applies(RulesOf(a, l), j, target[t])

\* Rule i of kind k names v, is for the user, and none before it was.
Decides(t, k, i, v) ==
  /\ Passed(t, k, i)
  /\ \E a \in Sources(t) :
       Applies(RulesOf(a, k), i, target[t]) /\ RulesOf(a, k)[i].variant = v

\* The default of an enabled feature whose rules were tried.
DefaultAfterRules(t) ==
  reason[t] = "DefaultWhenEnabled" /\ def[t].allocation # NoAllocation /\ target[t] # NoUser

\* AssignVariantAsync: a variant comes from the first rule for the user, users before
\* groups before percentiles, and the default only when that rule names none or there is no
\* such rule.  What each rule says is what some allocation said while the variant was
\* determined, one and the same unless the configuration was reloaded meanwhile.
VariantPrecedence ==
  \A t \in Callers : pc[t] = "store" =>
    /\ \A k \in Kinds : reason[t] = ReasonOf(k) =>
         \E i \in 1..Count(t, k) : \E v \in VariantNames :
           Decides(t, k, i, v) /\ variant[t] = Existing(def[t], v)
    /\ DefaultAfterRules(t) =>
         \/ Passed(t, "percentile", Count(t, "percentile") + 1)
         \/ \E k \in Kinds : \E i \in 1..Count(t, k) : Decides(t, k, i, NoName)

\* A spelling that every definition of the feature has.
Spelled(n) == \A d \in Definitions : d.name = n

\* ISessionManager: the state of a feature is stored for a session; as long as a session
\* manager knows the feature, by the name its definitions spell, it knows the same state of
\* it, also when callers ask for the feature by other spellings.
SessionKeepsState ==
  [][\A n \in Names : Spelled(n) => \A m \in 1..Managers :
       session[m][n] # Unset /\ session'[m][n] # Unset => session'[m][n] = session[m][n]]_vars

\* Session managers that know the feature by that name know the same state, after
\* evaluations that failed half-way through storing it too.
SessionManagersAgree ==
  \A n \in Names : Spelled(n) => \A m, k \in 1..Managers :
    session[m][n] # Unset /\ session[k][n] # Unset => session[m][n] = session[k][n]

=============================================================================
