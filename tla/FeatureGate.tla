----------------------------- MODULE FeatureGate -----------------------------
(***************************************************************************)
(* The feature gates of one HTTP request: attributes on actions and pages, *)
(* endpoint filters, filters that run only with a feature, branches of the *)
(* pipeline and <feature> tags.  A gate asks the request's snapshot for    *)
(* its features one after the other until an answer decides it.            *)
(*                                                                         *)
(* The snapshot settles a feature, by the name the gate gives it, at its   *)
(* first use: under whichever definition the provider hands out then (the  *)
(* latest, an older one or, in rare cases, another feature's), with the    *)
(* state a session manager may hold, of whatever earlier evaluation, and   *)
(* for the targeting context that the first reader made of the request's   *)
(* user.  One request runs its gates one at a time; whether those that     *)
(* follow a gate that denied (the next middleware, a handler, a page with  *)
(* tags) are reached is up to the application.                             *)
(***************************************************************************)
EXTENDS Naturals, Sequences

CONSTANTS
  Features,
  Names,       \* names of variants
  Users,       \* what the targeting context takes from HttpContext.User
  Rules,       \* the definitions the provider may hand out, for any feature
  Gates,
  Declared,    \* the declaration of each gate
  NoVariant, NoValue, NoContext, NoGate, NoRule

Outcome == [flag : {"on", "off"}, variant : Names \cup {NoVariant}]

\* What the session managers hold for a feature when it is evaluated.
Session == {"unset", "on", "off"}

\* What a definition evaluates to, given the session's state, for each user, and whether
\* it then asks for the user. What its filters make of the time, or of chance, is fixed
\* with it.
Rule == [reads : [Session -> BOOLEAN], outcome : [Session -> [Users -> Outcome]]]

\* variants is empty but for tags that name variants; all: RequirementType.All.
Declaration ==
  [features : Seq(Features), variants : Seq(Names), all : BOOLEAN, negate : BOOLEAN]

ASSUME UsersAssumption == Users # {} /\ NoContext \notin Users
ASSUME RulesAssumption ==
  /\ Rules \subseteq Rule
  /\ \A r \in Rules, s \in Session : ~r.reads[s] =>
       \A u, w \in Users : r.outcome[s][u] = r.outcome[s][w]
ASSUME GatesAssumption == NoGate \notin Gates /\ Declared \in [Gates -> Declaration]
ASSUME NothingAssumption ==
  NoValue \notin Names \cup {NoVariant} /\ NoVariant \notin Names /\ NoRule \notin Rules

VARIABLES
  user,       \* HttpContext.User
  item,       \* HttpContext.Items: the targeting context
  flags,      \* the snapshot's _flagCache, once its evaluations have ended
  variants,   \* the snapshot's _variantCache
  gate,       \* the gate that is being decided
  pos,        \* the feature or the variant it is at
  rule,       \* the definition that is being evaluated
  decision,   \* what became of each gate
  baggage,    \* the targeting id of the request's activity
  flagFor,    \* auxiliary: the flags that the evaluation of a feature has for the users
  variantFor  \* auxiliary: the variants that it has for them

snapshot == <<flags, variants>>
loop == <<gate, pos, rule, decision>>
auxiliary == <<flagFor, variantFor>>
vars == <<user, item, snapshot, loop, baggage, auxiliary>>

Init ==
  /\ user \in Users
  /\ item = NoContext
  /\ flags = [f \in Features |-> "none"]
  /\ variants = [f \in Features |-> NoValue]
  /\ gate = NoGate
  /\ pos = 1
  /\ rule = NoRule
  /\ decision = [g \in Gates |-> "none"]
  /\ baggage = NoContext
  /\ flagFor = [f \in Features |-> [u \in Users |-> "none"]]
  /\ variantFor = [f \in Features |-> [u \in Users |-> NoValue]]

-----------------------------------------------------------------------------
(* Around the gates.                                                       *)

\* A middleware authenticates the request, or another scheme does so later.
Authenticate(u) ==
  /\ gate = NoGate
  /\ user' = u
  /\ UNCHANGED <<item, snapshot, loop, baggage, auxiliary>>

\* A faulty variant: the context is made anew each time.
ContextNow == user

\* GetContextAsync: the context made of the user when it was first asked for.
Context == IF item = NoContext THEN user ELSE item

\* The targeting middleware; a request may have no activity to add baggage to.
AddBaggage ==
  /\ gate = NoGate
  /\ baggage = NoContext
  /\ item' = Context
  /\ baggage' \in {NoContext, Context}
  /\ UNCHANGED <<user, snapshot, loop, auxiliary>>

-----------------------------------------------------------------------------
(* What a gate asks.                                                       *)

FeaturesOf(g) == Declared[g].features
VariantsOf(g) == Declared[g].variants

\* An empty name disables a tag before its variants are looked at.
IsVariantTag(g) == FeaturesOf(g) # <<>> /\ VariantsOf(g) # <<>>

\* The tag throws: several features, or several variants and the requirement All.
Misused(g) ==
  /\ IsVariantTag(g)
  /\ (Len(FeaturesOf(g)) # 1 \/ (Len(VariantsOf(g)) # 1 /\ Declared[g].all))

Questions(g) == Len(IF IsVariantTag(g) THEN VariantsOf(g) ELSE FeaturesOf(g))

Asked == FeaturesOf(gate)[IF IsVariantTag(gate) THEN 1 ELSE pos]

\* The answer that ends the loop of Any, and of All.
Deciding(g) == IsVariantTag(g) \/ ~Declared[g].all

-----------------------------------------------------------------------------
(* The loop of Any or All.                                                 *)

Finish(g, result) ==
  /\ gate' = NoGate
  /\ pos' = 1
  /\ rule' = NoRule
  /\ decision' = [decision EXCEPT ![g] = result]

\* Negate, and the next delegate runs, or does not.
Decide(g, enabled) ==
  Finish(g, IF enabled # Declared[g].negate THEN "allow" ELSE "deny")

\* A faulty variant: the last item is not recognised as the last.
TakeOn(yes) ==
  \/ /\ (yes <=> Deciding(gate)) \/ pos > Questions(gate)
     /\ Decide(gate, yes)
  \/ /\ ~(yes <=> Deciding(gate)) /\ pos <= Questions(gate)
     /\ pos' = pos + 1
     /\ rule' = NoRule
     /\ UNCHANGED <<gate, decision>>

\* The predicate has answered: break, or go on with the next item.  What ends the
\* loop, the deciding answer or the last one, is also what it returns.
Take(yes) ==
  \/ /\ (yes <=> Deciding(gate)) \/ pos = Questions(gate)
     /\ Decide(gate, yes)
  \/ /\ ~(yes <=> Deciding(gate)) /\ pos < Questions(gate)
     /\ pos' = pos + 1
     /\ rule' = NoRule
     /\ UNCHANGED <<gate, decision>>

Enter(g) ==
  /\ gate = NoGate
  /\ decision[g] = "none"
  /\ FeaturesOf(g) # <<>> /\ ~Misused(g)
  /\ gate' = g
  /\ UNCHANGED <<user, item, snapshot, pos, rule, decision, baggage, auxiliary>>

\* A tag without a name is disabled, whatever it requires.
NoName(g) ==
  /\ gate = NoGate
  /\ decision[g] = "none"
  /\ FeaturesOf(g) = <<>>
  /\ Decide(g, FALSE)
  /\ UNCHANGED <<user, item, snapshot, baggage, auxiliary>>

Misuse(g) ==
  /\ gate = NoGate
  /\ decision[g] = "none"
  /\ Misused(g)
  /\ Finish(g, "thrown")
  /\ UNCHANGED <<user, item, snapshot, baggage, auxiliary>>

-----------------------------------------------------------------------------
(* IsEnabledAsync of the snapshot.                                         *)

AskingFlag == gate # NoGate /\ ~IsVariantTag(gate)
AskingVariant == gate # NoGate /\ IsVariantTag(gate)

\* GetFeatureDefinitionAsync hands out a definition, whichever the provider holds.
Fetch ==
  /\ rule' \in Rules
  /\ UNCHANGED <<user, item, snapshot, gate, pos, decision, baggage, auxiliary>>

\* A faulty variant: the evaluation that the snapshot holds is not used.
FlagMissAlways == AskingFlag /\ rule = NoRule /\ Fetch

FlagMiss == AskingFlag /\ rule = NoRule /\ flags[Asked] = "none" /\ Fetch

FlagHit ==
  /\ AskingFlag /\ rule = NoRule
  /\ flags[Asked] \in {"on", "off"}
  /\ Take(flags[Asked] = "on")
  /\ UNCHANGED <<user, item, snapshot, baggage, auxiliary>>

\* The snapshot holds the faulted evaluation, and it throws again.
FlagHitFault ==
  /\ AskingFlag /\ rule = NoRule
  /\ flags[Asked] = "fault"
  /\ Finish(gate, "thrown")
  /\ UNCHANGED <<user, item, snapshot, baggage, auxiliary>>

\* Filters and variants that look at the user ask the accessor. A session manager may
\* hold any state for the feature: the application supplies them, and they may be
\* shared with other requests.
Evaluate(state) == item' = IF rule.reads[state] THEN Context ELSE item

FlagAnswer ==
  /\ AskingFlag /\ rule # NoRule
  /\ \E state \in Session : LET out == rule.outcome[state] IN
       /\ Evaluate(state)
       /\ flags' = [flags EXCEPT ![Asked] = out[Context].flag]
       /\ flagFor' = [flagFor EXCEPT ![Asked] = [u \in Users |-> out[u].flag]]
       /\ Take(out[Context].flag = "on")
  /\ UNCHANGED <<user, variants, baggage, variantFor>>

\* The evaluation throws, before or after it has asked for the user.
FlagFault ==
  /\ AskingFlag /\ rule # NoRule
  /\ (\E state \in Session : Evaluate(state)) \/ item' = item
  /\ flags' = [flags EXCEPT ![Asked] = "fault"]
  /\ Finish(gate, "thrown")
  /\ UNCHANGED <<user, variants, baggage, auxiliary>>

-----------------------------------------------------------------------------
(* GetVariantAsync of the snapshot, once for each variant the tag names.   *)

Matches(v) == VariantsOf(gate)[pos] = v

VariantMiss == AskingVariant /\ rule = NoRule /\ variants[Asked] = NoValue /\ Fetch

VariantHit ==
  /\ AskingVariant /\ rule = NoRule
  /\ variants[Asked] # NoValue
  /\ Take(Matches(variants[Asked]))
  /\ UNCHANGED <<user, item, snapshot, baggage, auxiliary>>

VariantAnswer ==
  /\ AskingVariant /\ rule # NoRule
  /\ \E state \in Session : LET out == rule.outcome[state] IN
       /\ Evaluate(state)
       /\ variants' = [variants EXCEPT ![Asked] = out[Context].variant]
       /\ variantFor' = [variantFor EXCEPT ![Asked] = [u \in Users |-> out[u].variant]]
       /\ Take(Matches(out[Context].variant))
  /\ UNCHANGED <<user, flags, baggage, flagFor>>

\* Nothing is stored of a variant that could not be evaluated.
VariantFault ==
  /\ AskingVariant /\ rule # NoRule
  /\ (\E state \in Session : Evaluate(state)) \/ item' = item
  /\ Finish(gate, "thrown")
  /\ UNCHANGED <<user, snapshot, baggage, auxiliary>>

-----------------------------------------------------------------------------

Step ==
  \/ FlagMiss \/ FlagHit \/ FlagHitFault \/ FlagAnswer \/ FlagFault
  \/ VariantMiss \/ VariantHit \/ VariantAnswer \/ VariantFault

Next ==
  \/ \E u \in Users : Authenticate(u)
  \/ AddBaggage
  \/ \E g \in Gates : Enter(g) \/ NoName(g) \/ Misuse(g)
  \/ Step

Spec == Init /\ [][Next]_vars

-----------------------------------------------------------------------------

Decisions == {"none", "allow", "deny", "thrown"}

\* Every variable has its type, and a gate in progress is at one of its items.
TypeOK ==
  /\ user \in Users
  /\ item \in Users \cup {NoContext}
  /\ flags \in [Features -> {"none", "on", "off", "fault"}]
  /\ variants \in [Features -> Names \cup {NoVariant, NoValue}]
  /\ gate \in Gates \cup {NoGate}
  /\ pos \in Nat
  /\ rule \in Rules \cup {NoRule}
  /\ decision \in [Gates -> Decisions]
  /\ baggage \in Users \cup {NoContext}
  /\ flagFor \in [Features -> [Users -> {"none", "on", "off"}]]
  /\ variantFor \in [Features -> [Users -> Names \cup {NoVariant, NoValue}]]
  /\ gate = NoGate => pos = 1 /\ rule = NoRule
  /\ gate # NoGate => pos \in 1..Questions(gate) /\ ~Misused(gate)

\* Whether a gate is enabled when flags and variants have these values.
Enabled(g, on, assigned) ==
  /\ FeaturesOf(g) # <<>>
  /\ IF IsVariantTag(g)
     THEN \E i \in 1..Len(VariantsOf(g)) : VariantsOf(g)[i] = assigned[FeaturesOf(g)[1]]
     ELSE IF Declared[g].all
     THEN \A i \in 1..Len(FeaturesOf(g)) : on[FeaturesOf(g)[i]]
     ELSE \E i \in 1..Len(FeaturesOf(g)) : on[FeaturesOf(g)[i]]

\* The gates of a request see one state of the features (IFeatureManagerSnapshot):
\* one value of every flag and variant explains all their decisions, in whatever
\* order each asks, wherever it stops, whatever it requires or negates, whichever
\* definitions are handed out in between and whatever the session holds.
GatesAgree ==
  \E on \in [Features -> BOOLEAN], assigned \in [Features -> Names \cup {NoVariant}] :
    \A g \in Gates : decision[g] \in {"allow", "deny"} =>
      (decision[g] = "allow") = (Enabled(g, on, assigned) # Declared[g].negate)

\* A request is served to one user (DefaultHttpTargetingContextAccessor caches the
\* context): the same one accounts for every flag and variant of the request, each by
\* the definition and the session state it was evaluated under, and for the telemetry's
\* targeting id, although the request may be authenticated at any time.
OneUser ==
  \E u \in Users :
    /\ baggage \in {NoContext, u}
    /\ \A f \in Features :
         /\ flags[f] \in {"on", "off"} => flags[f] = flagFor[f][u]
         /\ variants[f] # NoValue => variants[f] = variantFor[f][u]

=============================================================================
