------------------------- MODULE MCFeatureEvaluation -------------------------
(***************************************************************************)
(* Instances of FeatureEvaluation for TLC.                                 *)
(***************************************************************************)
EXTENDS FeatureEvaluation, FiniteSets

CONSTANT a   \* a caller

AllNames == {"on", "random", "targeting", "both", "account", "unknown", "twice"}

\* A plain filter; the two targeting filters, which share their alias; a filter
\* with both interfaces; a contextual one; and two of the same name.
Filters ==
  { [names |-> {"random"}, contexts |-> {}, plain |-> TRUE],
    [names |-> {"targeting"}, contexts |-> {}, plain |-> TRUE],
    [names |-> {"targeting"}, contexts |-> {"targeting"}, plain |-> FALSE],
    [names |-> {"both"}, contexts |-> {"targeting"}, plain |-> TRUE],
    [names |-> {"account"}, contexts |-> {"account"}, plain |-> FALSE],
    [names |-> {"twice"}, contexts |-> {}, plain |-> TRUE],
    [names |-> {"twice"}, contexts |-> {"account"}, plain |-> TRUE] }

Types == {"targeting", "account"}

AllArgs == {NoContext} \cup [type : Types, user : {"u"}]
NoArgs == {NoContext}
AnyUser == {NoUser, "u", "v"}
Signed == {"u"}

Simple(status, requirement, filters) ==
  [name |-> "f", captured |-> TRUE, status |-> status, requirement |-> requirement,
   filters |-> filters, variants |-> << >>, allocation |-> NoAllocation]

Lists ==
  {<< >>} \cup {<<x>> : x \in AllNames}
    \cup {<<x, y>> : x \in AllNames, y \in {"on", "random", "both"}}

\* Lists of at most two filters, under both requirements.
FilterDefinitions ==
  {Simple("Conditional", r, l) : r \in {"Any", "All"}, l \in Lists}

Allocate(user, group, percentile, on, off) ==
  [user |-> user, group |-> group, percentile |-> percentile,
   whenEnabled |-> on, whenDisabled |-> off]

Give(users, name) == [to |-> users, variant |-> name]

For(users, name) == <<Give(users, name)>>

\* Allocations that assign by user, by group and by percentile, with rules that
\* name no variant or one that does not exist, and lists of different lengths.
Allocations ==
  { Allocate(<<Give({"v"}, "small"), Give({"u"}, "big")>>, << >>, For({"u", "v"}, "small"), "small", "big"),
    Allocate(For({"u"}, NoName), For({"u", "v"}, "big"), << >>, "small", NoName),
    Allocate(<< >>, For({"v"}, "lost"), For({"u"}, NoName), NoName, "small"),
    NoAllocation }

WithVariants(status, captured, override) ==
  {[name |-> "f", captured |-> captured, status |-> status, requirement |-> "Any",
    filters |-> <<"random">>, variants |-> [big |-> override, small |-> override],
    allocation |-> al] : al \in Allocations}

\* Definitions whose variants leave the state alone, or are not enabled.
VariantDefinitions ==
  WithVariants("Conditional", TRUE, "None") \cup WithVariants("Conditional", FALSE, "None")
    \cup WithVariants("Disabled", TRUE, "Enabled")

\* Definitions that are reloaded: those, and two lists of filters.
PlainDefinitions ==
  VariantDefinitions
    \cup {Simple("Conditional", "Any", <<"on">>), Simple("Conditional", "All", <<"random", "account">>)}

StableDefinitions == FilterDefinitions \cup PlainDefinitions

Reloaded == PlainDefinitions \cup {NoDefinition}

\* The lists of filters are evaluated as they are, by one spelling of the name; the other
\* definitions by both and across a reload, which does not make captured definitions live.
MCNext ==
  /\ Next
  /\ definition' # definition =>
       /\ definition \in Reloaded /\ definition' \in Reloaded
       /\ NoDefinition \notin {definition, definition'} =>
            definition.captured = definition'.captured
  /\ definition \notin Reloaded => reloads' = 0 /\ \A t \in Callers : feature'[t] # "F"

MCSpec == Init /\ [][MCNext]_vars

=============================================================================
