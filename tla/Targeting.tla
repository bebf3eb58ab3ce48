------------------------------- MODULE Targeting -------------------------------
(***************************************************************************)
(* TargetingEvaluator: who is in the audience of a feature, and in which   *)
(* share of a percentile allocation, while the audience is edited.         *)
(*                                                                         *)
(* A percentage is counted in 0..Full, Full being 100; the SHA-256 hash of *)
(* a context id is any function to that range. Names are compared by       *)
(* OrdinalIgnoreCase and hashed as the server's culture lowers them: the two *)
(* need not agree on which names differ in case only.                      *)
(***************************************************************************)
EXTENDS Integers, Sequences, FiniteSets

CONSTANTS
  Users, Groups,
  Fold,           \* the name that stands for all that OrdinalIgnoreCase takes for it
  Cultures,       \* the functions ToLower may be, one for each culture
  IgnoreCase,     \* TargetingEvaluationOptions.IgnoreCase
  Full,
  Hashes,         \* the hash functions to choose from
  NoUser,         \* a context without a user id
  NoGroup,        \* a context id made without a group
  MaxGroups,      \* bound: the rollouts an audience may have
  MaxEntries      \* bound: the users, rollouts and exclusions an audience may list

Names == Users \cup Groups
Percentage == 0..Full
Amount == Int     \* a percentage as the settings hold it, in range or not
ContextIds == (Users \cup {NoUser}) \X (Groups \cup {NoGroup})

ASSUME FullAssumption == Full \in Nat \ {0}
ASSUME LowerAssumption ==
  \A f \in Cultures \cup {Fold} :
    /\ \A u \in Users : f[u] \in Users
    /\ \A g \in Groups : f[g] \in Groups
ASSUME NoNameAssumption == NoUser \notin Names /\ NoGroup \notin Names
ASSUME HashAssumption == Hashes \subseteq [ContextIds -> Percentage]
ASSUME OptionAssumption == IgnoreCase \in BOOLEAN /\ MaxGroups \in Nat /\ MaxEntries \in Nat

Context == [user : Users \cup {NoUser}, groups : SUBSET Groups]
Rollout == [name : Groups, percentage : Amount]
Audience == [users : SUBSET Users, groups : Seq(Rollout), default : Amount,
             excludedUsers : SUBSET Users, excludedGroups : SUBSET Groups]

VARIABLES
  hash,
  lower,      \* ToLower in the culture of the server
  validated,  \* BindParameters made the settings (else they came as ParametersObject)
  audience,   \* TargetingFilterSettings.Audience
  shares      \* the boundaries of a percentile allocation

server == <<hash, lower, validated>>
vars == <<server, audience, shares>>

-----------------------------------------------------------------------------
(* TargetingEvaluator.                                                     *)

\* What a name is hashed as.
Normal(name) == IF IgnoreCase /\ name \in Names THEN lower[name] ELSE name

\* GetComparisonType.
Comparable(name) == IF IgnoreCase /\ name \in Names THEN Fold[name] ELSE name
Same(a, b) == Comparable(a) = Comparable(b)

\* A faulty variant: the group enters the id as it was written.
IdAsWritten(c, group) == <<Normal(c.user), group>>

Id(c, group) == <<Normal(c.user), Normal(group)>>

\* A faulty variant: the last bucket is not treated apart.
HalfOpen(bucket, from, to) == from <= bucket /\ bucket < to

\* A faulty variant: the upper bound is included in every range.
Closed(bucket, from, to) == from <= bucket /\ bucket <= to

InPercentage(bucket, from, to) ==
  from <= bucket /\ (to = Full \/ bucket < to)

Listed(c, users) == \E u \in users : c.user # NoUser /\ Same(c.user, u)

Excluded(c, a) ==
  \/ Listed(c, a.excludedUsers)
  \/ \E g \in c.groups, e \in a.excludedGroups : Same(g, e)

\* A faulty variant: the last rollout that names a group is the one that counts.
LastGoverns(i, group, a) ==
  /\ Same(a.groups[i].name, group)
  /\ \A j \in DOMAIN a.groups : j > i => ~Same(a.groups[j].name, group)

\* FirstOrDefault: the first rollout that names a group, lowered, is the one that counts.
Governs(i, group, a) ==
  /\ Same(a.groups[i].name, group)
  /\ \A j \in DOMAIN a.groups : j < i => ~Same(a.groups[j].name, group)

InGroupRollout(c, a) ==
  \E g \in c.groups : \E i \in DOMAIN a.groups :
    /\ Governs(i, Normal(g), a)
    /\ InPercentage(hash[Id(c, g)], 0, a.groups[i].percentage)

InDefaultRollout(c, a) == InPercentage(hash[Id(c, NoGroup)], 0, a.default)

IsTargeted(c, a) ==
  /\ ~Excluded(c, a)
  /\ \/ Listed(c, a.users)
     \/ InGroupRollout(c, a)
     \/ InDefaultRollout(c, a)

\* A faulty variant: percentages have no upper bound.
InRangeBelow(p) == ~(p < 0)

InRange(p) == ~(p < 0 \/ p > Full)

\* TryValidateSettings, which BindParameters calls: an evaluation of settings bound from
\* the configuration throws unless they are valid. Settings supplied as an object are
\* never validated.
Valid(a) ==
  /\ InRange(a.default)
  /\ \A i \in DOMAIN a.groups : InRange(a.groups[i].percentage)

\* The i-th share of the percentile allocation assigns its variant to the context.
HasShare(c, i) == InPercentage(hash[Id(c, NoGroup)], shares[i], shares[i + 1])

-----------------------------------------------------------------------------
(* Edits of the settings that widen the audience or exclude from it: of the  *)
(* configuration they are bound from, or of the object that supplies them. *)

Init ==
  /\ hash \in Hashes
  /\ lower \in Cultures
  /\ validated \in BOOLEAN
  /\ audience = [users |-> {}, groups |-> << >>, default |-> 0,
                 excludedUsers |-> {}, excludedGroups |-> {}]
  /\ shares = <<0, Full>>

Entries(a) ==
  Len(a.groups) + Cardinality(a.users) + Cardinality(a.excludedUsers)
    + Cardinality(a.excludedGroups)

\* The settings that evaluations go on with: bound ones only if they are valid.
Edit(a) ==
  /\ Entries(a) <= MaxEntries
  /\ validated => Valid(a)
  /\ audience' = a
  /\ UNCHANGED <<server, shares>>

Include(u) == Edit([audience EXCEPT !.users = @ \cup {u}])

Raise(p) == p > audience.default /\ Edit([audience EXCEPT !.default = p])

AddRollout(g, p) ==
  /\ Len(audience.groups) < MaxGroups
  /\ Edit([audience EXCEPT !.groups = Append(@, [name |-> g, percentage |-> p])])

RaiseRollout(i, p) ==
  /\ p > audience.groups[i].percentage
  /\ Edit([audience EXCEPT !.groups =
             [@ EXCEPT ![i] = [name |-> audience.groups[i].name, percentage |-> p]]])

ExcludeUser(u) == Edit([audience EXCEPT !.excludedUsers = @ \cup {u}])

ExcludeGroup(g) == Edit([audience EXCEPT !.excludedGroups = @ \cup {g}])

\* A share is split in two.
Split(i, p) ==
  /\ shares[i] < p /\ p < shares[i + 1]
  /\ shares' = [j \in 1..Len(shares) + 1 |->
                  IF j <= i THEN shares[j] ELSE IF j = i + 1 THEN p ELSE shares[j - 1]]
  /\ UNCHANGED <<server, audience>>

EditAudience ==
  \/ \E u \in Users : Include(u) \/ ExcludeUser(u)
  \/ \E g \in Groups : ExcludeGroup(g)
  \/ \E p \in -1..Full + 1 :
       \/ Raise(p)
       \/ \E g \in Groups : AddRollout(g, p)
       \/ \E i \in DOMAIN audience.groups : RaiseRollout(i, p)

Next ==
  \/ EditAudience
  \/ \E i \in 1..Len(shares) - 1, p \in Percentage : Split(i, p)

Spec == Init /\ [][Next]_vars

-----------------------------------------------------------------------------

\* The variables have the types their declarations say, and settings bound from the
\* configuration are never evaluated with a percentage out of range.
TypeOK ==
  /\ hash \in [ContextIds -> Percentage]
  /\ lower \in Cultures
  /\ validated \in BOOLEAN
  /\ audience \in Audience
  /\ validated =>
       /\ audience.default \in Percentage
       /\ \A i \in DOMAIN audience.groups : audience.groups[i].percentage \in Percentage
  /\ shares \in Seq(Percentage)

\* Who is in the audience stays in it while it is widened, whatever rollouts are
\* raised or added, unless excluded (IsTargeted hashes independently of percentages).
RampUpKeeps ==
  [][\A c \in Context :
       IsTargeted(c, audience) /\ ~Excluded(c, audience') => IsTargeted(c, audience)']_vars

\* At 100 percent everybody who is not excluded is targeted, whose hash is the
\* greatest one too.
FullIsEverybody ==
  \A c \in Context : audience.default = Full /\ ~Excluded(c, audience) => IsTargeted(c, audience)

\* Two spellings that differ in case only, to the comparison and to the culture alike.
Alike(a, b) == Same(a, b) /\ Normal(a) = Normal(b)

\* With IgnoreCase, spellings of the user and of the groups that the comparison takes
\* for the same and the culture lowers to the same are targeted alike, whatever the
\* settings, their own spellings included: no rule reads a name as it was written.
CaseDoesNotMatter ==
  IgnoreCase =>
    \A c, d \in Context :
      /\ Alike(c.user, d.user)
      /\ \A g \in c.groups : \E h \in d.groups : Alike(g, h)
      /\ \A h \in d.groups : \E g \in c.groups : Alike(g, h)
      => (IsTargeted(c, audience) <=> IsTargeted(d, audience))

\* Shares that follow one another from 0 to 100 percent give every user one of them
\* and no user two.
OneShareEach ==
  \A c \in Context : \E i \in 1..Len(shares) - 1 :
    /\ HasShare(c, i)
    /\ \A j \in 1..Len(shares) - 1 : HasShare(c, j) => j = i

=============================================================================
