---------------------------- MODULE TargetingProofs ----------------------------
(***************************************************************************)
(* Proofs about Targeting, for any names, cultures, hash functions and     *)
(* percentages, in range or not.                                           *)
(***************************************************************************)
EXTENDS Targeting, TLAPS

\* A user's name is hashed as a user's, and a group's as a group's.
LEMMA NormalName ==
  ASSUME TypeOK
  PROVE
  /\ \A u \in Users \cup {NoUser} : Normal(u) \in Users \cup {NoUser}
  /\ \A g \in Groups \cup {NoGroup} : Normal(g) \in Groups \cup {NoGroup}
  BY LowerAssumption, NoNameAssumption DEF Normal, Names, TypeOK

\* The id a context is hashed by is in the domain of the hash functions.
LEMMA IdType ==
  ASSUME NEW c \in Context, NEW g \in Groups \cup {NoGroup}, TypeOK
  PROVE  Id(c, g) \in ContextIds
<1>1. c.user \in Users \cup {NoUser}
  BY DEF Context
<1> QED
  BY <1>1, NormalName DEF Id, ContextIds

\* So it is hashed to a percentage.
LEMMA HashType ==
  ASSUME NEW c \in Context, NEW g \in Groups \cup {NoGroup}, TypeOK
  PROVE  hash[Id(c, g)] \in 0..Full
  BY IdType DEF TypeOK, Percentage

\* The elements of a sequence, and a sequence over a smaller set.
LEMMA Elements ==
  ASSUME NEW S, NEW T, NEW s \in Seq(S)
  PROVE  /\ DOMAIN s = 1..Len(s) /\ Len(s) \in Nat
         /\ \A i \in 1..Len(s) : s[i] \in S
         /\ (\A i \in 1..Len(s) : s[i] \in T) => s \in Seq(T)
         /\ \A i \in 1..Len(s), e \in S : [s EXCEPT ![i] = e] \in Seq(S)
  OBVIOUS

\* An edit that keeps the types of the audience keeps the type invariant: bound settings
\* are validated.
LEMMA EditTypes ==
  ASSUME TypeOK, NEW a \in Audience, Edit(a)
  PROVE  TypeOK'
<1>1. InRange(a.default) <=> a.default \in Percentage
  BY FullAssumption DEF InRange, Percentage, Audience, Amount
<1>2. \A i \in DOMAIN a.groups :
        InRange(a.groups[i].percentage) <=> a.groups[i].percentage \in Percentage
  <2> DEFINE s == a.groups
  <2>1. s \in Seq(Rollout)
    BY DEF Audience
  <2>2. \A i \in DOMAIN s : s[i] \in Rollout
    BY <2>1, Elements, Zenon
  <2>3. \A i \in DOMAIN s : s[i].percentage \in Int
    BY <2>2 DEF Rollout, Amount
  <2> QED BY <2>3, FullAssumption DEF InRange, Percentage
<1> QED BY <1>1, <1>2 DEF Edit, Valid, TypeOK, server

\* Every variable keeps its type; bound settings are in range when they are evaluated.
THEOREM Types == Spec => []TypeOK
<1>1. Init => TypeOK
  BY HashAssumption, FullAssumption DEF Init, TypeOK, Audience, Percentage, Amount
<1>2. TypeOK /\ [Next]_vars => TypeOK'
  <2> SUFFICES ASSUME TypeOK, [Next]_vars PROVE TypeOK'
    OBVIOUS
  <2> USE FullAssumption
  <2>0. /\ audience \in Audience /\ audience.users \in SUBSET Users
        /\ audience.excludedUsers \in SUBSET Users /\ audience.excludedGroups \in SUBSET Groups
        /\ audience.default \in Amount
        /\ audience.groups \in Seq(Rollout)
    BY DEF TypeOK, Audience
  <2>1. ASSUME NEW u \in Users, Include(u) PROVE TypeOK'
    BY <2>0, <2>1, EditTypes DEF Include, Audience
  <2>2. ASSUME NEW u \in Users, ExcludeUser(u) PROVE TypeOK'
    BY <2>0, <2>2, EditTypes DEF ExcludeUser, Audience
  <2>3. ASSUME NEW g \in Groups, ExcludeGroup(g) PROVE TypeOK'
    BY <2>0, <2>3, EditTypes DEF ExcludeGroup, Audience
  <2>4. ASSUME NEW p \in -1..Full + 1, Raise(p) PROVE TypeOK'
    <3>1. p \in Amount
      BY DEF Amount
    <3> QED BY <2>0, <2>4, <3>1, EditTypes DEF Raise, Audience
  <2>5. ASSUME NEW p \in -1..Full + 1, NEW g \in Groups, AddRollout(g, p) PROVE TypeOK'
    <3>1. Append(audience.groups, [name |-> g, percentage |-> p]) \in Seq(Rollout)
      BY <2>0 DEF Rollout, Amount
    <3> QED BY <2>0, <2>5, <3>1, EditTypes DEF AddRollout, Audience
  <2>6. ASSUME NEW p \in -1..Full + 1, NEW i \in DOMAIN audience.groups, RaiseRollout(i, p)
        PROVE TypeOK'
    <3> DEFINE s == audience.groups
               e == [name |-> s[i].name, percentage |-> p]
    <3>0. s \in Seq(Rollout) /\ i \in DOMAIN s
      BY <2>0
    <3>2. i \in 1..Len(s) /\ s[i] \in Rollout
      BY <3>0, Elements, Zenon
    <3>3. e \in Rollout
      BY <3>2 DEF Rollout, Amount
    <3> HIDE DEF e
    <3>4. [s EXCEPT ![i] = e] \in Seq(Rollout)
      BY <3>0, <3>2, <3>3, Elements, Zenon
    <3>1. [audience.groups EXCEPT ![i] = [name |-> audience.groups[i].name, percentage |-> p]]
            \in Seq(Rollout)
      BY <3>4 DEF e
    <3> QED BY <2>0, <2>6, <3>1, EditTypes DEF RaiseRollout, Audience
  <2>7. ASSUME NEW i \in 1..Len(shares) - 1, NEW p \in Percentage, Split(i, p) PROVE TypeOK'
    <3>1. shares' \in Seq(Percentage)
      BY <2>7 DEF Split, TypeOK
    <3> QED BY <2>7, <3>1 DEF Split, TypeOK, server
  <2>8. CASE UNCHANGED vars
    BY <2>8 DEF vars, server, TypeOK
  <2> QED BY <2>1, <2>2, <2>3, <2>4, <2>5, <2>6, <2>7, <2>8 DEF Next, EditAudience
<1> QED BY <1>1, <1>2, PTL DEF Spec

-----------------------------------------------------------------------------

\* A range from 0 reaches as far as a greater percentage does, in range or not.
LEMMA WiderRange ==
  ASSUME NEW b \in 0..Full, NEW p \in Int, NEW q \in Int, p <= q,
         InPercentage(b, 0, p)
  PROVE  InPercentage(b, 0, q)
  BY FullAssumption DEF InPercentage

\* An audience that has all that another has, and the same rollouts in front, targets
\* whom the other targets.
LEMMA Widening ==
  ASSUME TypeOK, NEW a \in Audience, NEW b \in Audience, NEW c \in Context,
         a.users \subseteq b.users, a.default <= b.default,
         Len(a.groups) <= Len(b.groups),
         \A i \in 1..Len(a.groups) :
           /\ b.groups[i].name = a.groups[i].name
           /\ a.groups[i].percentage <= b.groups[i].percentage,
         IsTargeted(c, a), ~Excluded(c, b)
  PROVE  IsTargeted(c, b)
<1> DEFINE s == a.groups
           r == b.groups
<1>1. s \in Seq(Rollout) /\ r \in Seq(Rollout)
  BY DEF Audience
<1>2. /\ DOMAIN s = 1..Len(s) /\ DOMAIN r = 1..Len(r)
      /\ Len(s) \in Nat /\ Len(r) \in Nat
      /\ \A i \in 1..Len(s) : s[i] \in Rollout
      /\ \A i \in 1..Len(r) : r[i] \in Rollout
  BY <1>1, Elements, Zenon
<1>3. CASE Listed(c, a.users)
  BY <1>3 DEF IsTargeted, Listed
<1>4. CASE InDefaultRollout(c, a)
  <2>1. a.default \in Int /\ b.default \in Int
    BY DEF Audience, Amount
  <2> QED BY <1>4, <2>1, HashType, WiderRange DEF InDefaultRollout, IsTargeted
<1>5. CASE InGroupRollout(c, a)
  <2>1. PICK g \in c.groups, i \in 1..Len(s) :
          Governs(i, Normal(g), a) /\ InPercentage(hash[Id(c, g)], 0, s[i].percentage)
    BY <1>2, <1>5 DEF InGroupRollout
  <2>2. i \in 1..Len(r) /\ g \in Groups
    BY <1>2 DEF Context
  <2>3. s[i].percentage \in Int /\ r[i].percentage \in Int
    BY <1>2, <2>2 DEF Rollout, Amount
  <2>4. hash[Id(c, g)] \in 0..Full
    BY <2>2, HashType
  <2>5. InPercentage(hash[Id(c, g)], 0, r[i].percentage)
    BY <2>1, <2>3, <2>4, WiderRange
  <2>6. Governs(i, Normal(g), b)
    <3>1. Same(r[i].name, Normal(g))
      BY <1>2, <2>1 DEF Governs
    <3>2. ASSUME NEW j \in 1..Len(r), j < i PROVE ~Same(r[j].name, Normal(g))
      <4>1. j \in 1..Len(s)
        BY <1>2, <3>2
      <4> QED BY <1>2, <2>1, <3>2, <4>1 DEF Governs
    <3> QED BY <1>2, <3>1, <3>2 DEF Governs
  <2> QED BY <1>2, <2>1, <2>2, <2>5, <2>6 DEF InGroupRollout, IsTargeted
<1> QED BY <1>3, <1>4, <1>5 DEF IsTargeted

\* Who is in the audience stays in it while it is widened, unless excluded.
THEOREM RampUp == Spec => RampUpKeeps
<1> DEFINE Keeps == \A c \in Context :
             IsTargeted(c, audience) /\ ~Excluded(c, audience') => IsTargeted(c, audience)'
           Front == \A i \in 1..Len(audience.groups) :
                      /\ audience'.groups[i].name = audience.groups[i].name
                      /\ audience.groups[i].percentage <= audience'.groups[i].percentage
<1>1. TypeOK /\ TypeOK' /\ [Next]_vars => Keeps
  <2> SUFFICES ASSUME TypeOK, TypeOK', [Next]_vars, NEW c \in Context,
                      IsTargeted(c, audience), ~Excluded(c, audience')
               PROVE  IsTargeted(c, audience)'
    OBVIOUS
  <2>1. audience \in Audience /\ audience' \in Audience /\ audience.groups \in Seq(Rollout)
    BY DEF TypeOK, Audience
  <2>2. /\ DOMAIN audience.groups = 1..Len(audience.groups) /\ Len(audience.groups) \in Nat
        /\ \A i \in 1..Len(audience.groups) : audience.groups[i] \in Rollout
    BY <2>1, Elements, Zenon
  <2>3. \A i \in 1..Len(audience.groups) : audience.groups[i].percentage \in Int
    BY <2>2 DEF Rollout, Amount
  <2>4. audience.default \in Int
    BY <2>1 DEF Audience, Amount
  <2>5. CASE EditAudience
    <3>1. hash' = hash /\ lower' = lower
      BY <2>5 DEF EditAudience, Include, ExcludeUser, ExcludeGroup, Raise, AddRollout,
                  RaiseRollout, Edit, server
    <3>2. ASSUME /\ audience.users \subseteq audience'.users
                 /\ audience.default <= audience'.default
                 /\ Len(audience.groups) <= Len(audience'.groups)
                 /\ Front
          PROVE  IsTargeted(c, audience)'
      <4>1. IsTargeted(c, audience')
        BY <2>1, <3>2, Widening
      <4> QED BY <3>1, <4>1 DEF IsTargeted, Excluded, Listed, InGroupRollout,
                               InDefaultRollout, Governs, Id, Normal, Same, Comparable
    <3>3. ASSUME NEW u \in Users, Include(u) PROVE IsTargeted(c, audience)'
      BY <2>1, <2>2, <2>3, <2>4, <3>2, <3>3 DEF Include, Edit, Audience
    <3>4. ASSUME NEW u \in Users, ExcludeUser(u) PROVE IsTargeted(c, audience)'
      BY <2>1, <2>2, <2>3, <2>4, <3>2, <3>4 DEF ExcludeUser, Edit, Audience
    <3>5. ASSUME NEW g \in Groups, ExcludeGroup(g) PROVE IsTargeted(c, audience)'
      BY <2>1, <2>2, <2>3, <2>4, <3>2, <3>5 DEF ExcludeGroup, Edit, Audience
    <3>6. ASSUME NEW p \in -1..Full + 1, Raise(p) PROVE IsTargeted(c, audience)'
      <4>1. /\ audience'.users = audience.users /\ audience'.groups = audience.groups
            /\ audience'.default = p /\ p > audience.default /\ p \in Int
        BY <2>1, <3>6, FullAssumption DEF Raise, Edit, Audience
      <4>2. audience.default <= audience'.default
        BY <2>4, <4>1
      <4>3. Front /\ Len(audience.groups) <= Len(audience'.groups)
        BY <2>2, <2>3, <4>1
      <4> QED BY <3>2, <4>1, <4>2, <4>3
    <3>7. ASSUME NEW p \in -1..Full + 1, NEW g \in Groups, AddRollout(g, p)
          PROVE  IsTargeted(c, audience)'
      BY <2>1, <2>2, <2>3, <2>4, <3>2, <3>7 DEF AddRollout, Edit, Audience
    <3>8. ASSUME NEW p \in -1..Full + 1, NEW i \in DOMAIN audience.groups, RaiseRollout(i, p)
          PROVE  IsTargeted(c, audience)'
      BY <2>1, <2>2, <2>3, <2>4, <3>2, <3>8, FullAssumption DEF RaiseRollout, Edit, Audience
    <3> QED BY <2>5, <3>3, <3>4, <3>5, <3>6, <3>7, <3>8 DEF EditAudience
  <2>6. CASE ~EditAudience
    <3>1. UNCHANGED <<hash, lower, audience>>
      BY <2>6 DEF Next, Split, vars, server
    <3> QED BY <3>1 DEF IsTargeted, Excluded, Listed, InGroupRollout, InDefaultRollout,
                       Governs, Id, Normal, Same, Comparable
  <2> QED BY <2>5, <2>6
<1> QED BY <1>1, Types, PTL DEF Spec, RampUpKeeps

\* At 100 percent everybody who is not excluded is targeted.
THEOREM Everybody == Spec => []FullIsEverybody
<1>1. TypeOK => FullIsEverybody
  BY HashType, FullAssumption DEF FullIsEverybody, IsTargeted, InDefaultRollout, InPercentage
<1> QED BY <1>1, Types, PTL

\* Only no user compares equal to no user.
LEMMA ComparableUser ==
  ASSUME NEW u \in Users \cup {NoUser}
  PROVE  (Comparable(u) = NoUser) <=> (u = NoUser)
  BY LowerAssumption, NoNameAssumption DEF Comparable, Names

\* A context targeted by an audience, and one whose names differ in case only.
LEMMA SameCase ==
  ASSUME NEW c \in Context, NEW d \in Context, NEW a \in Audience,
         Alike(c.user, d.user),
         \A g \in c.groups : \E h \in d.groups : Alike(g, h),
         \A h \in d.groups : \E g \in c.groups : Alike(g, h),
         IsTargeted(c, a)
  PROVE  IsTargeted(d, a)
<1>1. c.user \in Users \cup {NoUser} /\ d.user \in Users \cup {NoUser}
  BY DEF Context
<1>2. c.user = NoUser <=> d.user = NoUser
  BY <1>1, ComparableUser DEF Alike, Same
<1>3. \A users : Listed(c, users) <=> Listed(d, users)
  BY <1>2 DEF Listed, Same, Alike
<1>6. ~Excluded(d, a)
  <2>1. ~Excluded(c, a)
    BY DEF IsTargeted
  <2> QED BY <1>3, <2>1 DEF Excluded, Same, Alike
<1>7. \A g, e : Normal(g) = Normal(e) => Id(c, g) = Id(d, e)
  BY DEF Id, Alike
<1>8. CASE Listed(c, a.users)
  BY <1>3, <1>6, <1>8 DEF IsTargeted
<1>9. CASE InDefaultRollout(c, a)
  BY <1>6, <1>7, <1>9 DEF IsTargeted, InDefaultRollout
<1>10. CASE InGroupRollout(c, a)
  <2>1. PICK g \in c.groups, i \in DOMAIN a.groups :
          Governs(i, Normal(g), a) /\ InPercentage(hash[Id(c, g)], 0, a.groups[i].percentage)
    BY <1>10 DEF InGroupRollout
  <2>2. PICK e \in d.groups : Normal(e) = Normal(g)
    BY <2>1 DEF Alike
  <2>3. Governs(i, Normal(e), a)
    BY <2>1, <2>2
  <2> QED BY <1>6, <1>7, <2>1, <2>2, <2>3 DEF IsTargeted, InGroupRollout
<1> QED BY <1>8, <1>9, <1>10 DEF IsTargeted

\* The case of the names in a context does not matter, where the comparison and the
\* culture agree on it.
THEOREM CaseBlind == Spec => []CaseDoesNotMatter
<1>1. TypeOK => CaseDoesNotMatter
  <2> SUFFICES ASSUME TypeOK, NEW c \in Context, NEW d \in Context,
                      Alike(c.user, d.user),
                      \A g \in c.groups : \E h \in d.groups : Alike(g, h),
                      \A h \in d.groups : \E g \in c.groups : Alike(g, h)
               PROVE  IsTargeted(c, audience) <=> IsTargeted(d, audience)
    BY Zenon DEF CaseDoesNotMatter
  <2>1. audience \in Audience
    BY DEF TypeOK
  <2>2. \A x, y : Alike(x, y) <=> Alike(y, x)
    BY DEF Alike, Same
  <2>3. IsTargeted(c, audience) => IsTargeted(d, audience)
    BY <2>1, SameCase, Zenon
  <2>4. /\ Alike(d.user, c.user)
        /\ \A g \in d.groups : \E h \in c.groups : Alike(g, h)
        /\ \A h \in c.groups : \E g \in d.groups : Alike(g, h)
    BY <2>2, Zenon
  <2>5. IsTargeted(d, audience) => IsTargeted(c, audience)
    BY <2>1, <2>4, SameCase, Zenon
  <2> QED BY <2>3, <2>5
<1> QED BY <1>1, Types, PTL

-----------------------------------------------------------------------------

\* The strengthening that splitting preserves: there is a share, and no boundary is
\* beyond 100 percent.
Divided == TypeOK /\ Len(shares) >= 2 /\ OneShareEach

\* A split share goes to one of its halves, the others keep whom they had.
LEMMA SplitShares ==
  ASSUME Divided, NEW i \in 1..Len(shares) - 1, NEW p \in Percentage, Split(i, p)
  PROVE  Len(shares') >= 2 /\ OneShareEach'
<1>1. /\ Len(shares) \in Nat /\ Len(shares) >= 2
      /\ \A j \in 1..Len(shares) : shares[j] \in 0..Full
      /\ Full \in Nat /\ p \in 0..Full
  <2>1. Len(shares) >= 2 /\ shares \in Seq(0..Full)
    BY DEF Divided, TypeOK, Percentage
  <2>2. Full \in Nat /\ p \in 0..Full
    BY FullAssumption DEF Percentage
  <2> QED BY <2>1, <2>2
<1>2. /\ shares' = [j \in 1..Len(shares) + 1 |->
                     IF j <= i THEN shares[j] ELSE IF j = i + 1 THEN p ELSE shares[j - 1]]
      /\ shares[i] < p /\ p < shares[i + 1] /\ hash' = hash /\ lower' = lower
  BY DEF Split, server
<1>3. Len(shares') = Len(shares) + 1
  BY <1>1, <1>2
<1>4. ASSUME NEW c \in Context
      PROVE  \E k \in 1..Len(shares') - 1 :
               HasShare(c, k)' /\ \A j \in 1..Len(shares') - 1 : HasShare(c, j)' => j = k
  <2> DEFINE b == hash[Id(c, NoGroup)]
             In(j) == InPercentage(b, shares[j], shares[j + 1])
             New(j) == InPercentage(b, shares'[j], shares'[j + 1])
  <2>1. b \in 0..Full
    BY HashType DEF Divided
  <2>2. PICK k \in 1..Len(shares) - 1 : In(k) /\ \A j \in 1..Len(shares) - 1 : In(j) => j = k
    BY DEF Divided, OneShareEach, HasShare
  <2>3. \A j \in 1..Len(shares) : j < i => (New(j) <=> In(j))
    BY <1>1, <1>2
  <2>4. \A j \in 1..Len(shares) : j > i + 1 => (New(j) <=> In(j - 1))
    BY <1>1, <1>2
  <2>5. /\ New(i) <=> (shares[i] <= b /\ b < p)
        /\ New(i + 1) <=> (p <= b /\ (shares[i + 1] = Full \/ b < shares[i + 1]))
        /\ In(i) <=> (shares[i] <= b /\ (shares[i + 1] = Full \/ b < shares[i + 1]))
    BY <1>1, <1>2, <2>1 DEF InPercentage
  <2>6. In(i) <=> (New(i) \/ New(i + 1))
    BY <1>1, <1>2, <2>1, <2>5
  <2>7. ~(New(i) /\ New(i + 1))
    BY <1>1, <2>1, <2>5
  <2> DEFINE n == IF k < i THEN k ELSE IF k > i THEN k + 1 ELSE IF New(i) THEN i ELSE i + 1
  <2> HIDE DEF b, In, New
  <2>8. n \in 1..Len(shares) /\ New(n)
    BY <1>1, <2>2, <2>3, <2>4, <2>6
  <2>9. ASSUME NEW j \in 1..Len(shares), New(j) PROVE j = n
    <3>1. CASE j < i
      BY <1>1, <2>2, <2>3, <2>9, <3>1
    <3>2. CASE j > i + 1
      <4>1. j - 1 \in 1..Len(shares) - 1 /\ In(j - 1)
        BY <1>1, <2>4, <2>9, <3>2
      <4> QED BY <1>1, <2>2, <3>2, <4>1
    <3>3. CASE j = i \/ j = i + 1
      BY <1>1, <2>2, <2>6, <2>7, <2>9, <3>3
    <3> QED BY <1>1, <3>1, <3>2, <3>3
  <2>10. \A j : HasShare(c, j)' <=> New(j)
    BY <1>2 DEF HasShare, New, b, Id, Normal
  <2> HIDE DEF n
  <2> QED BY <1>1, <1>3, <2>8, <2>9, <2>10
<1> QED BY <1>1, <1>3, <1>4 DEF OneShareEach

\* Shares that follow one another give every user exactly one.
THEOREM OneShare == Spec => []OneShareEach
<1>1. Init /\ TypeOK => Divided
  <2> SUFFICES ASSUME Init, TypeOK PROVE Len(shares) >= 2 /\ OneShareEach
    BY DEF Divided
  <2>1. shares = <<0, Full>> /\ Len(shares) = 2 /\ Full \in Nat
    BY FullAssumption DEF Init
  <2>2. \A c \in Context : HasShare(c, 1)
    BY <2>1, HashType DEF HasShare, InPercentage
  <2>3. 1..Len(shares) - 1 = {1}
    BY <2>1
  <2> QED BY <2>1, <2>2, <2>3 DEF OneShareEach
<1>2. Divided /\ TypeOK' /\ [Next]_vars => Divided'
  <2> SUFFICES ASSUME Divided, TypeOK', [Next]_vars PROVE Divided'
    OBVIOUS
  <2>1. ASSUME NEW i \in 1..Len(shares) - 1, NEW p \in Percentage, Split(i, p) PROVE Divided'
    BY <2>1, SplitShares DEF Divided
  <2>2. CASE EditAudience \/ UNCHANGED vars
    <3>1. UNCHANGED <<hash, lower, shares>>
      BY <2>2 DEF EditAudience, Include, ExcludeUser, ExcludeGroup, Raise, AddRollout,
                  RaiseRollout, Edit, vars, server
    <3> QED BY <3>1 DEF Divided, OneShareEach, HasShare, Id, Normal
  <2> QED BY <2>1, <2>2 DEF Next
<1>3. Divided => OneShareEach
  BY DEF Divided
<1> QED BY <1>1, <1>2, <1>3, Types, PTL DEF Spec

=============================================================================
