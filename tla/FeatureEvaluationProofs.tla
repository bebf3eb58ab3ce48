----------------------- MODULE FeatureEvaluationProofs -----------------------
(***************************************************************************)
(* What FeatureEvaluation guarantees for any number of callers, session    *)
(* managers, filters and definitions.                                      *)
(***************************************************************************)
EXTENDS FeatureEvaluation, TLAPS

-----------------------------------------------------------------------------

USE DefinitionsAssumption, ManagersAssumption, UnsetAssumption

-----------------------------------------------------------------------------
(* The inductive invariant: what is known while the filters are evaluated. *)

\* As long as no filter has given the answer that ends the evaluation, the state
\* is the opposite of that answer, and every filter so far has been asked once.
LoopOK(t) ==
  /\ pc[t] = "read" => fresh[t] /\ seen[t] = << >>
  /\ pc[t] \in {"idle", "define"} => fresh[t] /\ seen[t] = << >> /\ variant[t] = NoName
  /\ pc[t] \in {"read", "filter", "plain", "variant"} \cup Kinds => variant[t] = NoName
  /\ pc[t] \in Kinds => def[t].allocation # NoAllocation
  /\ pc[t] = "filter" => at[t] = Len(seen[t]) + 1
  /\ pc[t] = "plain" => at[t] = Len(seen[t])
  /\ pc[t] \in {"filter", "plain"} =>
       /\ fresh[t]
       /\ ~Trivial(def[t])
       /\ enabled[t] = (def[t].requirement = "All")
       /\ \A i \in DOMAIN seen[t] : Target(t) \notin seen[t][i]

\* A state counted from the record: any filter answered true, or each was reached and
\* none answered false.
Counted(t) ==
  enabled[t] <=>
    /\ ~Trivial(def[t])
    /\ IF def[t].requirement = "Any"
       THEN \E i \in DOMAIN seen[t] : TRUE \in seen[t][i]
       ELSE /\ Len(seen[t]) = Len(def[t].filters)
            /\ \A i \in DOMAIN seen[t] : FALSE \notin seen[t][i]

CallInv(t) ==
  /\ PlaceOK(t)
  /\ LoopOK(t)
  /\ pc[t] = "variant" /\ fresh[t] => Counted(t)

IInv == VarTypes /\ \A t \in Callers : CallInv(t)

\* The invariant holds while nobody has called.
LEMMA InitInv == Init => IInv
<1> SUFFICES ASSUME Init PROVE IInv
  OBVIOUS
<1>1. VarTypes
  BY DEF Init, VarTypes, Labels, Reasons
<1>2. \A t \in Callers : CallInv(t)
  BY DEF Init, CallInv, PlaceOK, LoopOK, Kinds
<1> QED
  BY <1>1, <1>2 DEF IInv

-----------------------------------------------------------------------------

\* What the invariant says of a call depends on these variables alone.
Mine(u) == <<pc[u], feature[u], def[u], at[u], enabled[u], variant[u], fresh[u], seen[u]>>

\* A call whose own variables do not change keeps what the invariant says of it.
LEMMA Frame ==
  ASSUME NEW u \in Callers, CallInv(u), UNCHANGED Mine(u)
  PROVE  CallInv(u)'
  BY DEF CallInv, Mine, PlaceOK, LoopOK, Counted, Target, Trivial, Count

\* Recording an answer lengthens the record by one, or adds to its last entry.
LEMMA Seeing ==
  ASSUME VarTypes, NEW t \in Callers, NEW S \in SUBSET BOOLEAN, See(t, S),
         at[t] = Len(seen[t]) + 1
  PROVE  /\ seen' \in [Callers -> Seq(SUBSET BOOLEAN)]
         /\ Len(seen'[t]) = at[t]
         /\ seen'[t][at[t]] = S
         /\ \A i \in DOMAIN seen[t] : seen'[t][i] = seen[t][i]
         /\ DOMAIN seen'[t] = DOMAIN seen[t] \cup {at[t]}
         /\ \A u \in Callers \ {t} : seen'[u] = seen[u]
  BY DEF See, VarTypes

\* A second answer of the same filter is added to its entry and adds no other.
LEMMA SeeingAgain ==
  ASSUME VarTypes, NEW t \in Callers, NEW S \in SUBSET BOOLEAN, See(t, S),
         at[t] = Len(seen[t])
  PROVE  /\ seen' \in [Callers -> Seq(SUBSET BOOLEAN)]
         /\ Len(seen'[t]) = at[t]
         /\ seen'[t][at[t]] = seen[t][at[t]] \cup S
         /\ \A i \in DOMAIN seen[t] \ {at[t]} : seen'[t][i] = seen[t][i]
         /\ DOMAIN seen'[t] = DOMAIN seen[t]
         /\ \A u \in Callers \ {t} : seen'[u] = seen[u]
<1> DEFINE n == at[t]
           r == [seen[t] EXCEPT ![n] = seen[t][n] \cup S]
<1>1. seen[t] \in Seq(SUBSET BOOLEAN) /\ n \in 1..Len(seen[t])
  BY DEF VarTypes
<1>2. seen' = [seen EXCEPT ![t] = r]
  <2>1. at[t] <= Len(seen[t])
    BY <1>1
  <2>2. QED
    BY <2>1 DEF See
<1>3. seen[t][n] \cup S \in SUBSET BOOLEAN
  BY <1>1
<1>4. /\ r \in Seq(SUBSET BOOLEAN)
      /\ Len(r) = Len(seen[t])
      /\ DOMAIN r = DOMAIN seen[t]
      /\ r[n] = seen[t][n] \cup S
      /\ \A i \in DOMAIN seen[t] \ {n} : r[i] = seen[t][i]
  BY <1>1, <1>3
<1>5. seen'[t] = r
  BY <1>2 DEF VarTypes
<1>6. seen' \in [Callers -> Seq(SUBSET BOOLEAN)]
  BY <1>2, <1>4 DEF VarTypes
<1>7. \A u \in Callers \ {t} : seen'[u] = seen[u]
  BY <1>2 DEF VarTypes
<1>8. QED
  BY <1>4, <1>5, <1>6, <1>7

-----------------------------------------------------------------------------
(* The filters.                                                            *)

\* An answer that ends the evaluation settles the state it stands for.
LEMMA Deciding ==
  ASSUME IInv, NEW t \in Callers, NEW b \in BOOLEAN, Decide(t, b),
         pc[t] \in {"filter", "plain"}, at[t] <= Len(def[t].filters),
         UNCHANGED <<world, call, assignment, fresh, during, answer>>,
         seen' \in [Callers -> Seq(SUBSET BOOLEAN)],
         \A u \in Callers \ {t} : seen'[u] = seen[u],
         b = Target(t), \E i \in DOMAIN seen'[t] : b \in seen'[t][i]
  PROVE  IInv'
<1>1. VarTypes'
  <2>1. pc' \in [Callers -> Labels] /\ at' \in [Callers -> Nat \ {0}]
    BY DEF IInv, VarTypes, Decide, SetAt, Goto, Labels
  <2>2. enabled' \in [Callers -> BOOLEAN]
    BY DEF IInv, VarTypes, Decide
  <2>3. QED
    BY <2>1, <2>2 DEF IInv, VarTypes, world, call, assignment
<1>2. ASSUME NEW u \in Callers \ {t}
      PROVE  CallInv(u)'
  <2>1. UNCHANGED Mine(u)
    BY <1>2 DEF Mine, Decide, SetAt, Goto, call, assignment, IInv, VarTypes
  <2>2. QED
    BY <2>1, Frame DEF IInv
<1>3. /\ pc'[t] = "variant" /\ enabled'[t] = b /\ at'[t] = 1
      /\ UNCHANGED <<def[t], variant[t], feature[t]>>
  BY DEF Decide, SetAt, Goto, IInv, VarTypes, call, assignment
<1>4. /\ def[t] \in Definitions /\ variant[t] = NoName /\ ~Trivial(def[t])
      /\ feature[t] \in Names
  BY DEF IInv, CallInv, PlaceOK, LoopOK, Kinds
<1>5. Counted(t)'
  <2>1. def[t].requirement \in {"Any", "All"}
    BY <1>4 DEF IsDefinition
  <2>2. ~Trivial(def'[t])
    BY <1>3, <1>4
  <2>3. CASE def[t].requirement = "Any"
    BY <1>3, <2>2, <2>3 DEF Counted, Target
  <2>4. CASE def[t].requirement = "All"
    BY <1>3, <2>2, <2>4 DEF Counted, Target
  <2>5. QED
    BY <2>1, <2>3, <2>4
<1>6. CallInv(t)'
  BY <1>3, <1>4, <1>5 DEF CallInv, PlaceOK, LoopOK, Kinds
<1>7. QED
  BY <1>1, <1>2, <1>6 DEF IInv

\* An answer that does not end it leaves the state as it was.
LEMMA Advancing ==
  ASSUME IInv, NEW t \in Callers, NextFilter(t),
         pc[t] \in {"filter", "plain"}, at[t] <= Len(def[t].filters),
         UNCHANGED <<world, call, event, fresh, during, answer>>,
         seen' \in [Callers -> Seq(SUBSET BOOLEAN)],
         \A u \in Callers \ {t} : seen'[u] = seen[u],
         Len(seen'[t]) = at[t],
         \A i \in DOMAIN seen'[t] : Target(t) \notin seen'[t][i]
  PROVE  IInv'
<1>1. VarTypes'
  <2>1. pc' \in [Callers -> Labels] /\ at' \in [Callers -> Nat \ {0}]
    BY DEF IInv, VarTypes, NextFilter, SetAt, Goto, Labels
  <2>2. QED
    BY <2>1 DEF IInv, VarTypes, world, call, assignment, event
<1>2. ASSUME NEW u \in Callers \ {t}
      PROVE  CallInv(u)'
  <2>1. UNCHANGED Mine(u)
    BY <1>2 DEF Mine, NextFilter, SetAt, Goto, call, assignment, event, IInv, VarTypes
  <2>2. QED
    BY <2>1, Frame DEF IInv
<1>3. /\ pc'[t] = "filter" /\ at'[t] = at[t] + 1
      /\ UNCHANGED <<def[t], variant[t], enabled[t], fresh[t], feature[t]>>
  BY DEF NextFilter, SetAt, Goto, IInv, VarTypes, call, assignment, event
<1>4. /\ def[t] \in Definitions /\ variant[t] = NoName /\ ~Trivial(def[t])
      /\ fresh[t] /\ enabled[t] = (def[t].requirement = "All")
      /\ at[t] \in Nat \ {0} /\ Len(def[t].filters) \in Nat /\ feature[t] \in Names
  BY DEF IInv, CallInv, PlaceOK, LoopOK, Kinds, VarTypes, IsDefinition
<1>5. PlaceOK(t)'
  BY <1>3, <1>4 DEF PlaceOK, Kinds
<1>6. Target(t)' = Target(t)
  BY <1>3 DEF Target
<1>7. LoopOK(t)'
  BY <1>3, <1>4, <1>6 DEF LoopOK, Kinds
<1>8. QED
  BY <1>1, <1>2, <1>3, <1>5, <1>7 DEF IInv, CallInv

\* What holds where a filter has its turn.
LEMMA AtTurn ==
  ASSUME IInv, NEW t \in Callers, AtFilter(t)
  PROVE  /\ pc[t] = "filter"
         /\ at[t] <= Len(def[t].filters)
         /\ at[t] = Len(seen[t]) + 1
         /\ def[t].requirement \in {"Any", "All"}
         /\ \A i \in DOMAIN seen[t] : Target(t) \notin seen[t][i]
  BY DEF AtFilter, IInv, CallInv, PlaceOK, LoopOK, Kinds, IsDefinition

\* A condition that is always on counts as a filter that answered true.
LEMMA AlwaysOnStep ==
  ASSUME IInv, NEW t \in Callers, AlwaysOn(t)
  PROVE  IInv'
<1>1. AtFilter(t) /\ See(t, {TRUE})
  BY DEF AlwaysOn
<1>2. /\ seen' \in [Callers -> Seq(SUBSET BOOLEAN)]
      /\ Len(seen'[t]) = at[t]
      /\ seen'[t][at[t]] = {TRUE}
      /\ \A i \in DOMAIN seen[t] : seen'[t][i] = seen[t][i]
      /\ DOMAIN seen'[t] = DOMAIN seen[t] \cup {at[t]}
      /\ \A u \in Callers \ {t} : seen'[u] = seen[u]
  BY <1>1, AtTurn, Seeing DEF IInv
<1>3. CASE def[t].requirement = "Any" /\ Decide(t, TRUE)
  BY <1>1, <1>2, <1>3, AtTurn, Deciding DEF AlwaysOn, Target
<1>4. CASE def[t].requirement = "All" /\ NextFilter(t) /\ UNCHANGED enabled
  BY <1>1, <1>2, <1>4, AtTurn, Advancing DEF AlwaysOn, Target, event
<1>5. QED
  BY <1>3, <1>4 DEF AlwaysOn

\* A filter that is passed over gives no answer, so it cannot have given the last one.
LEMMA SkipStep ==
  ASSUME IInv, NEW t \in Callers, Skip(t)
  PROVE  IInv'
<1>1. AtFilter(t) /\ See(t, {})
  BY DEF Skip
<1>2. /\ seen' \in [Callers -> Seq(SUBSET BOOLEAN)]
      /\ Len(seen'[t]) = at[t]
      /\ seen'[t][at[t]] = {}
      /\ \A i \in DOMAIN seen[t] : seen'[t][i] = seen[t][i]
      /\ DOMAIN seen'[t] = DOMAIN seen[t] \cup {at[t]}
      /\ \A u \in Callers \ {t} : seen'[u] = seen[u]
  BY <1>1, AtTurn, Seeing DEF IInv
<1>3. QED
  BY <1>1, <1>2, AtTurn, Advancing DEF Skip

\* A missing filter that is not ignored counts as one that answered false.
LEMMA MissingStep ==
  ASSUME IInv, NEW t \in Callers, Missing(t)
  PROVE  IInv'
<1>1. AtFilter(t) /\ See(t, {FALSE})
  BY DEF Missing
<1>2. /\ seen' \in [Callers -> Seq(SUBSET BOOLEAN)]
      /\ Len(seen'[t]) = at[t]
      /\ seen'[t][at[t]] = {FALSE}
      /\ \A i \in DOMAIN seen[t] : seen'[t][i] = seen[t][i]
      /\ DOMAIN seen'[t] = DOMAIN seen[t] \cup {at[t]}
      /\ \A u \in Callers \ {t} : seen'[u] = seen[u]
  BY <1>1, AtTurn, Seeing DEF IInv
<1>3. CASE def[t].requirement = "All" /\ Decide(t, FALSE)
  BY <1>1, <1>2, <1>3, AtTurn, Deciding DEF Missing, Target
<1>4. CASE def[t].requirement = "Any" /\ NextFilter(t) /\ UNCHANGED enabled
  BY <1>1, <1>2, <1>4, AtTurn, Advancing DEF Missing, Target, event
<1>5. QED
  BY <1>3, <1>4 DEF Missing

\* The answer of a filter's contextual half keeps the record and the state in step.
LEMMA ContextualStep ==
  ASSUME IInv, NEW t \in Callers, NEW b \in BOOLEAN, EvaluateContextual(t, b)
  PROVE  IInv'
<1>1. AtFilter(t) /\ See(t, {b})
  BY DEF EvaluateContextual
<1>2. /\ seen' \in [Callers -> Seq(SUBSET BOOLEAN)]
      /\ Len(seen'[t]) = at[t]
      /\ seen'[t][at[t]] = {b}
      /\ \A i \in DOMAIN seen[t] : seen'[t][i] = seen[t][i]
      /\ DOMAIN seen'[t] = DOMAIN seen[t] \cup {at[t]}
      /\ \A u \in Callers \ {t} : seen'[u] = seen[u]
  BY <1>1, AtTurn, Seeing DEF IInv
<1>3. CASE b = Target(t) /\ Decide(t, b)
  BY <1>1, <1>2, <1>3, AtTurn, Deciding DEF EvaluateContextual
<1>4. CASE b # Target(t) /\ NextFilter(t) /\ UNCHANGED enabled
  <2>1. \A i \in DOMAIN seen'[t] : Target(t) \notin seen'[t][i]
    BY <1>1, <1>2, <1>4, AtTurn
  <2>2. QED
    BY <1>1, <1>2, <1>4, <2>1, AtTurn, Advancing DEF EvaluateContextual, event
<1>5. CASE b # Target(t) /\ Goto(t, "plain") /\ UNCHANGED <<at, enabled>>
  <2>1. UNCHANGED <<world, call, assignment, fresh, during, answer>>
    BY DEF EvaluateContextual
  <2>2. VarTypes'
    <3>1. pc' \in [Callers -> Labels]
      BY <1>5 DEF IInv, VarTypes, Goto, Labels
    <3>2. QED
      BY <1>2, <1>5, <2>1, <3>1 DEF IInv, VarTypes, world, call, assignment
  <2>3. ASSUME NEW u \in Callers \ {t}
        PROVE  CallInv(u)'
    <3>1. UNCHANGED Mine(u)
      BY <1>2, <1>5, <2>1, <2>3 DEF Mine, Goto, call, assignment, IInv, VarTypes
    <3>2. QED
      BY <3>1, Frame DEF IInv
  <2>4. /\ pc'[t] = "plain"
        /\ UNCHANGED <<at[t], def[t], variant[t], enabled[t], fresh[t], feature[t]>>
    BY <1>5, <2>1 DEF Goto, IInv, VarTypes, call, assignment
  <2>5. /\ def[t] \in Definitions /\ variant[t] = NoName /\ ~Trivial(def[t])
        /\ fresh[t] /\ enabled[t] = (def[t].requirement = "All")
        /\ at[t] \in 1..Len(def[t].filters) /\ feature[t] \in Names
    BY <1>1, AtTurn DEF IInv, CallInv, PlaceOK, LoopOK, Kinds, VarTypes, IsDefinition
  <2>6. Target(t)' = Target(t)
    BY <2>4 DEF Target
  <2>7. \A i \in DOMAIN seen'[t] : Target(t) \notin seen'[t][i]
    BY <1>1, <1>2, <1>5, AtTurn
  <2>8. PlaceOK(t)' /\ LoopOK(t)'
    BY <1>2, <2>4, <2>5, <2>6, <2>7 DEF PlaceOK, LoopOK, Kinds
  <2>9. QED
    BY <2>2, <2>3, <2>4, <2>8 DEF IInv, CallInv
<1>6. QED
  BY <1>3, <1>4, <1>5 DEF EvaluateContextual

\* So does the answer of its context-free half, whether it is the first or the second.
LEMMA PlainStep ==
  ASSUME IInv, NEW t \in Callers, NEW b \in BOOLEAN, EvaluatePlain(t, b)
  PROVE  IInv'
<1>1. See(t, {b}) /\ (pc[t] = "plain" \/ AtFilter(t))
  BY DEF EvaluatePlain
<1>2. /\ pc[t] \in {"filter", "plain"} /\ at[t] <= Len(def[t].filters)
      /\ \A i \in DOMAIN seen[t] : Target(t) \notin seen[t][i]
  BY <1>1, AtTurn DEF IInv, CallInv, PlaceOK, LoopOK, Kinds
<1>3. /\ seen' \in [Callers -> Seq(SUBSET BOOLEAN)]
      /\ Len(seen'[t]) = at[t]
      /\ at[t] \in DOMAIN seen'[t] /\ b \in seen'[t][at[t]]
      /\ \A u \in Callers \ {t} : seen'[u] = seen[u]
      /\ b # Target(t) => \A i \in DOMAIN seen'[t] : Target(t) \notin seen'[t][i]
  <2>1. CASE AtFilter(t)
    BY <1>1, <1>2, <2>1, AtTurn, Seeing DEF IInv
  <2>2. CASE pc[t] = "plain"
    <3>1. at[t] = Len(seen[t]) /\ at[t] \in Nat \ {0}
      BY <2>2 DEF IInv, CallInv, LoopOK, VarTypes
    <3>2. /\ seen' \in [Callers -> Seq(SUBSET BOOLEAN)]
          /\ Len(seen'[t]) = at[t]
          /\ seen'[t][at[t]] = seen[t][at[t]] \cup {b}
          /\ \A i \in DOMAIN seen[t] \ {at[t]} : seen'[t][i] = seen[t][i]
          /\ DOMAIN seen'[t] = DOMAIN seen[t]
          /\ \A u \in Callers \ {t} : seen'[u] = seen[u]
      BY <1>1, <3>1, SeeingAgain DEF IInv
    <3>3. at[t] \in DOMAIN seen'[t]
      BY <3>1, <3>2 DEF IInv, VarTypes
    <3>4. QED
      BY <1>2, <3>2, <3>3
  <2>3. QED
    BY <1>1, <2>1, <2>2
<1>4. CASE b = Target(t) /\ Decide(t, b)
  BY <1>2, <1>3, <1>4, Deciding DEF EvaluatePlain
<1>5. CASE b # Target(t) /\ NextFilter(t) /\ UNCHANGED enabled
  BY <1>2, <1>3, <1>5, Advancing DEF EvaluatePlain, event
<1>6. QED
  BY <1>4, <1>5 DEF EvaluatePlain

\* The other steps of a call, by what they do to it.
LEMMA CallStep ==
  ASSUME IInv, NEW t \in Callers, VarTypes', CallInv(t)',
         \A u \in Callers \ {t} : UNCHANGED Mine(u)
  PROVE  IInv'
  BY Frame DEF IInv

\* When the filters are exhausted no answer was the target, and the verdict is due.
LEMMA DoneStep ==
  ASSUME IInv, NEW t \in Callers, FiltersDone(t)
  PROVE  IInv'
<1> USE DEF FiltersDone, SetAt, Goto, world, event, call, assignment, auxiliary
<1>1. VarTypes'
  <2>1. pc' \in [Callers -> Labels] /\ at' \in [Callers -> Nat \ {0}]
    BY DEF IInv, VarTypes, Labels
  <2>2. QED
    BY <2>1 DEF IInv, VarTypes
<1>2. \A u \in Callers \ {t} : UNCHANGED Mine(u)
  BY DEF Mine, IInv, VarTypes
<1>3. /\ pc'[t] = "variant"
      /\ UNCHANGED <<def[t], variant[t], enabled[t], fresh[t], seen[t], feature[t]>>
  BY DEF IInv, VarTypes
<1>4. /\ def[t] \in Definitions /\ variant[t] = NoName
      /\ ~Trivial(def[t]) /\ fresh[t] /\ enabled[t] = (def[t].requirement = "All")
      /\ def[t].requirement \in {"Any", "All"}
      /\ Len(seen[t]) = Len(def[t].filters)
      /\ \A i \in DOMAIN seen[t] : Target(t) \notin seen[t][i]
      /\ feature[t] \in Names
  BY DEF IInv, CallInv, PlaceOK, LoopOK, Kinds, VarTypes, IsDefinition
<1>5. Counted(t)
  BY <1>4 DEF Counted, Target
<1>6. Counted(t)'
  BY <1>3, <1>5 DEF Counted
<1>7. CallInv(t)'
  BY <1>3, <1>4, <1>6 DEF CallInv, PlaceOK, LoopOK, Kinds
<1>8. QED
  BY <1>1, <1>2, <1>7, CallStep

\* Every step of the loop over the filters keeps the invariant.
LEMMA FilterSteps ==
  ASSUME IInv, NEW t \in Callers, FilterStep(t)
  PROVE  IInv'
  BY AlwaysOnStep, SkipStep, MissingStep, ContextualStep, PlainStep, DoneStep
     DEF FilterStep

-----------------------------------------------------------------------------
(* The rest of a call.                                                     *)

\* What the sections of a feature's rules hold is an allocation, also of no definition.
LEMMA SectionsTyped ==
  ASSUME NEW d \in Definitions \cup {NoDefinition} PROVE Sections(d) \in Allocation
<1>1. Nothing \in Allocation
  <2>1. << >> \in Seq(Rule)
    OBVIOUS
  <2> QED
    BY <2>1 DEF Nothing, Allocation
<1> QED
  BY <1>1 DEF Sections, IsDefinition

\* Nobody's call changes with a reload, nor when a session forgets.
LEMMA EnvironmentStep ==
  ASSUME IInv, Reload \/ \E m \in 1..Managers : Forget(m)
  PROVE  IInv'
<1>1. VarTypes'
  <2>1. CASE Reload
    <3>1. during' \in [Callers -> SUBSET Allocation]
      BY <2>1, SectionsTyped DEF Reload, IInv, VarTypes
    <3>2. reloads' \in 0..MaxReloads /\ definition' \in Definitions \cup {NoDefinition}
      BY <2>1 DEF Reload, IInv, VarTypes
    <3> QED
      BY <2>1, <3>1, <3>2 DEF Reload, IInv, VarTypes, event, call, assignment
  <2>2. ASSUME NEW m \in 1..Managers, Forget(m) PROVE VarTypes'
    <3>1. session' \in [1..Managers -> [Names -> BOOLEAN \cup {Unset}]]
      BY <2>2 DEF Forget, IInv, VarTypes
    <3> QED
      BY <2>2, <3>1 DEF Forget, IInv, VarTypes, world, event, call, assignment, auxiliary
  <2>3. QED
    BY <2>1, <2>2
<1>2. \A u \in Callers : UNCHANGED Mine(u)
  BY DEF Reload, Forget, Mine, event, call, assignment, auxiliary
<1>3. QED
  BY <1>1, <1>2, Frame DEF IInv

\* A call that begins, or takes its definition, has an empty record.
LEMMA BeginStep ==
  ASSUME IInv, NEW t \in Callers,
         Define(t) \/ \E n \in Names, a \in Args : Call(t, n, a)
  PROVE  IInv'
<1> USE DEF Define, Call, Goto, world, event, assignment
<1>1. VarTypes'
  <2>1. pc' \in [Callers -> Labels]
    <3>1. pc' = [pc EXCEPT ![t] = "read"] \/ pc' = [pc EXCEPT ![t] = "define"]
      OBVIOUS
    <3>2. pc \in [Callers -> Labels]
      BY DEF IInv, VarTypes
    <3> HIDE DEF Define, Call
    <3>3. QED
      BY <3>1, <3>2 DEF Labels
  <2>2. /\ arg' \in [Callers -> Args \cup {NoContext}]
        /\ feature' \in [Callers -> Names \cup {NoName}]
    <3>1. arg \in [Callers -> Args \cup {NoContext}] /\ feature \in [Callers -> Names \cup {NoName}]
      BY DEF IInv, VarTypes
    <3>2. CASE Define(t)
      BY <3>1, <3>2 DEF call
    <3>3. ASSUME NEW n \in Names, NEW a \in Args, Call(t, n, a)
          PROVE  /\ arg' \in [Callers -> Args \cup {NoContext}]
                 /\ feature' \in [Callers -> Names \cup {NoName}]
      BY <3>1, <3>3
    <3> HIDE DEF Define, Call
    <3> QED
      BY <3>2, <3>3
  <2>3. def' \in [Callers -> Definitions \cup {NoDefinition}]
    BY DEF IInv, VarTypes
  <2>4. answer' \in [Callers -> {NoAnswer} \cup [status : Statuses \cup {"None"},
                                                 enabled : BOOLEAN, fresh : BOOLEAN]]
    BY DEF IInv, VarTypes, auxiliary
  <2>5. QED
    BY <2>1, <2>2, <2>3, <2>4 DEF IInv, VarTypes, auxiliary
<1>2. \A u \in Callers \ {t} : UNCHANGED Mine(u)
  BY DEF Mine, IInv, VarTypes, call, auxiliary
<1>3. /\ pc[t] \in {"idle", "define"} /\ pc'[t] \in {"define", "read"}
      /\ UNCHANGED <<variant[t], fresh[t], seen[t]>>
      /\ feature'[t] \in Names
  <2>1. CASE Define(t)
    BY <2>1 DEF IInv, VarTypes, CallInv, PlaceOK, call, auxiliary
  <2>2. ASSUME NEW n \in Names, NEW a \in Args, Call(t, n, a)
        PROVE  /\ pc[t] = "idle" /\ pc'[t] = "define"
               /\ UNCHANGED <<variant[t], fresh[t], seen[t]>> /\ feature'[t] \in Names
    BY <2>2 DEF IInv, VarTypes, call, auxiliary
  <2> QED
    BY <2>1, <2>2
<1>4. fresh[t] /\ seen[t] = << >> /\ variant[t] = NoName
  BY <1>3 DEF IInv, CallInv, LoopOK
<1>5. CallInv(t)'
  BY <1>3, <1>4 DEF CallInv, PlaceOK, LoopOK, Kinds
<1>6. QED
  BY <1>1, <1>2, <1>5, CallStep

\* A call that ends leaves nothing behind: its record is emptied.
LEMMA LeaveStep ==
  ASSUME IInv, NEW t \in Callers, Leave(t), UNCHANGED world,
         answer' \in [Callers -> {NoAnswer} \cup [status : Statuses \cup {"None"},
                                                  enabled : BOOLEAN, fresh : BOOLEAN]]
  PROVE  IInv'
<1>1. VarTypes'
  <2>1. pc' \in [Callers -> Labels] /\ at' \in [Callers -> Nat \ {0}]
    BY DEF IInv, VarTypes, Leave, SetAt, Goto, Labels
  <2>2. /\ arg' \in [Callers -> Args \cup {NoContext}]
        /\ def' \in [Callers -> Definitions \cup {NoDefinition}]
        /\ target' \in [Callers -> Users \cup {NoUser}]
        /\ feature' \in [Callers -> Names \cup {NoName}]
        /\ reason' \in [Callers -> Reasons]
    BY DEF IInv, VarTypes, Leave, Reasons
  <2>3. /\ enabled' \in [Callers -> BOOLEAN]
        /\ variant' \in [Callers -> VariantNames \cup {NoName}]
        /\ fresh' \in [Callers -> BOOLEAN]
    BY DEF IInv, VarTypes, Leave
  <2>4. /\ seen' \in [Callers -> Seq(SUBSET BOOLEAN)]
        /\ during' \in [Callers -> SUBSET Allocation]
    BY DEF IInv, VarTypes, Leave
  <2>5. QED
    BY <2>1, <2>2, <2>3, <2>4 DEF IInv, VarTypes, world
<1>2. \A u \in Callers \ {t} : UNCHANGED Mine(u)
  BY DEF Mine, IInv, VarTypes, Leave, SetAt, Goto
<1>3. pc'[t] = "idle" /\ fresh'[t] /\ seen'[t] = << >> /\ variant'[t] = NoName
  BY DEF IInv, VarTypes, Leave, Goto
<1>4. CallInv(t)'
  BY <1>3 DEF CallInv, PlaceOK, LoopOK, Kinds
<1>5. QED
  BY <1>1, <1>2, <1>4, CallStep

\* A call ends by an error or by its answer.
LEMMA EndStep ==
  ASSUME IInv, NEW t \in Callers, Fail(t) \/ Return(t)
  PROVE  IInv'
<1>1. CASE Fail(t)
  BY <1>1, LeaveStep DEF Fail, IInv, VarTypes
<1>2. CASE Return(t)
  <2>1. (IF def[t] = NoDefinition THEN "None" ELSE def[t].status) \in Statuses \cup {"None"}
    BY DEF IInv, VarTypes, IsDefinition
  <2>2. enabled[t] \in BOOLEAN
    BY DEF IInv, VarTypes
  <2>3. answer' \in [Callers -> {NoAnswer} \cup [status : Statuses \cup {"None"},
                                                 enabled : BOOLEAN, fresh : BOOLEAN]]
    BY <1>2, <2>1, <2>2 DEF Return, IInv, VarTypes
  <2>4. QED
    BY <1>2, <2>3, LeaveStep DEF Return
<1>3. QED
  BY <1>1, <1>2

\* Reading the session managers enters the loop with an empty record, or leaves it out.
LEMMA ReadStep ==
  ASSUME IInv, NEW t \in Callers, ReadMiss(t) \/ ReadHit(t) \/ ReadNone(t)
  PROVE  IInv'
<1> USE DEF SetAt, Goto, world, event, call, assignment, auxiliary
<1>1. VarTypes'
  <2>1. pc' \in [Callers -> Labels] /\ at' \in [Callers -> Nat \ {0}]
    <3>1. at[t] + 1 \in Nat \ {0} /\ 1 \in Nat \ {0}
      BY DEF IInv, VarTypes
    <3>2. at' \in [Callers -> Nat \ {0}]
      BY <3>1 DEF IInv, VarTypes, ReadMiss, ReadHit, ReadNone
    <3>3. pc' = pc \/ \E l \in Labels : pc' = [pc EXCEPT ![t] = l]
      BY DEF Labels, ReadMiss, ReadHit, ReadNone
    <3>4. pc' \in [Callers -> Labels]
      BY <3>3 DEF IInv, VarTypes
    <3>5. QED
      BY <3>2, <3>4
  <2>2. enabled' \in [Callers -> BOOLEAN]
    <3>1. CASE ReadMiss(t)
      BY <3>1 DEF ReadMiss, IInv, VarTypes
    <3>2. CASE ReadHit(t)
      <4>1. at[t] \in 1..Managers
        BY <3>2 DEF ReadHit, IInv, VarTypes
      <4>2. Key(t) \in Names
        BY <3>2 DEF ReadHit, Key, IInv, VarTypes, CallInv, PlaceOK, IsDefinition
      <4>3. session[at[t]][Key(t)] \in BOOLEAN
        BY <3>2, <4>1, <4>2 DEF ReadHit, IInv, VarTypes
      <4>4. QED
        BY <3>2, <4>3, Zenon DEF ReadHit, IInv, VarTypes
    <3>3. CASE ReadNone(t)
      <4>1. (~Trivial(def[t]) /\ def[t].requirement = "All") \in BOOLEAN
        OBVIOUS
      <4>2. QED
        BY <3>3, <4>1, Zenon DEF ReadNone, IInv, VarTypes
    <3>4. QED
      BY <3>1, <3>2, <3>3
  <2>3. fresh' \in [Callers -> BOOLEAN]
    BY DEF IInv, VarTypes, ReadMiss, ReadHit, ReadNone
  <2>4. QED
    BY <2>1, <2>2, <2>3 DEF IInv, VarTypes, ReadMiss, ReadHit, ReadNone
<1>2. \A u \in Callers \ {t} : UNCHANGED Mine(u)
  BY DEF Mine, IInv, VarTypes, ReadMiss, ReadHit, ReadNone
<1>3. /\ fresh[t] /\ seen[t] = << >> /\ variant[t] = NoName
      /\ def[t] \in Definitions \cup {NoDefinition} /\ feature[t] \in Names
      /\ UNCHANGED <<def[t], seen[t], variant[t], feature[t]>>
  BY DEF IInv, VarTypes, CallInv, PlaceOK, LoopOK, ReadMiss, ReadHit, ReadNone
<1>4. CASE ReadMiss(t)
  <2>1. pc'[t] = "read" /\ fresh'[t]
    BY <1>3, <1>4 DEF ReadMiss
  <2>2. QED
    BY <1>1, <1>2, <1>3, <2>1, CallStep DEF CallInv, PlaceOK, LoopOK, Kinds
<1>5. CASE ReadHit(t)
  <2>1. /\ ~fresh'[t] /\ pc'[t] \in {"store", "variant"}
        /\ pc'[t] = "variant" => def[t] \in Definitions
    BY <1>3, <1>5 DEF ReadHit, IInv, VarTypes
  <2>2. QED
    BY <1>1, <1>2, <1>3, <2>1, CallStep DEF CallInv, PlaceOK, LoopOK, Kinds
<1>6. CASE ReadNone(t)
  <2>1. /\ pc'[t] \in {"store", "variant", "filter"}
        /\ pc'[t] # "store" => def[t] \in Definitions
        /\ pc'[t] = "filter" => ~Trivial(def[t])
        /\ pc'[t] = "variant" => Trivial(def[t])
        /\ at'[t] = 1 /\ fresh'[t]
        /\ enabled'[t] = (~Trivial(def[t]) /\ def[t].requirement = "All")
    BY <1>3, <1>6 DEF ReadNone, IInv, VarTypes, Trivial
  <2>2. pc'[t] = "filter" => Len(def[t].filters) \in Nat
    BY <2>1 DEF IsDefinition
  <2>3. PlaceOK(t)'
    BY <1>3, <2>1, <2>2 DEF PlaceOK, Kinds
  <2>4. LoopOK(t)'
    BY <1>3, <2>1 DEF LoopOK, Kinds
  <2>5. pc'[t] = "variant" => Counted(t)'
    BY <1>3, <2>1 DEF Counted, Trivial
  <2>6. QED
    BY <1>1, <1>2, <2>3, <2>4, <2>5, CallStep DEF CallInv
<1>7. QED
  BY <1>4, <1>5, <1>6

\* What is chosen settles the variant: one that the definition has, or none.
LEMMA Settling ==
  ASSUME IInv, NEW t \in Callers, NEW choice, Settle(t, choice), choice.reason \in Reasons,
         def[t] \in Definitions, pc[t] # "idle",
         target' \in [Callers -> Users \cup {NoUser}],
         UNCHANGED <<world, call, def, fresh, seen, during, answer>>
  PROVE  IInv'
<1> DEFINE name == Existing(def[t], choice.name)
<1>1. name \in DOMAIN def[t].variants \cup {NoName} /\ name \in VariantNames \cup {NoName}
  BY DEF Existing, IsDefinition
<1>2. Override(def[t], name, enabled[t]) \in BOOLEAN
  BY DEF Override, IInv, VarTypes
<1>3. /\ variant' = [variant EXCEPT ![t] = name]
      /\ reason' = [reason EXCEPT ![t] = choice.reason]
      /\ enabled' = [enabled EXCEPT ![t] = Override(def[t], name, enabled[t])]
      /\ at' = [at EXCEPT ![t] = 1]
      /\ pc' = [pc EXCEPT ![t] = "store"]
  BY DEF Settle, SetAt, Goto, IInv, VarTypes
<1> HIDE DEF name
<1>4. VarTypes'
  <2>1. /\ pc' \in [Callers -> Labels] /\ at' \in [Callers -> Nat \ {0}]
        /\ variant' \in [Callers -> VariantNames \cup {NoName}]
        /\ reason' \in [Callers -> Reasons]
    BY <1>1, <1>3 DEF IInv, VarTypes, Labels
  <2>2. enabled' \in [Callers -> BOOLEAN]
    BY <1>2, <1>3, Zenon DEF IInv, VarTypes
  <2> QED
    BY <2>1, <2>2 DEF IInv, VarTypes, world, call
<1>5. \A u \in Callers \ {t} : UNCHANGED Mine(u)
  BY <1>3 DEF Mine, IInv, VarTypes, call
<1>6. pc'[t] = "store" /\ variant'[t] = name /\ UNCHANGED <<def[t], feature[t]>>
  BY <1>3 DEF IInv, VarTypes, call
<1>7. CallInv(t)'
  BY <1>1, <1>6 DEF IInv, CallInv, PlaceOK, LoopOK, Kinds
<1> QED
  BY <1>4, <1>5, <1>7, CallStep

\* The default of an evaluation is for one of the two default reasons.
LEMMA DefaultReason ==
  ASSUME NEW d, NEW e PROVE Default(d, e).reason \in Reasons
  BY DEF Default, Reasons

\* The rules that are searched are those of an allocation the definition has.
LEMMA AtRules ==
  ASSUME IInv, NEW t \in Callers, pc[t] \in Kinds
  PROVE  /\ def[t] \in Definitions /\ def[t].allocation \in Allocation
         /\ \A k \in Kinds : Count(t, k) \in Nat
         /\ ReasonOf(pc[t]) \in Reasons
<1>1. def[t] \in Definitions /\ def[t].allocation # NoAllocation
  BY DEF IInv, CallInv, PlaceOK, LoopOK
<1>2. def[t].allocation \in Allocation
  BY <1>1 DEF IsDefinition
<1>3. \A k \in Kinds : Count(t, k) \in Nat
  BY <1>2 DEF Count, RulesOf, Allocation, Kinds
<1> QED
  BY <1>1, <1>2, <1>3 DEF ReasonOf, Reasons

\* The user is resolved before the rules are tried, or a default is settled on.
LEMMA VariantStep ==
  ASSUME IInv, NEW t \in Callers,
         NoVariants(t) \/ \E u \in Ambient : DetermineVariant(t, u)
  PROVE  IInv'
<1>1. CASE NoVariants(t)
  <2> USE DEF NoVariants, Goto, world, event, call, assignment, auxiliary
  <2>1. VarTypes'
    <3>1. pc' \in [Callers -> Labels]
      BY <1>1 DEF IInv, VarTypes, Labels
    <3>2. QED
      BY <1>1, <3>1 DEF IInv, VarTypes
  <2>2. \A u \in Callers \ {t} : UNCHANGED Mine(u)
    BY <1>1 DEF Mine, IInv, VarTypes
  <2>3. pc[t] = "variant" /\ pc'[t] = "store" /\ UNCHANGED <<variant[t], feature[t]>> /\ variant[t] = NoName
    BY <1>1 DEF IInv, VarTypes, CallInv, LoopOK
  <2>4. CallInv(t)'
    BY <2>3 DEF IInv, CallInv, PlaceOK, LoopOK, Kinds
  <2>5. QED
    BY <2>1, <2>2, <2>4, CallStep
<1>2. ASSUME NEW ambient \in Ambient, DetermineVariant(t, ambient)
      PROVE  IInv'
  <2>1. pc[t] = "variant" /\ def[t] \in Definitions
    BY <1>2 DEF DetermineVariant, IInv, CallInv, PlaceOK
  <2>2. TargetOf(arg[t], ambient) \in Users \cup {NoUser}
    BY ArgsAssumption, AmbientAssumption DEF TargetOf, Context, IInv, VarTypes
  <2>3. target' \in [Callers -> Users \cup {NoUser}]
    BY <1>2, <2>2 DEF DetermineVariant, IInv, VarTypes
  <2>4. UNCHANGED <<world, call, def, fresh, seen, answer>>
    BY <1>2 DEF DetermineVariant
  <2>5. ASSUME Settle(t, Default(def[t].allocation, enabled[t])), UNCHANGED during
        PROVE  IInv'
    BY <2>1, <2>3, <2>4, <2>5, Settling, DefaultReason
  <2>6. ASSUME def[t].allocation # NoAllocation,
               during' = [during EXCEPT ![t] = {Sections(definition)}],
               Goto(t, "user"), SetAt(t, 1), UNCHANGED <<variant, reason, enabled>>
        PROVE  IInv'
    <3>1. Sections(definition) \in Allocation
      BY SectionsTyped DEF IInv, VarTypes
    <3>2. during' \in [Callers -> SUBSET Allocation]
      BY <2>6, <3>1 DEF IInv, VarTypes
    <3>3. pc' \in [Callers -> Labels] /\ at' \in [Callers -> Nat \ {0}]
      BY <2>6 DEF IInv, VarTypes, Goto, SetAt, Labels, Kinds
    <3>4. VarTypes'
      BY <2>3, <2>4, <2>6, <3>2, <3>3 DEF IInv, VarTypes, world, call
    <3>5. \A u \in Callers \ {t} : UNCHANGED Mine(u)
      BY <2>4, <2>6 DEF Mine, IInv, VarTypes, call, Goto, SetAt
    <3>6. /\ pc'[t] = "user" /\ at'[t] = 1 /\ variant[t] = NoName
          /\ UNCHANGED <<def[t], feature[t], variant[t]>>
      BY <2>1, <2>4, <2>6 DEF IInv, VarTypes, call, Goto, SetAt, CallInv, LoopOK
    <3>7. def[t].allocation \in Allocation
      BY <2>1, <2>6 DEF IsDefinition
    <3>8. Count(t, "user")' \in Nat
      BY <3>6, <3>7 DEF Count, RulesOf, Allocation
    <3>9. feature[t] \in Names
      BY <2>1 DEF IInv, CallInv, PlaceOK
    <3>10. CallInv(t)'
      BY <2>1, <2>6, <3>6, <3>8, <3>9 DEF CallInv, PlaceOK, LoopOK, Kinds
    <3> QED
      BY <3>4, <3>5, <3>10, CallStep
  <2> QED
    BY <1>2, <2>5, <2>6 DEF DetermineVariant
<1>3. QED
  BY <1>1, <1>2

\* A rule that does not end the search gives its turn to the next, of its kind or another.
LEMMA Searching ==
  ASSUME IInv, NEW t \in Callers, pc[t] \in Kinds,
         UNCHANGED <<world, call, event, auxiliary>>,
         \/ SetAt(t, at[t] + 1) /\ at[t] <= Count(t, pc[t]) /\ UNCHANGED pc
         \/ \E k \in Kinds : Goto(t, k) /\ SetAt(t, 1)
  PROVE  IInv'
<1> USE DEF world, call, event, assignment, auxiliary
<1>1. PICK k \in Kinds : /\ pc' = [pc EXCEPT ![t] = k]
                         /\ \/ at' = [at EXCEPT ![t] = 1]
                            \/ k = pc[t] /\ at' = [at EXCEPT ![t] = at[t] + 1] /\ at[t] <= Count(t, k)
  BY DEF SetAt, Goto, IInv, VarTypes
<1>2. at[t] \in Nat \ {0} /\ Count(t, k) \in Nat
  BY AtRules DEF IInv, VarTypes
<1>3. VarTypes'
  <2>1. k \in Labels /\ at[t] + 1 \in Nat \ {0}
    BY <1>2 DEF Labels
  <2>2. pc' \in [Callers -> Labels] /\ at' \in [Callers -> Nat \ {0}]
    BY <1>1, <2>1 DEF IInv, VarTypes
  <2> QED
    BY <2>2 DEF IInv, VarTypes
<1>4. \A u \in Callers \ {t} : UNCHANGED Mine(u)
  BY <1>1 DEF Mine, IInv, VarTypes
<1>5. pc'[t] = k /\ at'[t] \in 1..Count(t, k) + 1
  BY <1>1, <1>2 DEF IInv, VarTypes
<1>6. Count(t, k)' = Count(t, k)
  BY DEF Count
<1>7. CallInv(t)'
  BY <1>5, <1>6 DEF IInv, CallInv, PlaceOK, LoopOK, Kinds
<1> QED
  BY <1>3, <1>4, <1>7, CallStep

\* Whatever rule is read, the variant is one the definition has, or none.
LEMMA RuleStep ==
  ASSUME IInv, NEW t \in Callers, TryRule(t) \/ NextKind(t)
  PROVE  IInv'
<1>1. pc[t] \in Kinds /\ UNCHANGED <<world, call, def, target, auxiliary>>
  BY DEF TryRule, NextKind
<1>2. def[t] \in Definitions /\ ReasonOf(pc[t]) \in Reasons /\ pc[t] # "idle"
  BY <1>1, AtRules DEF Kinds
<1>3. ASSUME NEW choice, choice.reason \in Reasons, Settle(t, choice) PROVE IInv'
  BY <1>1, <1>2, <1>3, Settling DEF auxiliary, IInv, VarTypes
<1>4. CASE TryRule(t)
  <2> DEFINE rule == RulesOf(Source(t), pc[t])[at[t]]
             named == [name |-> rule.variant, reason |-> ReasonOf(pc[t])]
  <2>1. named.reason \in Reasons /\ Default(def[t].allocation, enabled[t]).reason \in Reasons
    BY <1>2, DefaultReason
  <2>2. \/ Settle(t, named) \/ Settle(t, Default(def[t].allocation, enabled[t]))
        \/ SetAt(t, at[t] + 1) /\ at[t] <= Count(t, pc[t]) /\ UNCHANGED <<pc, variant, reason, enabled>>
    BY <1>4 DEF TryRule
  <2> HIDE DEF named
  <2> QED
    BY <1>1, <1>3, <2>1, <2>2, Searching DEF event, assignment
<1>5. CASE NextKind(t)
  <2>1. \/ Settle(t, Default(def[t].allocation, enabled[t]))
        \/ \E k \in Kinds : Goto(t, k) /\ SetAt(t, 1) /\ UNCHANGED <<variant, reason, enabled>>
    BY <1>5 DEF NextKind, Kinds
  <2> QED
    BY <1>1, <1>3, <2>1, DefaultReason, Searching DEF event, assignment
<1> QED
  BY <1>4, <1>5

\* Storing the state changes the session and the caller's place only.
LEMMA StoreStep ==
  ASSUME IInv, NEW t \in Callers, Store(t)
  PROVE  IInv'
<1> USE DEF Store, SetAt, event, call, assignment, auxiliary
<1>1. /\ at[t] + 1 \in Nat \ {0} /\ enabled[t] \in BOOLEAN /\ at[t] \in 1..Managers
      /\ feature[t] \in Names
  BY DEF IInv, VarTypes, CallInv, PlaceOK
<1>2. /\ session' \in [1..Managers -> [Names -> BOOLEAN \cup {Unset}]]
      /\ at' \in [Callers -> Nat \ {0}]
  BY <1>1 DEF IInv, VarTypes
<1>3. VarTypes'
  BY <1>2 DEF IInv, VarTypes
<1>4. \A u \in Callers \ {t} : UNCHANGED Mine(u)
  BY DEF Mine, IInv, VarTypes
<1>5. pc'[t] = "store" /\ UNCHANGED <<variant[t], def[t]>>
  OBVIOUS
<1>6. CallInv(t)'
  BY <1>5 DEF IInv, CallInv, PlaceOK, LoopOK, Kinds
<1>7. QED
  BY <1>3, <1>4, <1>6, CallStep

-----------------------------------------------------------------------------
(* The theorems.                                                           *)

\* A state counted from a record without gaps is the one the requirement type asks for.
LEMMA CountedVerdict ==
  ASSUME IInv, NEW t \in Callers, pc[t] = "variant", Counted(t)
  PROVE  VerdictOK(t)
<1>1. seen[t] \in Seq(SUBSET BOOLEAN) /\ def[t] \in Definitions
  BY DEF IInv, VarTypes, CallInv, PlaceOK
<1>2. CASE Trivial(def[t])
  BY <1>2 DEF Counted, VerdictOK
<1>3. CASE def[t].requirement = "Any"
  BY <1>3 DEF Counted, VerdictOK
<1>4. CASE ~Trivial(def[t]) /\ def[t].requirement = "All" /\ NoneSkipped(t)
  <2>1. \A i \in DOMAIN seen[t] : seen[t][i] \in SUBSET BOOLEAN /\ seen[t][i] # {}
    BY <1>1, <1>4 DEF NoneSkipped
  <2>2. \A i \in DOMAIN seen[t] : seen[t][i] = {TRUE} <=> FALSE \notin seen[t][i]
    <3>1. ASSUME NEW S \in SUBSET BOOLEAN, S # {} PROVE S = {TRUE} <=> FALSE \notin S
      BY <3>1
    <3> QED
      BY <2>1, <3>1
  <2>3. AllTrue(t) <=> Len(seen[t]) = Len(def[t].filters) /\ \A i \in DOMAIN seen[t] : FALSE \notin seen[t][i]
    BY <2>2, Zenon DEF AllTrue
  <2> QED
    BY <1>4, <2>3, Zenon DEF Counted, VerdictOK
<1> QED
  BY <1>2, <1>3, <1>4, Zenon DEF Counted, VerdictOK

\* Every step keeps the invariant.
LEMMA Inductive == IInv /\ [Next]_vars => IInv'
<1> SUFFICES ASSUME IInv, [Next]_vars
             PROVE  IInv'
  OBVIOUS
<1>1. CASE UNCHANGED vars
  <2>1. VarTypes'
    BY <1>1 DEF IInv, VarTypes, vars
  <2>2. \A u \in Callers : UNCHANGED Mine(u)
    BY <1>1 DEF Mine, vars
  <2>3. QED
    BY <2>1, <2>2, Frame DEF IInv
<1>2. CASE Next
  BY <1>2, EnvironmentStep, BeginStep, EndStep, ReadStep, FilterSteps, VariantStep,
     RuleStep, StoreStep DEF Next, Step
<1>3. QED
  BY <1>1, <1>2

\* Every call is where its definition allows it to be, with values of their types.
THEOREM Types == Spec => []TypeOK
<1>1. IInv => TypeOK
  BY DEF IInv, CallInv, TypeOK
<1>2. QED
  BY <1>1, InitInv, Inductive, PTL DEF Spec

\* A computed state is the one the requirement type asks for, whatever filters are
\* registered, missing, contextual or skipped, and however many there are.
THEOREM Verdict == Spec => []VerdictMatchesRequirement
<1>1. IInv => VerdictMatchesRequirement
  BY CountedVerdict DEF IInv, CallInv, VerdictMatchesRequirement
<1>2. QED
  BY <1>1, InitInv, Inductive, PTL DEF Spec

\* A call that has computed a state and determines its variant, or is about to return
\* it, is not enabled if its definition is disabled.
OffInv ==
  /\ \A t \in Callers :
       pc[t] \in Kinds \cup {"store"} /\ fresh[t] /\ def[t] # NoDefinition /\ def[t].status = "Disabled"
         => ~enabled[t]
  /\ DisabledIsDisabled

\* FeatureStatus.Disabled is kept by every evaluation that computes the state, also
\* by a variant that overrides it, for any number of callers and session managers; a
\* state that a session remembers is returned without a look at the status.
THEOREM ComputedDisabled == Spec => []DisabledIsDisabled
<1>1. Init => OffInv
  BY DEF Init, OffInv, DisabledIsDisabled, Kinds
<1>2. ASSUME IInv, OffInv, [Next]_vars
      PROVE  OffInv'
  <2> USE DEF Goto, SetAt, world, event, call, assignment, auxiliary
  <2>1. CASE UNCHANGED vars
    BY <1>2, <2>1 DEF OffInv, DisabledIsDisabled, vars
  <2>2. CASE Reload \/ \E m \in 1..Managers : Forget(m)
    BY <1>2, <2>2 DEF Reload, Forget, OffInv, DisabledIsDisabled
  <2>3. ASSUME NEW t \in Callers, UNCHANGED answer,
               \A u \in Callers \ {t} : UNCHANGED <<pc[u], def[u], enabled[u], fresh[u]>>,
               pc'[t] \in Kinds \cup {"store"} /\ fresh'[t] /\ def'[t] # NoDefinition
                 /\ def'[t].status = "Disabled" => ~enabled'[t]
        PROVE  OffInv'
    BY <1>2, <2>3 DEF OffInv, DisabledIsDisabled
  <2>4. ASSUME NEW t \in Callers, Define(t) \/ \E n \in Names, a \in Args : Call(t, n, a)
        PROVE  OffInv'
    <3>1. CASE Define(t)
      BY <1>2, <2>3, <3>1 DEF Define, IInv, VarTypes, Kinds
    <3>2. ASSUME NEW n \in Names, NEW a \in Args, Call(t, n, a)
          PROVE  OffInv'
      <4>1. /\ pc'[t] = "define" /\ UNCHANGED <<def, enabled, fresh>>
            /\ \A u \in Callers \ {t} : UNCHANGED <<pc[u], answer[u]>>
            /\ answer'[t] = NoAnswer
        BY <1>2, <3>2 DEF Call, IInv, VarTypes
      <4> QED
        BY <1>2, <4>1 DEF OffInv, DisabledIsDisabled, Kinds
    <3> QED
      BY <2>4, <3>1, <3>2
  <2>5. ASSUME NEW t \in Callers, ReadMiss(t) \/ ReadHit(t) \/ Store(t)
        PROVE  OffInv'
    <3>1. CASE ReadMiss(t) \/ Store(t)
      BY <1>2, <3>1 DEF ReadMiss, Store, OffInv, DisabledIsDisabled
    <3>2. CASE ReadHit(t)
      BY <1>2, <2>3, <3>2 DEF ReadHit, IInv, VarTypes, Kinds
    <3>3. QED
      BY <2>5, <3>1, <3>2
  <2>6. ASSUME NEW t \in Callers, ReadNone(t)
        PROVE  OffInv'
    <3>1. pc'[t] \in Kinds \cup {"store"} => def'[t] = NoDefinition
      BY <1>2, <2>6 DEF ReadNone, IInv, VarTypes, Kinds
    <3>2. QED
      BY <1>2, <2>3, <2>6, <3>1 DEF ReadNone, IInv, VarTypes
  <2>7. ASSUME NEW t \in Callers, FilterStep(t)
        PROVE  OffInv'
    <3>1. /\ pc'[t] \notin Kinds \cup {"store"}
          /\ UNCHANGED <<answer, fresh>>
          /\ \A u \in Callers \ {t} : UNCHANGED <<pc[u], def[u], enabled[u]>>
      BY <1>2, <2>7 DEF FilterStep, AlwaysOn, Skip, Missing, EvaluateContextual,
                        EvaluatePlain, FiltersDone, Decide, NextFilter, IInv, VarTypes, Kinds
    <3>2. QED
      BY <2>3, <3>1
  <2>8. ASSUME NEW t \in Callers, pc[t] = "variant", fresh[t], def[t].status = "Disabled"
        PROVE  ~enabled[t]
    BY <1>2, <2>8 DEF IInv, CallInv, Counted, Trivial
  <2>9. ASSUME NEW t \in Callers, NoVariants(t)
        PROVE  OffInv'
    BY <1>2, <2>3, <2>8, <2>9 DEF NoVariants, IInv, VarTypes
  <2>10. ASSUME NEW t \in Callers, NEW choice, Settle(t, choice), UNCHANGED <<def, fresh, answer>>,
                fresh[t] /\ def[t] # NoDefinition /\ def[t].status = "Disabled" => ~enabled[t]
         PROVE  OffInv'
    <3>1. fresh[t] /\ def[t] # NoDefinition /\ def[t].status = "Disabled" => ~enabled'[t]
      BY <1>2, <2>10 DEF Settle, Override, IInv, VarTypes
    <3>2. QED
      BY <1>2, <2>3, <2>10, <3>1 DEF Settle, IInv, VarTypes
  <2>11. ASSUME NEW t \in Callers, UNCHANGED <<def, fresh, answer, enabled>>,
                fresh[t] /\ def[t] # NoDefinition /\ def[t].status = "Disabled" => ~enabled[t],
                \A u \in Callers \ {t} : UNCHANGED pc[u]
         PROVE  OffInv'
    BY <1>2, <2>3, <2>11
  <2>12. ASSUME NEW t \in Callers, NEW u \in Ambient, DetermineVariant(t, u)
         PROVE  OffInv'
    <3>1. fresh[t] /\ def[t] # NoDefinition /\ def[t].status = "Disabled" => ~enabled[t]
      BY <2>8, <2>12 DEF DetermineVariant
    <3>2. CASE Goto(t, "user") /\ UNCHANGED enabled
      BY <1>2, <2>11, <2>12, <3>1, <3>2 DEF DetermineVariant, IInv, VarTypes
    <3> QED
      BY <2>10, <2>12, <3>1, <3>2 DEF DetermineVariant
  <2>13. ASSUME NEW t \in Callers, TryRule(t) \/ NextKind(t)
         PROVE  OffInv'
    <3>1. fresh[t] /\ def[t] # NoDefinition /\ def[t].status = "Disabled" => ~enabled[t]
      BY <1>2, <2>13 DEF OffInv, TryRule, NextKind
    <3>2. /\ UNCHANGED <<def, fresh, answer>>
          /\ (\E choice : Settle(t, choice)) \/ (UNCHANGED enabled /\ \A u \in Callers \ {t} : UNCHANGED pc[u])
      BY <1>2, <2>13 DEF TryRule, NextKind, IInv, VarTypes
    <3> QED
      BY <2>10, <2>11, <3>1, <3>2
  <2>14. ASSUME NEW t \in Callers, Leave(t),
                UNCHANGED answer \/ Return(t)
         PROVE  OffInv'
    <3>1. /\ fresh'[t] /\ pc'[t] = "idle"
          /\ \A u \in Callers \ {t} : UNCHANGED <<pc[u], def[u], enabled[u], fresh[u]>>
      BY <1>2, <2>14 DEF Leave, IInv, VarTypes
    <3>2. DisabledIsDisabled'
      <4>1. CASE UNCHANGED answer
        BY <1>2, <4>1 DEF OffInv, DisabledIsDisabled
      <4>2. CASE Return(t)
        BY <1>2, <4>2 DEF Return, OffInv, DisabledIsDisabled, IInv, VarTypes
      <4>3. QED
        BY <2>14, <4>1, <4>2
    <3>3. QED
      BY <1>2, <3>1, <3>2 DEF OffInv, Kinds
  <2>15. ASSUME NEW t \in Callers, Fail(t) \/ Return(t)
         PROVE  OffInv'
    BY <2>14, <2>15 DEF Fail, Return
  <2>16. QED
    BY <1>2, <2>1, <2>2, <2>4, <2>5, <2>6, <2>7, <2>9, <2>12, <2>13,
       <2>15 DEF Next, Step
<1>3. OffInv => DisabledIsDisabled
  BY DEF OffInv
<1>4. QED
  BY <1>1, <1>2, <1>3, InitInv, Inductive, PTL DEF Spec

-----------------------------------------------------------------------------
(* The rule that assigns a variant.                                        *)

\* The variant and its reason are those of the first rule for the user, or the default
\* where the search ended without one: what VariantPrecedence says of one caller.
Assigned(t) ==
  /\ \A k \in Kinds : reason[t] = ReasonOf(k) =>
       \E i \in 1..Count(t, k) : \E v \in VariantNames :
         Decides(t, k, i, v) /\ variant[t] = Existing(def[t], v)
  /\ DefaultAfterRules(t) =>
       \/ Passed(t, "percentile", Count(t, "percentile") + 1)
       \/ \E k \in Kinds : \E i \in 1..Count(t, k) : Decides(t, k, i, NoName)

\* While the rules are searched every earlier one was not for the user, and what the
\* configuration in force says is among what the rules were read from.
Search(t) ==
  /\ pc[t] # "store" => reason[t] = "None"
  /\ pc[t] \in Kinds => Passed(t, pc[t], at[t]) /\ Sections(definition) \in during[t]
  /\ pc[t] = "store" => Assigned(t)

PrecedenceInv == \A t \in Callers : Search(t)

\* What was not for the user, or was, remains so when more was read.
LEMMA PassedKept ==
  ASSUME NEW t \in Callers, UNCHANGED <<def[t], target[t]>>, during[t] \subseteq during'[t],
         NEW k, NEW i, Passed(t, k, i)
  PROVE  Passed(t, k, i)'
<1>1. Sources(t) \subseteq Sources(t)'
  BY DEF Sources
<1>2. \A l : Count(t, l)' = Count(t, l)
  BY DEF Count
<1> QED
  BY <1>1, <1>2 DEF Passed, Applies

\* The same of the rule that decides.
LEMMA DecidesKept ==
  ASSUME NEW t \in Callers, UNCHANGED <<def[t], target[t]>>, during[t] \subseteq during'[t],
         NEW k, NEW i, NEW v, Decides(t, k, i, v)
  PROVE  Decides(t, k, i, v)'
<1>1. Sources(t) \subseteq Sources(t)'
  BY DEF Sources
<1>2. Passed(t, k, i)'
  BY PassedKept DEF Decides
<1> QED
  BY <1>1, <1>2 DEF Decides, Applies

\* A call that stays where it is keeps what was searched.
LEMMA SearchKept ==
  ASSUME NEW t \in Callers, Search(t), during[t] \subseteq during'[t],
         UNCHANGED <<pc[t], def[t], target[t], reason[t], variant[t]>>,
         pc[t] \in Kinds => UNCHANGED at[t] /\ Sections(definition)' \in during'[t]
  PROVE  Search(t)'
<1>1. \A l : Count(t, l)' = Count(t, l)
  BY DEF Count
<1>2. CASE pc[t] \in Kinds
  <2>1. Passed(t, pc[t], at[t])'
    <3>1. PICK k, i : k = pc[t] /\ i = at[t]
      OBVIOUS
    <3>2. Passed(t, k, i)
      BY <1>2, <3>1 DEF Search
    <3>3. Passed(t, k, i)'
      BY <3>2, PassedKept
    <3>4. k = pc'[t] /\ i = at'[t]
      BY <1>2, <3>1
    <3> QED
      BY <3>3, <3>4 DEF Passed
  <2> QED
    BY <1>2, <2>1 DEF Search, Kinds
<1>3. CASE pc[t] = "store"
  <2>1. Assigned(t)
    BY <1>3 DEF Search
  <2>2. ASSUME NEW k \in Kinds, reason'[t] = ReasonOf(k)
        PROVE  (\E i \in 1..Count(t, k) : \E v \in VariantNames :
                  Decides(t, k, i, v) /\ variant[t] = Existing(def[t], v))'
    <3>1. PICK i \in 1..Count(t, k), v \in VariantNames :
            Decides(t, k, i, v) /\ variant[t] = Existing(def[t], v)
      BY <2>1, <2>2 DEF Assigned
    <3>2. Decides(t, k, i, v)'
      BY <3>1, DecidesKept
    <3> QED
      BY <1>1, <3>1, <3>2
  <2>3. ASSUME DefaultAfterRules(t)'
        PROVE  (\/ Passed(t, "percentile", Count(t, "percentile") + 1)
                \/ \E k \in Kinds : \E i \in 1..Count(t, k) : Decides(t, k, i, NoName))'
    <3>1. DefaultAfterRules(t)
      BY <2>3 DEF DefaultAfterRules
    <3>2. CASE Passed(t, "percentile", Count(t, "percentile") + 1)
      <4>1. PICK n : n = Count(t, "percentile") + 1
        OBVIOUS
      <4>2. Passed(t, "percentile", n)'
        BY <3>2, <4>1, PassedKept
      <4> QED
        BY <1>1, <4>1, <4>2
    <3>3. ASSUME NEW k \in Kinds, NEW i \in 1..Count(t, k), Decides(t, k, i, NoName)
          PROVE  (\E l \in Kinds : \E j \in 1..Count(t, l) : Decides(t, l, j, NoName))'
      BY <1>1, <3>3, DecidesKept
    <3> QED
      BY <2>1, <3>1, <3>2, <3>3 DEF Assigned
  <2> QED
    BY <1>3, <2>2, <2>3 DEF Search, Assigned, Kinds
<1> QED
  BY <1>2, <1>3 DEF Search

\* A call without a reason for its variant, outside of the rules, has nothing to answer for.
LEMMA NoReason ==
  ASSUME NEW t \in Callers, reason'[t] = "None", pc'[t] \notin Kinds
  PROVE  Search(t)'
  BY DEF Search, Assigned, DefaultAfterRules, ReasonOf, Kinds

\* Where the rules are read from is an allocation, and one of those remembered.
LEMMA SourceRead ==
  ASSUME IInv, NEW t \in Callers, Search(t), pc[t] \in Kinds
  PROVE  Source(t) \in Sources(t) /\ Source(t) \in Allocation
  BY AtRules, SectionsTyped DEF Source, Sources, Search, IInv, VarTypes

\* A rule that was not for the user has been passed, and so have all of its kind in the end.
LEMMA PassedOne ==
  ASSUME IInv, NEW t \in Callers, Search(t), pc[t] \in Kinds,
         ~Applies(RulesOf(Source(t), pc[t]), at[t], target[t])
  PROVE  Passed(t, pc[t], at[t] + 1)
<1>1. Source(t) \in Sources(t) /\ Passed(t, pc[t], at[t]) /\ at[t] \in Nat \ {0}
  BY SourceRead DEF Search, IInv, VarTypes
<1>2. SUFFICES ASSUME NEW l \in Kinds, NEW j \in 1..Count(t, l),
                      Before(l, pc[t]) \/ (l = pc[t] /\ j < at[t] + 1)
               PROVE  \E a \in Sources(t) : ~Applies(RulesOf(a, l), j, target[t])
  BY DEF Passed
<1>3. CASE l = pc[t] /\ j = at[t]
  BY <1>1, <1>3
<1>4. CASE Before(l, pc[t]) \/ (l = pc[t] /\ j < at[t])
  BY <1>1, <1>4 DEF Passed
<1>5. Count(t, l) \in Nat
  BY AtRules
<1> QED
  BY <1>1, <1>2, <1>3, <1>4, <1>5

\* The rules of a kind are all passed before those of the next.
LEMMA PassedKind ==
  ASSUME IInv, NEW t \in Callers, Search(t), pc[t] \in Kinds, at[t] > Count(t, pc[t])
  PROVE  /\ pc[t] = "user" => Passed(t, "group", 1)
         /\ pc[t] = "group" => Passed(t, "percentile", 1)
         /\ pc[t] = "percentile" => Passed(t, "percentile", Count(t, "percentile") + 1)
<1>1. Passed(t, pc[t], at[t]) /\ at[t] \in Nat /\ \A k \in Kinds : Count(t, k) \in Nat
  BY AtRules DEF Search, IInv, VarTypes
<1>2. ASSUME NEW l \in Kinds, NEW j \in 1..Count(t, l), Before(l, pc[t]) \/ l = pc[t]
      PROVE  \E a \in Sources(t) : ~Applies(RulesOf(a, l), j, target[t])
  <2>1. Before(l, pc[t]) \/ (l = pc[t] /\ j < at[t])
    BY <1>1, <1>2
  <2> QED
    BY <1>1, <2>1 DEF Passed
<1>3. ASSUME pc[t] = "user" PROVE Passed(t, "group", 1)
  BY <1>1, <1>2, <1>3 DEF Passed, Before, Kinds
<1>4. ASSUME pc[t] = "group" PROVE Passed(t, "percentile", 1)
  BY <1>1, <1>2, <1>4 DEF Passed, Before, Kinds
<1>5. ASSUME pc[t] = "percentile" PROVE Passed(t, "percentile", Count(t, "percentile") + 1)
  BY <1>2, <1>5 DEF Passed
<1> QED
  BY <1>3, <1>4, <1>5

\* The rule that ends the search decides, by its variant or by naming none.
LEMMA RuleDecides ==
  ASSUME IInv, NEW t \in Callers, Search(t), TryRule(t),
         Applies(RulesOf(Source(t), pc[t]), at[t], target[t])
  PROVE  Search(t)'
<1> DEFINE rules == RulesOf(Source(t), pc[t])
<1>1. PICK k, i, v : k = pc[t] /\ i = at[t] /\ v = rules[i].variant
  OBVIOUS
<1>2. /\ k \in Kinds /\ i \in 1..Count(t, k)
      /\ UNCHANGED <<definition, def, target, during>>
  BY <1>1 DEF TryRule, auxiliary, IInv, VarTypes, world
<1>3. Source(t) \in Sources(t) /\ Source(t) \in Allocation
  BY <1>1, <1>2, SourceRead
<1>4. v \in VariantNames \cup {NoName}
  <2>1. rules \in Seq(Rule)
    BY <1>3 DEF RulesOf, Allocation
  <2>2. rules[i] \in Rule
    BY <1>1, <2>1 DEF Applies
  <2> QED
    BY <1>1, <2>2 DEF Rule
<1>5. Decides(t, k, i, v)
  <2>1. Passed(t, k, i)
    BY <1>1, <1>2 DEF Search
  <2> QED
    BY <1>1, <1>3, <2>1 DEF Decides
<1>6. Decides(t, k, i, v)'
  BY <1>2, <1>5, DecidesKept
<1>7. Count(t, k)' = Count(t, k)
  BY <1>2 DEF Count
<1>8. pc'[t] = "store"
  BY <1>1, <1>2 DEF TryRule, Settle, Goto, IInv, VarTypes
<1>9. CASE v = NoName
  <2>1. reason'[t] = Default(def[t].allocation, enabled[t]).reason
    BY <1>1, <1>9 DEF TryRule, Settle, IInv, VarTypes
  <2>2. \A l \in Kinds : reason'[t] # ReasonOf(l)
    BY <2>1 DEF Default, ReasonOf
  <2> QED
    BY <1>2, <1>6, <1>7, <1>8, <1>9, <2>2 DEF Search, Assigned, Kinds
<1>10. CASE v # NoName
  <2>1. reason'[t] = ReasonOf(k) /\ variant'[t] = Existing(def[t], v)
    <3>1. Settle(t, [name |-> v, reason |-> ReasonOf(k)])
      BY <1>1, <1>10 DEF TryRule
    <3> QED
      BY <3>1 DEF Settle, IInv, VarTypes
  <2>2. \A l \in Kinds : reason'[t] = ReasonOf(l) => l = k
    BY <1>2, <2>1 DEF ReasonOf, Kinds
  <2>3. ~DefaultAfterRules(t)'
    BY <2>1 DEF DefaultAfterRules, ReasonOf
  <2>4. v \in VariantNames
    BY <1>4, <1>10
  <2>5. Assigned(t)'
    BY <1>2, <1>6, <1>7, <2>1, <2>2, <2>3, <2>4 DEF Assigned
  <2> QED
    BY <1>8, <2>5 DEF Search, Kinds
<1> QED
  BY <1>9, <1>10

\* The search goes on, or ends with the default behind the last percentile.
LEMMA RulePasses ==
  ASSUME IInv, NEW t \in Callers, Search(t),
         \/ TryRule(t) /\ ~Applies(RulesOf(Source(t), pc[t]), at[t], target[t])
         \/ NextKind(t)
  PROVE  Search(t)'
<1>1. /\ pc[t] \in Kinds /\ reason[t] = "None"
      /\ UNCHANGED <<definition, def, target, during>>
      /\ Sections(definition) \in during[t]
  BY DEF TryRule, NextKind, auxiliary, Search, Kinds, world
<1>2. \A k : Count(t, k)' = Count(t, k)
  BY <1>1 DEF Count
<1>3. ASSUME NEW k \in Kinds, NEW i, Passed(t, k, i), pc'[t] = k, at'[t] = i, UNCHANGED reason
      PROVE  Search(t)'
  <2>1. Passed(t, k, i)'
    BY <1>1, <1>3, PassedKept
  <2>2. Passed(t, pc[t], at[t])'
    BY <1>3, <2>1 DEF Passed
  <2> QED
    BY <1>1, <1>3, <2>2 DEF Search, Kinds
<1>4. CASE TryRule(t) /\ ~Applies(RulesOf(Source(t), pc[t]), at[t], target[t])
  <2>1. Passed(t, pc[t], at[t] + 1)
    BY <1>1, <1>4, PassedOne
  <2>2. pc'[t] = pc[t] /\ at'[t] = at[t] + 1 /\ UNCHANGED reason
    BY <1>4 DEF TryRule, SetAt, IInv, VarTypes
  <2> QED
    BY <1>1, <1>3, <2>1, <2>2
<1>5. CASE NextKind(t) /\ pc[t] # "percentile"
  <2>1. PICK k \in {"group", "percentile"} :
          k = (IF pc[t] = "user" THEN "group" ELSE "percentile")
    OBVIOUS
  <2>2. pc'[t] = k /\ at'[t] = 1 /\ UNCHANGED reason /\ at[t] > Count(t, pc[t])
    BY <1>5, <2>1 DEF NextKind, SetAt, Goto, IInv, VarTypes
  <2>3. Passed(t, k, 1)
    BY <1>1, <1>5, <2>1, <2>2, PassedKind DEF Kinds
  <2> QED
    BY <1>3, <2>1, <2>2, <2>3 DEF Kinds
<1>6. CASE NextKind(t) /\ pc[t] = "percentile"
  <2>1. PICK n : n = Count(t, "percentile") + 1
    OBVIOUS
  <2>2. Passed(t, "percentile", n)
    BY <1>1, <1>6, <2>1, PassedKind DEF NextKind
  <2>3. Passed(t, "percentile", n)'
    BY <1>1, <2>2, PassedKept
  <2>4. pc'[t] = "store" /\ reason'[t] = Default(def[t].allocation, enabled[t]).reason
    BY <1>6 DEF NextKind, Settle, Goto, IInv, VarTypes
  <2>5. \A l \in Kinds : reason'[t] # ReasonOf(l)
    BY <2>4 DEF Default, ReasonOf
  <2>6. n = (Count(t, "percentile") + 1)'
    BY <1>2, <2>1
  <2>7. Passed(t, "percentile", Count(t, "percentile") + 1)'
    BY <2>3, <2>6 DEF Passed
  <2> QED
    BY <2>4, <2>5, <2>7 DEF Search, Assigned, Kinds
<1> QED
  BY <1>4, <1>5, <1>6

\* Rules are searched for a user whose feature is on and has an allocation; the default
\* of any other call is not one that comes after rules.
LEMMA SearchBegins ==
  ASSUME IInv, NEW t \in Callers, NEW w \in Ambient, Search(t), DetermineVariant(t, w)
  PROVE  Search(t)'
<1>1. /\ pc[t] = "variant" /\ UNCHANGED <<definition, def>> /\ reason[t] = "None"
      /\ def[t] \in Definitions
  BY DEF DetermineVariant, world, Search, IInv, CallInv, PlaceOK
<1>2. CASE Settle(t, Default(def[t].allocation, enabled[t]))
           /\ (def[t].allocation = NoAllocation \/ ~enabled[t] \/ target'[t] = NoUser)
  <2>1. pc'[t] = "store" /\ reason'[t] = Default(def[t].allocation, enabled[t]).reason
    BY <1>2 DEF Settle, Goto, IInv, VarTypes
  <2>2. \A l \in Kinds : reason'[t] # ReasonOf(l)
    BY <2>1 DEF Default, ReasonOf
  <2>3. ~DefaultAfterRules(t)'
    BY <1>1, <1>2, <2>1 DEF DefaultAfterRules, Default
  <2> QED
    BY <2>1, <2>2, <2>3 DEF Search, Assigned, Kinds
<1>3. CASE /\ def[t].allocation # NoAllocation
           /\ during' = [during EXCEPT ![t] = {Sections(definition)}]
           /\ Goto(t, "user") /\ SetAt(t, 1) /\ UNCHANGED reason
  <2>1. pc'[t] = "user" /\ at'[t] = 1 /\ reason'[t] = "None"
    BY <1>1, <1>3 DEF SetAt, Goto, IInv, VarTypes
  <2>2. Passed(t, "user", 1)'
    <3>1. Count(t, "user")' \in Nat
      BY <1>1, <1>3 DEF Count, RulesOf, IsDefinition, Allocation
    <3> QED
      BY <3>1 DEF Passed, Before
  <2>3. Sections(definition)' \in during'[t]
    <3>1. (Sections(definition))' = Sections(definition)
      BY <1>1 DEF Sections
    <3>2. t \in DOMAIN during
      BY DEF IInv, VarTypes
    <3> QED
      BY <1>3, <3>1, <3>2
  <2>4. Passed(t, pc[t], at[t])'
    BY <2>1, <2>2 DEF Passed
  <2> QED
    BY <2>1, <2>3, <2>4 DEF Search, Kinds
<1> QED
  BY <1>2, <1>3 DEF DetermineVariant

\* Every step keeps what is known of the searches.
LEMMA PrecedenceStep ==
  ASSUME IInv, PrecedenceInv, [Next]_vars
  PROVE  PrecedenceInv'
<1> USE DEF Goto, SetAt, world, event, call, assignment, auxiliary
<1>1. ASSUME NEW t \in Callers, Search(t)', UNCHANGED definition,
             \A u \in Callers \ {t} :
               UNCHANGED <<pc[u], def[u], target[u], reason[u], variant[u], at[u], during[u]>>
      PROVE  PrecedenceInv'
  <2>1. ASSUME NEW u \in Callers \ {t} PROVE Search(u)'
    <3>1. Search(u) /\ UNCHANGED <<pc[u], def[u], target[u], reason[u], variant[u], at[u], during[u]>>
      BY <1>1 DEF PrecedenceInv
    <3>2. pc[u] \in Kinds => Sections(definition)' \in during'[u]
      BY <1>1, <3>1 DEF Search, Sections
    <3> QED
      BY <3>1, <3>2, SearchKept
  <2> QED
    BY <1>1, <2>1 DEF PrecedenceInv
<1>2. CASE UNCHANGED vars
  BY <1>2 DEF vars, PrecedenceInv, Search, Assigned, Passed, Decides, Sources, Count,
              DefaultAfterRules, Sections
<1>3. CASE Reload \/ \E m \in 1..Managers : Forget(m)
  <2>1. ASSUME NEW u \in Callers PROVE Search(u)'
    <3>1. Search(u) /\ UNCHANGED <<pc[u], def[u], target[u], reason[u], variant[u], at[u]>>
      BY <1>3 DEF Reload, Forget, PrecedenceInv
    <3>2. /\ during[u] \subseteq during'[u]
          /\ pc[u] \in Kinds => Sections(definition)' \in during'[u]
      <4>1. CASE Reload
        BY <4>1 DEF Reload, Sections
      <4>2. CASE \E m \in 1..Managers : Forget(m)
        BY <3>1, <4>2 DEF Forget, Sections, Search
      <4> QED
        BY <1>3, <4>1, <4>2
    <3> QED
      BY <3>1, <3>2, SearchKept
  <2> QED
    BY <2>1 DEF PrecedenceInv
<1>4. ASSUME NEW t \in Callers,
             \/ Define(t) \/ \E n \in Names, a \in Args : Call(t, n, a)
             \/ ReadMiss(t) \/ ReadHit(t) \/ ReadNone(t) \/ NoVariants(t) \/ FilterStep(t)
      PROVE  PrecedenceInv'
  <2>1. /\ pc[t] \notin Kinds \cup {"store"} /\ pc'[t] \notin Kinds
        /\ UNCHANGED <<reason, definition, during>>
        /\ \A u \in Callers \ {t} : UNCHANGED <<pc[u], def[u], target[u], variant[u], at[u]>>
    <3>1. CASE Define(t) \/ \E n \in Names, a \in Args : Call(t, n, a)
      <4>1. CASE Define(t)
        BY <4>1 DEF Define, IInv, VarTypes, Kinds
      <4>2. ASSUME NEW n \in Names, NEW a \in Args, Call(t, n, a)
            PROVE  /\ pc[t] = "idle" /\ pc'[t] = "define"
                   /\ UNCHANGED <<reason, definition, during, def, target, variant, at>>
                   /\ \A u \in Callers \ {t} : UNCHANGED pc[u]
        BY <4>2 DEF Call, IInv, VarTypes
      <4> QED
        BY <3>1, <4>1, <4>2 DEF Kinds
    <3>2. CASE ReadMiss(t) \/ ReadHit(t) \/ ReadNone(t) \/ NoVariants(t)
      BY <3>2 DEF ReadMiss, ReadHit, ReadNone, NoVariants, IInv, VarTypes, Kinds
    <3>3. CASE FilterStep(t)
      BY <3>3 DEF FilterStep, AlwaysOn, Skip, Missing, EvaluateContextual, AtFilter,
                  EvaluatePlain, FiltersDone, Decide, NextFilter, IInv, VarTypes, Kinds
    <3> QED
      BY <1>4, <3>1, <3>2, <3>3
  <2>2. reason'[t] = "None"
    BY <2>1 DEF PrecedenceInv, Search
  <2> QED
    BY <1>1, <2>1, <2>2, NoReason
<1>5. ASSUME NEW t \in Callers, Store(t) PROVE PrecedenceInv'
  <2>1. Search(t) /\ pc[t] = "store"
        /\ UNCHANGED <<pc, def, target, reason, variant, during, definition>>
        /\ \A u \in Callers \ {t} : UNCHANGED at[u]
    BY <1>5 DEF Store, PrecedenceInv, IInv, VarTypes
  <2>2. Search(t)'
    BY <2>1, SearchKept DEF Kinds
  <2> QED
    BY <1>1, <2>1, <2>2
<1>6. ASSUME NEW t \in Callers, Fail(t) \/ Return(t) PROVE PrecedenceInv'
  <2>1. Leave(t) /\ UNCHANGED definition
    BY <1>6 DEF Fail, Return
  <2>2. pc'[t] = "idle" /\ reason'[t] = "None"
    BY <2>1 DEF Leave, IInv, VarTypes
  <2>3. \A u \in Callers \ {t} :
          UNCHANGED <<pc[u], def[u], target[u], reason[u], variant[u], at[u], during[u]>>
    BY <2>1 DEF Leave, IInv, VarTypes
  <2>4. Search(t)'
    BY <2>2, NoReason DEF Kinds
  <2> QED
    BY <1>1, <2>1, <2>3, <2>4
<1>7. ASSUME NEW t \in Callers, TryRule(t) \/ NextKind(t) \/ \E w \in Ambient : DetermineVariant(t, w)
      PROVE  PrecedenceInv'
  <2>1. Search(t)'
    BY <1>7, RuleDecides, RulePasses, SearchBegins DEF PrecedenceInv
  <2>2. UNCHANGED definition
        /\ \A u \in Callers \ {t} :
             UNCHANGED <<pc[u], def[u], target[u], reason[u], variant[u], at[u], during[u]>>
    <3>1. CASE TryRule(t) \/ NextKind(t)
      BY <3>1 DEF TryRule, NextKind, Settle, IInv, VarTypes
    <3>2. CASE \E w \in Ambient : DetermineVariant(t, w)
      BY <3>2 DEF DetermineVariant, Settle, IInv, VarTypes
    <3> QED
      BY <1>7, <3>1, <3>2
  <2> QED
    BY <1>1, <2>1, <2>2
<1> QED
  BY <1>2, <1>3, <1>4, <1>5, <1>6, <1>7 DEF Next, Step

\* AssignVariantAsync tries users, then groups, then percentiles: the variant comes from the
\* first rule for the user, whatever the lists of rules are, as some allocation held it while
\* the variant was determined, and from the default only when no rule names one.
THEOREM Precedence == Spec => []VariantPrecedence
<1>1. Init => PrecedenceInv
  BY DEF Init, PrecedenceInv, Search, Kinds
<1>2. PrecedenceInv => VariantPrecedence
  BY DEF PrecedenceInv, Search, Assigned, VariantPrecedence
<1>3. IInv /\ PrecedenceInv /\ [Next]_vars => PrecedenceInv'
  BY PrecedenceStep
<1> QED
  BY <1>1, <1>2, <1>3, InitInv, Inductive, PTL DEF Spec

-----------------------------------------------------------------------------
(* The session. What it holds cannot be said for callers that overlap, nor for *)
(* variants that override the state, which store another state than they read. *)

\* One evaluation of the session at a time.
OneCaller == \A t, u \in Callers : t = u

\* No definition has a variant that overrides the state.
NoOverride ==
  \A d \in Definitions :
    d.status = "Disabled" \/ \A v \in DOMAIN d.variants : d.variants[v] = "None"

\* What a call has learnt of the session managers under the name it was given, and what it
\* tells them: they know nothing until it has passed them all, then nothing but the state
\* it will return.
Learnt(t, n) ==
  /\ pc[t] = "read" => \A m \in 1..Managers : m < at[t] => session[m][n] = Unset
  /\ pc[t] \in {"filter", "plain"} => \A m \in 1..Managers : session[m][n] = Unset
  /\ pc[t] \in {"variant", "store"} \cup Kinds =>
       \A m \in 1..Managers : session[m][n] \in {Unset, enabled[t]}

Told(t) ==
  /\ pc[t] \in {"idle", "define"} => at[t] = 1
  /\ \A n \in Names : pc[t] # "idle" /\ feature[t] = n /\ Spelled(n) => Learnt(t, n)

SessionInv == SessionManagersAgree /\ \A t \in Callers : Told(t)

\* What a step may not do to the state of a feature that a session manager knows.
Kept ==
  \A n \in Names : Spelled(n) => \A m \in 1..Managers :
    session[m][n] # Unset /\ session'[m][n] # Unset => session'[m][n] = session[m][n]

\* Without an override the variant leaves the state as it is.
LEMMA OverrideKeeps ==
  ASSUME NoOverride, NEW d \in Definitions, NEW e, NEW v \in DOMAIN d.variants \cup {NoName}
  PROVE  Override(d, v, e) = e
  BY DEF NoOverride, Override

\* So whatever is settled on, the state of the call remains.
LEMMA SettleKeeps ==
  ASSUME NoOverride, IInv, NEW t \in Callers, NEW choice, Settle(t, choice),
         def[t] \in Definitions
  PROVE  UNCHANGED enabled
<1>1. Existing(def[t], choice.name) \in DOMAIN def[t].variants \cup {NoName}
  BY DEF Existing
<1>2. Override(def[t], Existing(def[t], choice.name), enabled[t]) = enabled[t]
  BY <1>1, OverrideKeeps
<1> QED
  BY <1>2 DEF Settle, IInv, VarTypes

\* A name that every definition spells is the one the session is asked by.
LEMMA SpelledKey ==
  ASSUME IInv, NEW t \in Callers, Spelled(feature[t])
  PROVE  Key(t) = feature[t]
  BY DEF Key, Spelled, IInv, VarTypes

\* A step that leaves the session alone has only to account for what its caller learnt.
LEMMA SessionFrame ==
  ASSUME OneCaller, SessionInv, NEW t \in Callers, UNCHANGED session, Told(t)'
  PROVE  SessionInv' /\ Kept
<1>1. SessionManagersAgree'
  BY DEF SessionInv, SessionManagersAgree
<1> QED
  BY <1>1 DEF OneCaller, SessionInv, Kept

\* What the session managers are found to know while they are read.
LEMMA SessionRead ==
  ASSUME IInv, SessionInv, NEW t \in Callers, ReadMiss(t) \/ ReadHit(t) \/ ReadNone(t)
  PROVE  UNCHANGED session /\ Told(t)'
<1> USE DEF Goto, SetAt, world, event, call, assignment, auxiliary
<1>1. pc[t] = "read" /\ at[t] \in Nat \ {0} /\ feature[t] \in Names
      /\ UNCHANGED <<session, feature>>
  BY DEF IInv, VarTypes, CallInv, PlaceOK, ReadMiss, ReadHit, ReadNone
<1>2. pc'[t] \in {"read", "store", "variant", "filter"}
  BY <1>1 DEF IInv, VarTypes, ReadMiss, ReadHit, ReadNone
<1>3. ASSUME NEW n \in Names, feature[t] = n, Spelled(n) PROVE Learnt(t, n)'
  <2>1. Key(t) = n /\ \A m \in 1..Managers : m < at[t] => session[m][n] = Unset
    BY <1>1, <1>3, SpelledKey DEF SessionInv, Told, Learnt
  <2>2. CASE ReadMiss(t)
    <3>1. pc'[t] = "read" /\ at'[t] = at[t] + 1 /\ session[at[t]][n] = Unset
      BY <1>1, <2>1, <2>2 DEF ReadMiss, IInv, VarTypes
    <3>2. \A m \in 1..Managers : m < at'[t] => session[m][n] = Unset
      BY <1>1, <2>1, <3>1
    <3> QED
      BY <1>1, <3>1, <3>2 DEF Learnt, Kinds
  <2>3. CASE ReadHit(t)
    <3>1. at[t] \in 1..Managers /\ session[at[t]][n] # Unset
      BY <1>1, <2>1, <2>3 DEF ReadHit
    <3>2. \A m \in 1..Managers : session[m][n] \in {Unset, session[at[t]][n]}
      BY <1>3, <3>1 DEF SessionInv, SessionManagersAgree
    <3>3. enabled'[t] = session[at[t]][n] /\ pc'[t] \in {"store", "variant"}
      BY <2>1, <2>3 DEF ReadHit, IInv, VarTypes
    <3> QED
      BY <1>1, <3>2, <3>3 DEF Learnt
  <2>4. CASE ReadNone(t)
    <3>1. \A m \in 1..Managers : session[m][n] = Unset
      BY <1>1, <2>1, <2>4 DEF ReadNone
    <3>2. pc'[t] \in {"store", "variant", "filter"}
      BY <2>4 DEF ReadNone, IInv, VarTypes
    <3> QED
      BY <1>1, <3>1, <3>2 DEF Learnt
  <2> QED
    BY <2>2, <2>3, <2>4
<1> QED
  BY <1>1, <1>2, <1>3 DEF Told

\* From the filters to the variant nothing is stored and no session manager is told.
LEMMA SessionCompute ==
  ASSUME NoOverride, IInv, SessionInv, NEW t \in Callers,
         \/ FilterStep(t) \/ NoVariants(t) \/ TryRule(t) \/ NextKind(t)
         \/ \E w \in Ambient : DetermineVariant(t, w)
  PROVE  UNCHANGED session /\ Told(t)'
<1> USE DEF Goto, SetAt, world, event, call, assignment, auxiliary
<1>1. CASE FilterStep(t)
  <2>1. /\ pc[t] \in {"filter", "plain"} /\ pc'[t] \in {"filter", "plain", "variant"}
        /\ UNCHANGED <<session, feature>>
    BY <1>1 DEF FilterStep, AlwaysOn, Skip, Missing, EvaluateContextual, AtFilter,
                EvaluatePlain, FiltersDone, Decide, NextFilter, IInv, VarTypes
  <2>2. Told(t)
    BY DEF SessionInv
  <2> QED
    BY <2>1, <2>2 DEF Told, Learnt, Kinds
<1>2. ASSUME UNCHANGED <<session, feature, enabled>>,
             pc[t] \in {"variant", "store"} \cup Kinds, pc'[t] \in {"variant", "store"} \cup Kinds
      PROVE  Told(t)'
  <2>1. Told(t)
    BY DEF SessionInv
  <2> QED
    BY <1>2, <2>1 DEF Told, Learnt, Kinds
<1>3. CASE NoVariants(t)
  BY <1>2, <1>3 DEF NoVariants, IInv, VarTypes
<1>4. ASSUME NEW choice, Settle(t, choice), def[t] \in Definitions
      PROVE  UNCHANGED enabled /\ pc'[t] = "store"
  BY <1>4, SettleKeeps DEF Settle, IInv, VarTypes
<1>5. ASSUME NEW w \in Ambient, DetermineVariant(t, w)
      PROVE  UNCHANGED session /\ Told(t)'
  <2>1. pc[t] = "variant" /\ def[t] \in Definitions /\ UNCHANGED <<session, feature>>
    BY <1>5 DEF DetermineVariant, IInv, CallInv, PlaceOK
  <2>2. UNCHANGED enabled /\ pc'[t] \in {"store", "user"}
    <3>1. CASE Goto(t, "user") /\ UNCHANGED enabled
      BY <3>1 DEF IInv, VarTypes
    <3>2. CASE Settle(t, Default(def[t].allocation, enabled[t]))
      BY <1>4, <2>1, <3>2
    <3> QED
      BY <1>5, <3>1, <3>2 DEF DetermineVariant
  <2> QED
    BY <1>2, <2>1, <2>2 DEF Kinds
<1>6. CASE TryRule(t) \/ NextKind(t)
  <2>1. pc[t] \in Kinds /\ def[t] \in Definitions /\ UNCHANGED <<session, feature>>
    BY <1>6 DEF TryRule, NextKind, IInv, CallInv, PlaceOK
  <2>2. UNCHANGED enabled /\ pc'[t] \in {"store"} \cup Kinds
    <3>1. \/ \E choice : Settle(t, choice)
          \/ UNCHANGED <<enabled, pc>>
          \/ UNCHANGED enabled /\ \E k \in Kinds : Goto(t, k)
      BY <1>6 DEF TryRule, NextKind, Kinds
    <3>2. ASSUME NEW k \in Kinds, Goto(t, k) PROVE pc'[t] = k
      BY <3>2 DEF IInv, VarTypes
    <3> QED
      BY <1>4, <2>1, <3>1, <3>2
  <2> QED
    BY <1>2, <2>1, <2>2
<1> QED
  BY <1>1, <1>3, <1>5, <1>6

\* A state is stored under the caller's name, where nothing but that state is known.
LEMMA SessionStore ==
  ASSUME OneCaller, IInv, SessionInv, NEW t \in Callers, Store(t)
  PROVE  SessionInv' /\ Kept
<1>1. /\ pc[t] = "store" /\ at[t] \in 1..Managers /\ feature[t] \in Names
      /\ UNCHANGED <<pc, feature, enabled>>
      /\ session' = [session EXCEPT ![at[t]][feature[t]] = enabled[t]]
  BY DEF Store, SetAt, IInv, VarTypes, CallInv, PlaceOK, event, call
<1>2. \A m \in 1..Managers : \A n \in Names :
        session'[m][n] = IF m = at[t] /\ n = feature[t] THEN enabled[t] ELSE session[m][n]
  BY <1>1 DEF IInv, VarTypes
<1>3. Spelled(feature[t]) =>
        \A m \in 1..Managers : session[m][feature[t]] \in {Unset, enabled[t]}
  BY <1>1 DEF SessionInv, Told, Learnt
<1>4. Spelled(feature[t]) =>
        \A m \in 1..Managers : session'[m][feature[t]] \in {Unset, enabled[t]}
  BY <1>1, <1>2, <1>3
<1>5. SessionManagersAgree'
  <2>1. ASSUME NEW n \in Names, Spelled(n), NEW m \in 1..Managers, NEW k \in 1..Managers,
               session'[m][n] # Unset, session'[k][n] # Unset
        PROVE  session'[m][n] = session'[k][n]
    <3>1. CASE n = feature[t]
      BY <1>4, <2>1, <3>1
    <3>2. CASE n # feature[t]
      BY <1>2, <2>1, <3>2 DEF SessionInv, SessionManagersAgree
    <3> QED
      BY <3>1, <3>2
  <2> QED
    BY <2>1 DEF SessionManagersAgree
<1>6. Told(t)'
  BY <1>1, <1>4 DEF Told, Learnt, Kinds
<1>7. \A u \in Callers : u = t
  BY DEF OneCaller
<1>8. Kept
  BY <1>2, <1>3 DEF Kept
<1> QED
  BY <1>5, <1>6, <1>7, <1>8 DEF SessionInv

\* What a step of the only caller does to the session.
LEMMA SessionStep ==
  ASSUME OneCaller, NoOverride, IInv, SessionInv, [Next]_vars
  PROVE  SessionInv' /\ Kept
<1>1. CASE UNCHANGED vars \/ Reload
  BY <1>1 DEF vars, Reload, event, call, SessionInv, SessionManagersAgree, Told, Learnt, Kept
<1>2. ASSUME NEW m \in 1..Managers, Forget(m) PROVE SessionInv' /\ Kept
  <2>1. \A k \in 1..Managers : \A n \in Names :
          session'[k][n] = IF k = m THEN Unset ELSE session[k][n]
    BY <1>2 DEF Forget, IInv, VarTypes
  <2>2. UNCHANGED <<pc, at, enabled, feature>>
    BY <1>2 DEF Forget, event, call
  <2>3. SessionManagersAgree' /\ Kept
    BY <2>1 DEF SessionInv, SessionManagersAgree, Kept
  <2>4. ASSUME NEW t \in Callers PROVE Told(t)'
    BY <2>1, <2>2 DEF SessionInv, Told, Learnt
  <2> QED
    BY <2>3, <2>4 DEF SessionInv
<1>3. ASSUME NEW t \in Callers, Define(t) PROVE SessionInv' /\ Kept
  <2>1. pc'[t] = "read" /\ at[t] = 1 /\ UNCHANGED <<session, at>>
    BY <1>3 DEF Define, Goto, world, SessionInv, Told, IInv, VarTypes
  <2>2. Told(t)'
    BY <2>1 DEF Told, Learnt, Kinds
  <2> QED
    BY <2>1, <2>2, SessionFrame
<1>4. ASSUME NEW t \in Callers, NEW n \in Names, NEW a \in Args, Call(t, n, a)
      PROVE  SessionInv' /\ Kept
  <2>1. pc'[t] = "define" /\ at[t] = 1 /\ UNCHANGED <<session, at>>
    BY <1>4 DEF Call, Goto, world, SessionInv, Told, IInv, VarTypes
  <2>2. Told(t)'
    BY <2>1 DEF Told, Learnt, Kinds
  <2> QED
    BY <2>1, <2>2, SessionFrame
<1>5. ASSUME NEW t \in Callers, Fail(t) \/ Return(t) PROVE SessionInv' /\ Kept
  <2>1. pc'[t] = "idle" /\ at'[t] = 1 /\ UNCHANGED session
    BY <1>5 DEF Fail, Return, Leave, Goto, SetAt, world, IInv, VarTypes
  <2>2. Told(t)'
    BY <2>1 DEF Told
  <2> QED
    BY <2>1, <2>2, SessionFrame
<1> QED
  BY <1>1, <1>2, <1>3, <1>4, <1>5, SessionRead, SessionCompute, SessionStore, SessionFrame
     DEF Next, Step

\* Nothing is stored before the first call.
LEMMA SessionInit == Init => SessionInv
  BY DEF Init, SessionInv, SessionManagersAgree, Told

\* Session managers that know the feature by the name its definitions spell agree about it,
\* although calls fail half-way through storing, managers forget one by one and callers use
\* other spellings: in a session whose calls do not overlap, of features whose variants do
\* not override the state.
THEOREM ManagersAgree ==
  ASSUME OneCaller, NoOverride PROVE Spec => []SessionManagersAgree
<1>1. IInv /\ SessionInv /\ [Next]_vars => SessionInv'
  BY SessionStep
<1>2. SessionInv => SessionManagersAgree
  BY DEF SessionInv
<1> QED
  BY <1>1, <1>2, SessionInit, InitInv, Inductive, PTL DEF Spec

\* A state that a session manager has stored under that name is not replaced by another one
\* as long as it is known, whatever is reloaded: under the same two conditions.
THEOREM SessionKept ==
  ASSUME OneCaller, NoOverride PROVE Spec => SessionKeepsState
<1>1. IInv /\ SessionInv /\ [Next]_vars =>
        /\ SessionInv'
        /\ [\A n \in Names : Spelled(n) => \A m \in 1..Managers :
              session[m][n] # Unset /\ session'[m][n] # Unset => session'[m][n] = session[m][n]]_vars
  BY SessionStep DEF Kept
<1> QED
  BY <1>1, SessionInit, InitInv, Inductive, PTL DEF Spec, SessionKeepsState

=============================================================================
