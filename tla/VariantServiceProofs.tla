------------------------- MODULE VariantServiceProofs -------------------------
(***************************************************************************)
(* What GetServiceAsync promises, for any number of callers, registrations *)
(* and names, whatever the evaluations answer: one service per name, and   *)
(* the one that the call's own evaluations ask for.                        *)
(***************************************************************************)
EXTENDS VariantService, TLAPS, WellFoundedInduction

USE NamesAssumption, TypesAssumption, NothingAssumption, MaxAssumption

\* The variant v gives no service to a call.
Nothing(v) == v # NoVariant => TypeFor(v) = NoType

\* What is cached for a name is of the type that serves it.
CacheRight == \A n \in Names : cache[n] # Empty => TypeOf(cache[n]) = TypeFor(n)

\* What a call has learnt, at each place of the code.
CallOK(t) ==
  /\ pc[t] \in {"idle", "assign", "fallback"} => enabled[t] = Unasked
  /\ pc[t] \in {"idle", "assign"} => variant[t] = NoVariant
  /\ pc[t] = "fallback" => Nothing(variant[t])
  /\ pc[t] \in {"look", "resolve", "add"} /\ enabled[t] = Unasked => variant[t] = key[t]
  /\ pc[t] \in {"look", "resolve", "add"} /\ enabled[t] # Unasked =>
       /\ Nothing(variant[t])
       /\ Fallback(enabled[t]) # NoType /\ key[t] = ServiceName[Fallback(enabled[t])]
  /\ pc[t] = "add" => TypeOf(own[t]) = TypeFor(key[t])

\* An answer is what the evaluations of its call promise, and comes from the
\* dictionary if it is a service.
AnswerOK(t) ==
  answer[t] # NoAnswer =>
    /\ answer[t].under = NoVariant => answer[t].service = Null
    /\ answer[t].under \in Names => answer[t].service = cache[answer[t].under]
    /\ FallbacksResolve => AsPromised(answer[t])

\* The inductive invariant.
IInv == TypeOK /\ CacheRight /\ \A t \in Callers : CallOK(t) /\ AnswerOK(t)

\* Registrations are fixed, services are only added.
Grows ==
  /\ setup' = setup
  /\ \A n \in Names : cache[n] # Empty => cache'[n] = cache[n]

-----------------------------------------------------------------------------
(* Registrations.                                                          *)

\* A set of naturals that is not empty has a least element.
LEMMA LeastNatural ==
  ASSUME NEW S \in SUBSET Nat, S # {} PROVE \E i \in S : \A j \in S : i <= j
<1> DEFINE R == {x \in Nat \X Nat : x[1] < x[2]}
<1>1. OpToRel(<, Nat) = R
  BY DEF OpToRel
<1>2. IsWellFoundedOn(R, Nat)
  BY <1>1, NatLessThanWellFounded
<1> HIDE DEF R
<1>3. PICK i \in S : \A j \in S : <<j, i>> \notin R
  BY <1>2, WFMin
<1>4. \A j \in S : ~ (j < i)
  BY <1>3 DEF R
<1>5. QED
  BY <1>4

\* What serves a name is a type or nothing.
LEMMA TypeForType == ASSUME TypeOK, NEW n \in Names PROVE TypeFor(n) \in Types \cup {NoType}
<1>1. IsSetup(setup)
  BY SetupsAssumption DEF TypeOK
<1>2. CASE n \in DOMAIN setup.keyed
  BY <1>1, <1>2 DEF TypeFor, IsSetup
<1>3. CASE n \notin DOMAIN setup.keyed /\ Matching(n) = {}
  BY <1>3 DEF TypeFor
<1>4. CASE n \notin DOMAIN setup.keyed /\ Matching(n) # {}
  <2>1. Matching(n) \subseteq 1..Len(setup.listed) /\ Matching(n) \in SUBSET Nat
    BY DEF Matching
  <2>2. \E i \in Matching(n) : \A j \in Matching(n) : i <= j
    BY <1>4, <2>1, LeastNatural
  <2>3. PICK i \in Matching(n) : TypeFor(n) = setup.listed[i]
    BY <1>4, <2>2 DEF TypeFor
  <2>4. QED
    BY <1>1, <2>1, <2>3 DEF IsSetup
<1>5. QED
  BY <1>2, <1>3, <1>4

\* What a state falls back to is a type or nothing.
LEMMA FallbackType == ASSUME TypeOK, NEW e PROVE Fallback(e) \in Types \cup {NoType}
  BY SetupsAssumption DEF TypeOK, Fallback, IsSetup

\* A name keeps what serves it, and a state what it falls back to.
LEMMA TypesStay ==
  ASSUME setup' = setup
  PROVE  /\ \A n : TypeFor(n)' = TypeFor(n)
         /\ \A e : Fallback(e)' = Fallback(e)
         /\ \A v : Nothing(v)' = Nothing(v)
         /\ \A r : AsPromised(r)' = AsPromised(r)
         /\ FallbacksResolve' = FallbacksResolve
<1>1. \A n : TypeFor(n)' = TypeFor(n)
  BY DEF TypeFor, Matching
<1>2. \A e : Fallback(e)' = Fallback(e)
  BY DEF Fallback
<1>3. \A v : Nothing(v)' = Nothing(v)
  BY <1>1 DEF Nothing
<1>4. \A r : AsPromised(r)' = AsPromised(r)
  BY <1>1, <1>2 DEF AsPromised, Promised, TypeOf
<1>5. FallbacksResolve' = FallbacksResolve
  BY <1>1, <1>2 DEF FallbacksResolve
<1> QED
  BY <1>1, <1>2, <1>3, <1>4, <1>5

-----------------------------------------------------------------------------
(* What stays.                                                             *)

\* An answer stays what it is.
LEMMA AnswerStays ==
  ASSUME TypeOK, Grows, NEW t \in Callers, AnswerOK(t), answer'[t] = answer[t]
  PROVE  AnswerOK(t)'
<1>1. CASE answer[t] = NoAnswer
  BY <1>1 DEF AnswerOK
<1>2. CASE answer[t] # NoAnswer
  <2>0. PICK r : r = answer[t]
    OBVIOUS
  <2>1. r \in Answer
    BY <1>2, <2>0 DEF TypeOK
  <2>2. r.under \in Names => r.service = cache'[r.under]
    <3>1. SUFFICES ASSUME r.under \in Names PROVE r.service = cache'[r.under]
      OBVIOUS
    <3>2. r.service = cache[r.under] /\ r.service \in Service
      BY <1>2, <2>0, <2>1, <3>1 DEF AnswerOK, Answer
    <3>3. cache[r.under] # Empty
      BY <3>2 DEF Service
    <3> QED
      BY <3>1, <3>2, <3>3 DEF Grows
  <2>3. FallbacksResolve' => AsPromised(r)'
    BY <1>2, <2>0, TypesStay DEF AnswerOK, Grows
  <2>4. r.under = NoVariant => r.service = Null
    BY <1>2, <2>0 DEF AnswerOK
  <2>5. answer'[t] = r
    BY <2>0
  <2>6. AsPromised(answer[t])' <=> AsPromised(r)'
    BY <2>5 DEF AsPromised, Promised, TypeOf
  <2> QED
    BY <2>2, <2>3, <2>4, <2>5, <2>6 DEF AnswerOK
<1> QED
  BY <1>1, <1>2

\* A call that a step leaves alone has learnt what it had.
LEMMA CallStays ==
  ASSUME Grows, NEW t \in Callers, CallOK(t),
         UNCHANGED <<pc[t], variant[t], enabled[t], key[t], own[t]>>
  PROVE  CallOK(t)'
<1>1. Nothing(variant[t])' = Nothing(variant[t])
  BY TypesStay DEF Nothing, Grows
<1>2. TypeFor(key[t])' = TypeFor(key[t])
  BY DEF TypeFor, Matching, Grows
<1>3. TypeOf(own[t])' = TypeOf(own[t])
  BY DEF TypeOf
<1>4. Fallback(enabled[t])' = Fallback(enabled[t])
  BY DEF Fallback, Grows
<1> QED
  BY <1>1, <1>2, <1>3, <1>4 DEF CallOK

\* What the type invariant says of one call.
CallTypes(t) == pc[t] \in {"look", "resolve", "add"} => key[t] \in Names

\* The types of the variables of the calls.
CallVariables ==
  /\ pc \in [Callers -> Labels]
  /\ variant \in [Callers -> Names \cup {NoVariant}]
  /\ enabled \in [Callers -> BOOLEAN \cup {Unasked}]
  /\ key \in [Callers -> Names \cup {NoVariant}]
  /\ own \in [Callers -> Service]
  /\ answer \in [Callers -> Answer \cup {NoAnswer}]

\* The other calls are where they were.
Alone(t) ==
  \A u \in Callers \ {t} :
    UNCHANGED <<pc[u], variant[u], enabled[u], key[u], own[u], answer[u]>>

\* The invariant is kept by a step of one caller that leaves the others alone, if
\* that one stays right and what it adds to the dictionary is.
LEMMA CallStep ==
  ASSUME IInv, NEW t \in Callers, setup' = setup, made' \in Nat,
         \A n \in Names : cache[n] # Empty => cache'[n] = cache[n],
         cache' \in [Names -> Service \cup {Empty}], CacheRight',
         CallVariables', Alone(t), CallTypes(t)', CallOK(t)', AnswerOK(t)'
  PROVE  IInv'
<1>1. TypeOK /\ Grows
  BY DEF IInv, Grows
<1>2. ASSUME NEW u \in Callers \ {t}
      PROVE  CallTypes(u)' /\ CallOK(u)' /\ AnswerOK(u)'
  <2>1. UNCHANGED <<pc[u], variant[u], enabled[u], key[u], own[u], answer[u]>>
    BY DEF Alone
  <2>2. CallTypes(u)'
    BY <1>1, <2>1 DEF TypeOK, CallTypes
  <2>3. CallOK(u) /\ AnswerOK(u)
    BY DEF IInv
  <2>4. CallOK(u)'
    BY <1>1, <2>1, <2>3, CallStays
  <2>5. AnswerOK(u)'
    BY <1>1, <2>1, <2>3, AnswerStays
  <2> QED
    BY <2>2, <2>4, <2>5
<1>3. \A u \in Callers : CallTypes(u)'
  BY <1>2
<1>4. TypeOK'
  BY <1>1, <1>3 DEF TypeOK, CallTypes, CallVariables
<1> QED
  BY <1>2, <1>4 DEF IInv

-----------------------------------------------------------------------------
(* The steps of a call.                                                    *)

\* What the invariant says of one call.
LEMMA CallFacts ==
  ASSUME IInv, NEW t \in Callers
  PROVE  TypeOK /\ CallVariables /\ CallTypes(t) /\ CallOK(t) /\ AnswerOK(t) /\ CacheRight
  BY DEF IInv, TypeOK, CallVariables, CallTypes

\* A call ends.
LEMMA LeaveFacts ==
  ASSUME IInv, NEW t \in Callers, Leave(t)
  PROVE  /\ answer' \in [Callers -> Answer \cup {NoAnswer}] => CallVariables'
         /\ (\A u \in Callers \ {t} : answer'[u] = answer[u]) => Alone(t)
         /\ CallTypes(t)' /\ CallOK(t)'
<1>1. CallVariables
  BY CallFacts
<1>2. pc'[t] = "idle" /\ enabled'[t] = Unasked /\ variant'[t] = NoVariant
  BY <1>1 DEF Leave, Goto, CallVariables
<1>3. CallTypes(t)' /\ CallOK(t)'
  BY <1>2 DEF CallTypes, CallOK
<1>4. answer' \in [Callers -> Answer \cup {NoAnswer}] => CallVariables'
  BY <1>1 DEF Leave, Goto, CallVariables, Labels, Service
<1>5. (\A u \in Callers \ {t} : answer'[u] = answer[u]) => Alone(t)
  BY <1>1 DEF Leave, Goto, CallVariables, Alone
<1> QED
  BY <1>3, <1>4, <1>5

\* A failing call keeps the invariant.
LEMMA FailKeeps == ASSUME IInv, NEW t \in Callers, Fail(t) PROVE IInv'
<1>1. TypeOK /\ AnswerOK(t) /\ Leave(t) /\ UNCHANGED <<setup, cache, answer, made>>
  BY CallFacts DEF Fail
<1>2. CallVariables' /\ Alone(t) /\ CallTypes(t)' /\ CallOK(t)'
  BY <1>1, LeaveFacts DEF TypeOK
<1>3. AnswerOK(t)'
  BY <1>1, AnswerStays DEF Grows
<1>4. CacheRight'
  BY <1>1, TypesStay DEF IInv, CacheRight, TypeOf
<1> QED
  BY <1>1, <1>2, <1>3, <1>4, CallStep DEF TypeOK

\* A call ends with the answer that its evaluations promise.
LEMMA ReturnKeeps ==
  ASSUME IInv, NEW t \in Callers, NEW k \in Names \cup {NoVariant},
         NEW e \in BOOLEAN \cup {Unasked}, NEW s \in Service, UNCHANGED <<setup, made>>,
         \A n \in Names : cache[n] # Empty => cache'[n] = cache[n],
         cache' \in [Names -> Service \cup {Empty}], CacheRight',
         k = NoVariant => s = Null, k \in Names => cache'[k] = s,
         NEW d \in BOOLEAN, e \in {d, Unasked},
         FallbacksResolve => TypeOf(s) = Promised(variant[t], d),
         Return(t, k, e, s)
  PROVE  IInv'
<1>1. TypeOK /\ CallVariables
  BY CallFacts
<1> DEFINE r == [variant |-> variant[t], enabled |-> e, under |-> k, service |-> s]
<1>2. PICK q : q = r
  OBVIOUS
<1>3. /\ q \in Answer
      /\ q.variant = variant[t] /\ q.enabled = e /\ q.under = k /\ q.service = s
  BY <1>1, <1>2 DEF Answer, CallVariables
<1>4. answer' = [answer EXCEPT ![t] = q] /\ Leave(t)
  BY <1>2 DEF Return
<1> HIDE DEF r
<1>5. /\ answer' \in [Callers -> Answer \cup {NoAnswer}] /\ answer'[t] = q
      /\ \A u \in Callers \ {t} : answer'[u] = answer[u]
  BY <1>1, <1>3, <1>4 DEF CallVariables
<1>6. CallVariables' /\ Alone(t) /\ CallTypes(t)' /\ CallOK(t)'
  BY <1>4, <1>5, LeaveFacts
<1>7. FallbacksResolve' => AsPromised(q)'
  <2>1. FallbacksResolve => AsPromised(q)
    BY <1>3 DEF AsPromised
  <2> QED
    BY <2>1, TypesStay
<1>8. AsPromised(answer[t])' <=> AsPromised(q)'
  BY <1>5 DEF AsPromised, Promised, TypeOf
<1>9. AnswerOK(t)'
  BY <1>3, <1>5, <1>7, <1>8 DEF AnswerOK
<1> QED
  BY <1>1, <1>6, <1>9, CallStep DEF TypeOK

\* What the dictionary gives is returned, or the state is asked next.
LEMMA TakeKeeps ==
  ASSUME IInv, NEW t \in Callers, pc[t] \in {"look", "add"},
         NEW s \in Service, TypeOf(s) = TypeFor(key[t]),
         UNCHANGED <<setup, made>>,
         \A n \in Names : cache[n] # Empty => cache'[n] = cache[n],
         cache' \in [Names -> Service \cup {Empty}], CacheRight', cache'[key[t]] = s,
         Take(t, s)
  PROVE  IInv'
<1>1. /\ TypeOK /\ CallVariables /\ CallOK(t) /\ AnswerOK(t) /\ key[t] \in Names
      /\ enabled[t] \in BOOLEAN \cup {Unasked}
  BY CallFacts DEF CallTypes, CallVariables
<1>2. s # Null => TypeOf(s) # NoType
  BY DEF Service, Instance, TypeOf
<1>3. TypeOf(Null) = NoType
  BY DEF TypeOf
<1>4. CASE enabled[t] = Unasked
  <2>1. variant[t] = key[t]
    BY <1>1, <1>4 DEF CallOK
  <2>2. CASE s # Null
    <3>1. Return(t, key[t], enabled[t], s)
      BY <1>4, <2>2 DEF Take
    <3>2. TypeOf(s) = Promised(variant[t], TRUE)
      BY <1>1, <1>2, <2>1, <2>2 DEF Promised
    <3> QED
      BY <1>1, <1>4, <3>1, <3>2, ReturnKeeps
  <2>3. CASE s = Null
    <3>1. /\ Goto(t, "fallback")
          /\ own' = [own EXCEPT ![t] = Null]
          /\ UNCHANGED <<variant, enabled, key, answer>>
      BY <1>4, <2>3 DEF Take
    <3>2. /\ CallVariables' /\ Alone(t) /\ pc'[t] = "fallback"
      BY <1>1, <3>1 DEF Goto, CallVariables, Alone, Labels, Service
    <3>3. CallTypes(t)'
      BY <3>2 DEF CallTypes
    <3>4. Nothing(variant[t])
      BY <1>3, <2>1, <2>3 DEF Nothing
    <3>5. Nothing(variant[t])'
      BY <3>1, <3>4, TypesStay DEF Nothing
    <3>6. CallOK(t)'
      BY <1>4, <3>1, <3>2, <3>5 DEF CallOK
    <3>7. AnswerOK(t)'
      BY <1>1, <3>1, AnswerStays DEF Grows
    <3> QED
      BY <1>1, <3>2, <3>3, <3>6, <3>7, CallStep DEF TypeOK
  <2> QED
    BY <2>2, <2>3
<1>5. CASE enabled[t] # Unasked
  <2>1. Return(t, key[t], enabled[t], s)
    BY <1>5 DEF Take
  <2>2. /\ enabled[t] \in BOOLEAN /\ Nothing(variant[t])
        /\ Fallback(enabled[t]) # NoType /\ key[t] = ServiceName[Fallback(enabled[t])]
    BY <1>1, <1>5 DEF CallOK
  <2>3. FallbacksResolve => TypeOf(s) = Promised(variant[t], enabled[t])
    BY <2>2 DEF Promised, Nothing, FallbacksResolve
  <2> QED
    BY <1>1, <2>1, <2>2, <2>3, ReturnKeeps
<1> QED
  BY <1>4, <1>5

\* A step that changes no more than what its call has learnt.
LEMMA LearnKeeps ==
  ASSUME IInv, NEW t \in Callers, UNCHANGED <<setup, cache>>, made' \in Nat,
         answer'[t] = answer[t] \/ answer'[t] = NoAnswer,
         CallVariables', Alone(t), CallTypes(t)', CallOK(t)'
  PROVE  IInv'
<1>1. TypeOK /\ AnswerOK(t) /\ Grows
  BY CallFacts DEF Grows
<1>2. AnswerOK(t)'
  BY <1>1, AnswerStays DEF AnswerOK
<1>3. CacheRight'
  BY TypesStay DEF IInv, CacheRight, TypeOf
<1> QED
  BY <1>1, <1>2, <1>3, CallStep DEF TypeOK

\* A call begins; with a context that assigns no variant it has only the state.
LEMMA CallKeeps ==
  ASSUME IInv, NEW t \in Callers, NEW first \in {"assign", "fallback"}, Call(t, first)
  PROVE  IInv'
<1>1. TypeOK /\ CallVariables /\ CallOK(t)
  BY CallFacts
<1>2. /\ CallVariables' /\ Alone(t) /\ pc'[t] = first /\ answer'[t] = NoAnswer
      /\ UNCHANGED <<setup, variant, enabled, key, own>>
  BY <1>1 DEF Call, Goto, CallVariables, Alone, Labels
<1>3. CallTypes(t)'
  BY <1>2 DEF CallTypes
<1>4. enabled[t] = Unasked /\ variant[t] = NoVariant
  BY <1>1 DEF Call, CallOK
<1>5. CallOK(t)'
  BY <1>2, <1>4 DEF CallOK, Nothing
<1> QED
  BY <1>1, <1>2, <1>3, <1>5, LearnKeeps DEF Call, TypeOK

\* The variant is assigned.
LEMMA AssignKeeps == ASSUME IInv, NEW t \in Callers, Assign(t) PROVE IInv'
<1>1. /\ TypeOK /\ CallVariables /\ CallOK(t) /\ enabled[t] = Unasked
      /\ UNCHANGED <<setup, enabled>>
  BY CallFacts DEF Assign, CallOK
<1>2. PICK v \in Names \cup {NoVariant} :
        /\ variant' = [variant EXCEPT ![t] = v]
        /\ key' = [key EXCEPT ![t] = v]
        /\ Goto(t, IF v = NoVariant THEN "fallback" ELSE "look")
  BY DEF Assign
<1>3. /\ CallVariables' /\ Alone(t) /\ enabled'[t] = Unasked
      /\ key'[t] = v /\ variant'[t] = v
      /\ pc'[t] = IF v = NoVariant THEN "fallback" ELSE "look"
  BY <1>1, <1>2 DEF Assign, Goto, CallVariables, Alone, Labels
<1>4. CallTypes(t)'
  BY <1>3 DEF CallTypes
<1>5. CallOK(t)'
  BY <1>3 DEF CallOK, Nothing
<1> QED
  BY <1>1, <1>3, <1>4, <1>5, LearnKeeps DEF Assign, TypeOK

\* The dictionary is asked.
LEMMA LookKeeps ==
  ASSUME IInv, NEW t \in Callers, LookHit(t) \/ LookMiss(t) PROVE IInv'
<1>1. /\ TypeOK /\ CallVariables /\ CallOK(t) /\ CallTypes(t) /\ key[t] \in Names
      /\ setup' = setup /\ cache' = cache /\ made' = made
  BY CallFacts DEF LookHit, LookMiss, CallTypes
<1>2. CASE LookHit(t)
  <2>1. cache[key[t]] \in Service /\ TypeOf(cache[key[t]]) = TypeFor(key[t])
    BY <1>1, <1>2 DEF LookHit, TypeOK, IInv, CacheRight
  <2>2. CacheRight'
    BY <1>1, TypesStay DEF IInv, CacheRight, TypeOf
  <2> QED
    BY <1>1, <1>2, <2>1, <2>2, TakeKeeps DEF LookHit, TypeOK
<1>3. CASE LookMiss(t)
  <2>1. /\ CallVariables' /\ Alone(t) /\ pc'[t] = "resolve" /\ pc[t] = "look"
        /\ UNCHANGED <<variant, enabled, key>>
    BY <1>1, <1>3 DEF LookMiss, Goto, CallVariables, Alone, Labels
  <2>2. CallTypes(t)'
    BY <1>1, <2>1 DEF CallTypes
  <2>3. (Nothing(variant[t])' <=> Nothing(variant[t])) /\ Fallback(enabled[t])' = Fallback(enabled[t])
    BY <1>1, <2>1, TypesStay DEF Nothing, Fallback
  <2>4. CallOK(t)'
    BY <1>1, <2>1, <2>3 DEF CallOK
  <2> QED
    BY <1>1, <1>3, <2>1, <2>2, <2>4, LearnKeeps DEF LookMiss, TypeOK
<1> QED
  BY <1>2, <1>3

\* The factory resolves what serves the name.
LEMMA ResolveKeeps == ASSUME IInv, NEW t \in Callers, Resolve(t) PROVE IInv'
<1>1. /\ TypeOK /\ CallVariables /\ CallOK(t) /\ CallTypes(t) /\ key[t] \in Names
      /\ setup' = setup /\ cache' = cache /\ pc[t] = "resolve"
  BY CallFacts DEF Resolve, CallTypes
<1>2. PICK x : x = TypeFor(key[t])
  OBVIOUS
<1>3. x \in Types \cup {NoType} /\ made \in Nat
  BY <1>1, <1>2, TypeForType DEF TypeOK
<1>4. made' \in Nat
  BY <1>2, <1>3 DEF Resolve
<1>5. PICK s : s = IF x = NoType THEN Null
                   ELSE [type |-> x, id |-> IF x \in Transient THEN made' ELSE 0]
  OBVIOUS
<1>6. s \in Service /\ TypeOf(s) = x
  <2>1. CASE x = NoType
    BY <1>5, <2>1 DEF Service, TypeOf
  <2>2. CASE x # NoType
    <3>1. s \in Instance /\ s.type = x
      BY <1>3, <1>4, <1>5, <2>2 DEF Instance
    <3> QED
      BY <3>1 DEF Service, TypeOf
  <2> QED
    BY <2>1, <2>2
<1>7. own' = [own EXCEPT ![t] = s]
  BY <1>2, <1>5 DEF Resolve
<1>8. /\ CallVariables' /\ Alone(t) /\ pc'[t] = "add" /\ own'[t] = s
      /\ UNCHANGED <<variant, enabled, key>>
  BY <1>1, <1>6, <1>7 DEF Resolve, Goto, CallVariables, Alone, Labels
<1>9. CallTypes(t)'
  BY <1>1, <1>8 DEF CallTypes
<1>10. (Nothing(variant[t])' <=> Nothing(variant[t])) /\ Fallback(enabled[t])' = Fallback(enabled[t])
  BY <1>1, <1>8, TypesStay DEF Nothing, Fallback
<1>11. TypeOf(own[t])' = TypeFor(key[t])'
  <2>1. TypeFor(key[t])' = TypeFor(key[t])
    BY <1>1, <1>8 DEF TypeFor, Matching
  <2> QED
    BY <1>2, <1>6, <1>8, <2>1 DEF TypeOf
<1>12. CallOK(t)'
  BY <1>1, <1>8, <1>10, <1>11 DEF CallOK
<1> QED
  BY <1>1, <1>4, <1>8, <1>9, <1>12, LearnKeeps DEF Resolve, TypeOK

\* The first service that is added stays.
LEMMA AddKeeps == ASSUME IInv, NEW t \in Callers, Add(t) PROVE IInv'
<1>1. /\ TypeOK /\ CallVariables /\ CallOK(t) /\ CallTypes(t) /\ key[t] \in Names
      /\ setup' = setup /\ made' = made /\ pc[t] = "add"
  BY CallFacts DEF Add, CallTypes
<1>2. PICK s : s = IF cache[key[t]] = Empty THEN own[t] ELSE cache[key[t]]
  OBVIOUS
<1>3. s \in Service /\ TypeOf(s) = TypeFor(key[t])
  BY <1>1, <1>2 DEF TypeOK, CallOK, IInv, CacheRight
<1>4. cache' = [cache EXCEPT ![key[t]] = s]
  BY <1>2 DEF Add
<1>5. /\ cache' \in [Names -> Service \cup {Empty}] /\ cache'[key[t]] = s
      /\ \A n \in Names : cache[n] # Empty => cache'[n] = cache[n]
      /\ \A n \in Names \ {key[t]} : cache'[n] = cache[n]
  BY <1>1, <1>2, <1>3, <1>4 DEF TypeOK
<1>6. CacheRight'
  <2>1. \A n : TypeFor(n)' = TypeFor(n)
    BY <1>1, TypesStay
  <2>2. ASSUME NEW n \in Names, cache'[n] # Empty
        PROVE  TypeOf(cache[n])' = TypeFor(n)
    <3>1. CASE n = key[t]
      BY <1>3, <1>5, <3>1 DEF TypeOf
    <3>2. CASE n # key[t]
      BY <1>5, <2>2, <3>2 DEF IInv, CacheRight, TypeOf
    <3>3. QED
      BY <3>1, <3>2
  <2>3. QED
    BY <2>1, <2>2 DEF CacheRight
<1>7. Take(t, s)
  BY <1>5 DEF Add
<1>8. QED
  BY <1>1, <1>3, <1>5, <1>6, <1>7, TakeKeeps

\* Without a service from a variant the state decides, or nothing does.
LEMMA FallbackKeeps ==
  ASSUME IInv, NEW t \in Callers, NoFallback(t) \/ Status(t) PROVE IInv'
<1>1. /\ TypeOK /\ CallVariables /\ CallOK(t) /\ CallTypes(t) /\ pc[t] = "fallback"
      /\ setup' = setup /\ cache' = cache /\ made' = made
      /\ cache \in [Names -> Service \cup {Empty}]
  BY CallFacts DEF NoFallback, Status, TypeOK
<1>2. Nothing(variant[t])
  BY <1>1 DEF CallOK
<1>3. Null \in Service /\ TypeOf(Null) = NoType
  BY DEF Service, TypeOf
<1>4. CacheRight'
  BY <1>1, TypesStay DEF IInv, CacheRight, TypeOf
<1>5. ASSUME NEW e, Fallback(e) = NoType
      PROVE  TypeOf(Null) = Promised(variant[t], e)
  BY <1>2, <1>3, <1>5 DEF Promised, Nothing
<1>6. CASE NoFallback(t)
  <2>1. Fallback(TRUE) = NoType /\ Return(t, NoVariant, Unasked, Null)
    BY <1>6 DEF NoFallback, Fallback
  <2> QED
    BY <1>1, <1>3, <1>4, <1>5, <2>1, ReturnKeeps
<1>7. CASE Status(t)
  <2>1. PICK e \in BOOLEAN : Settle(t, e)
    BY <1>7 DEF Status
  <2>2. CASE Fallback(e) = NoType
    <3>1. Return(t, NoVariant, e, Null)
      BY <2>1, <2>2 DEF Settle
    <3> QED
      BY <1>1, <1>3, <1>4, <1>5, <2>2, <3>1, ReturnKeeps
  <2>3. CASE Fallback(e) # NoType
    <3>1. /\ enabled' = [enabled EXCEPT ![t] = e]
          /\ key' = [key EXCEPT ![t] = ServiceName[Fallback(e)]]
          /\ Goto(t, "look")
          /\ UNCHANGED <<variant, own, answer>>
      BY <2>1, <2>3 DEF Settle
    <3>2. ServiceName[Fallback(e)] \in Names
      BY <1>1, <2>3, FallbackType
    <3>3. /\ CallVariables' /\ Alone(t) /\ pc'[t] = "look" /\ enabled'[t] = e
          /\ key'[t] = ServiceName[Fallback(e)]
      BY <1>1, <3>1, <3>2 DEF Goto, CallVariables, Alone, Labels
    <3>4. CallTypes(t)'
      BY <3>2, <3>3 DEF CallTypes
    <3>5. Nothing(variant[t])' /\ Fallback(enabled[t])' = Fallback(e)
      BY <1>1, <1>2, <3>1, <3>3, TypesStay DEF Nothing, Fallback
    <3>6. CallOK(t)'
      BY <2>3, <3>3, <3>5 DEF CallOK
    <3> QED
      BY <1>1, <3>1, <3>3, <3>4, <3>6, LearnKeeps DEF TypeOK
  <2> QED
    BY <2>2, <2>3
<1> QED
  BY <1>6, <1>7

-----------------------------------------------------------------------------
(* The invariant.                                                          *)

\* The invariant holds at the start.
LEMMA InitInv == Init => IInv
<1> SUFFICES ASSUME Init PROVE IInv
  OBVIOUS
<1>1. TypeOK
  BY DEF Init, TypeOK, Labels, Service
<1>2. CacheRight /\ \A t \in Callers : CallOK(t) /\ AnswerOK(t)
  BY DEF Init, CacheRight, CallOK, AnswerOK
<1> QED
  BY <1>1, <1>2 DEF IInv

\* It is inductive.
LEMMA Inductive == IInv /\ [Next]_vars => IInv'
<1> SUFFICES ASSUME IInv, [Next]_vars PROVE IInv'
  OBVIOUS
<1>1. CASE UNCHANGED vars
  <2>1. /\ TypeOK /\ Grows
        /\ UNCHANGED <<setup, cache, made, pc, variant, enabled, key, own, answer>>
    BY <1>1 DEF IInv, vars, call, Grows
  <2>2. \A u \in Callers : CallOK(u)' /\ AnswerOK(u)'
    BY <2>1, CallStays, AnswerStays DEF IInv
  <2>3. TypeOK'
    BY <2>1 DEF TypeOK
  <2>4. CacheRight'
    BY <2>1, TypesStay DEF IInv, CacheRight, TypeOf
  <2> QED
    BY <2>2, <2>3, <2>4 DEF IInv
<1>2. ASSUME NEW t \in Callers, Step(t) PROVE IInv'
  BY <1>2, CallKeeps, FailKeeps, AssignKeeps, LookKeeps, ResolveKeeps, AddKeeps, FallbackKeeps
     DEF Step
<1> QED
  BY <1>1, <1>2 DEF Next

\* The invariant holds at all times.
THEOREM Invariant == Spec => []IInv
  BY InitInv, Inductive, PTL DEF Spec

\* Every variable of VariantService keeps its type.
THEOREM TypesKept == Spec => []TypeOK
<1>1. IInv => TypeOK
  BY DEF IInv
<1>2. QED
  BY <1>1, Invariant, PTL

\* Of each name at most one service is ever given out.
THEOREM OneService == Spec => []OneServicePerName
<1>1. IInv => OneServicePerName
  <2>1. ASSUME IInv, NEW t \in Callers, NEW u \in Callers,
               answer[t] # NoAnswer, answer[u] # NoAnswer, answer[t].under = answer[u].under
        PROVE  answer[t].service = answer[u].service
    <3>1. answer[t].under \in Names \cup {NoVariant}
      BY <2>1 DEF IInv, TypeOK, Answer
    <3>2. QED
      BY <2>1, <3>1 DEF IInv, AnswerOK
  <2>2. QED
    BY <2>1 DEF OneServicePerName
<1>2. QED
  BY <1>1, Invariant, PTL

\* Where the fallbacks resolve to themselves, a caller is given what the variant and the
\* state that its own evaluations answered promise.
THEOREM AnswersAgree == Spec => []AnswerAgrees
<1>1. IInv => AnswerAgrees
  BY DEF IInv, AnswerOK, AnswerAgrees
<1>2. QED
  BY <1>1, Invariant, PTL

=============================================================================
