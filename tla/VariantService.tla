---------------------------- MODULE VariantService ----------------------------
(***************************************************************************)
(* VariantServiceProvider.GetServiceAsync: the implementation of a service *)
(* that the assigned variant of a feature names, or the one its state      *)
(* falls back to.                                                          *)
(*                                                                         *)
(* A call evaluates the feature once for the variant and, when no service  *)
(* comes of it, once more for the state.  The two need not agree: the      *)
(* configuration may be reloaded in between, a window open, a percentage   *)
(* fall out otherwise, a session manager hold another state.  Each answers *)
(* anything here.  Services are resolved once per name by the factory of a *)
(* ConcurrentDictionary's GetOrAdd, which runs outside its locks, so that  *)
(* several callers may resolve the same name at once.                      *)
(***************************************************************************)
EXTENDS Naturals, Sequences

CONSTANTS
  Callers,
  Names,        \* names of variants, keys, aliases and types
  Fold,         \* a name without its case
  Types,        \* implementations of the service
  ServiceName,  \* GetVariantServiceName: the alias of a type, or its name
  Transient,    \* those of which each resolution makes a new instance
  Setups,       \* what may be registered, with the types to fall back to
  MaxMade,      \* bound: instances made of transient types
  NoVariant, NoType, NoAnswer,
  Empty,        \* the dictionary has no entry
  Null,         \* the service that was not found
  Unasked       \* the state has not been evaluated

\* keyed: the registrations with a key, none when the container has no keyed
\* services; listed: the others, in their order; whenEnabled, whenDisabled: the
\* fallbacks.
IsSetup(s) ==
  /\ DOMAIN s.keyed \subseteq Names
  /\ \A n \in DOMAIN s.keyed : s.keyed[n] \in Types
  /\ s.listed \in Seq(Types)
  /\ s.whenEnabled \in Types \cup {NoType} /\ s.whenDisabled \in Types \cup {NoType}

ASSUME NamesAssumption ==
  NoVariant \notin Names /\ ServiceName \in [Types -> Names] /\ Names \subseteq DOMAIN Fold
ASSUME TypesAssumption == NoType \notin Types /\ Transient \subseteq Types
ASSUME SetupsAssumption == \A s \in Setups : IsSetup(s)
ASSUME MaxAssumption == MaxMade \in Nat

Instance == [type : Types, id : Nat]

ASSUME NothingAssumption ==
  /\ Empty # Null /\ Empty \notin Instance /\ Null \notin Instance
  /\ Unasked \notin BOOLEAN

VARIABLES
  setup,    \* the registrations and fallbacks, fixed at start
  cache,    \* _variantServiceCache
  pc,
  variant,  \* the name of the variant assigned
  enabled,  \* the state, once it has been evaluated
  key,      \* the key GetOrAdd is called with
  own,      \* what the call's own run of the factory resolved
  answer,   \* auxiliary: the last answer of each caller
  made      \* auxiliary: instances made so far

call == <<pc, variant, enabled, key, own, answer>>
vars == <<setup, cache, call, made>>

Goto(t, label) == pc' = [pc EXCEPT ![t] = label]

Init ==
  /\ setup \in Setups
  /\ cache = [n \in Names |-> Empty]
  /\ pc = [t \in Callers |-> "idle"]
  /\ variant = [t \in Callers |-> NoVariant]
  /\ enabled = [t \in Callers |-> Unasked]
  /\ key = [t \in Callers |-> NoVariant]
  /\ own = [t \in Callers |-> Null]
  /\ answer = [t \in Callers |-> NoAnswer]
  /\ made = 0

-----------------------------------------------------------------------------

\* Without a context, and with a targeting one, a variant may be assigned; a context
\* that is no targeting context assigns none.
Call(t, first) ==
  /\ pc[t] = "idle"
  /\ answer' = [answer EXCEPT ![t] = NoAnswer]
  /\ Goto(t, first)
  /\ UNCHANGED <<setup, cache, variant, enabled, key, own, made>>

Leave(t) ==
  /\ Goto(t, "idle")
  /\ variant' = [variant EXCEPT ![t] = NoVariant]
  /\ enabled' = [enabled EXCEPT ![t] = Unasked]
  /\ key' = [key EXCEPT ![t] = NoVariant]
  /\ own' = [own EXCEPT ![t] = Null]

\* The service s is returned for the state e, from the dictionary under the key k if it
\* is one.
Return(t, k, e, s) ==
  /\ answer' = [answer EXCEPT ![t] =
       [variant |-> variant[t], enabled |-> e, under |-> k, service |-> s]]
  /\ Leave(t)

\* An evaluation or the factory throws, or the call is cancelled.
Fail(t) ==
  /\ pc[t] \notin {"idle", "look", "add"}
  /\ Leave(t)
  /\ UNCHANGED <<setup, cache, answer, made>>

\* A faulty variant: a variant that was not assigned is looked up, too.
AssignAnyway(t) ==
  /\ pc[t] = "assign"
  /\ \E v \in Names \cup {NoVariant} :
       /\ variant' = [variant EXCEPT ![t] = v]
       /\ key' = [key EXCEPT ![t] = v]
       /\ Goto(t, "look")
  /\ UNCHANGED <<setup, cache, enabled, own, answer, made>>

\* GetVariantAsync.
Assign(t) ==
  /\ pc[t] = "assign"
  /\ \E v \in Names \cup {NoVariant} :
       /\ variant' = [variant EXCEPT ![t] = v]
       /\ key' = [key EXCEPT ![t] = v]
       /\ Goto(t, IF v = NoVariant THEN "fallback" ELSE "look")
  /\ UNCHANGED <<setup, cache, enabled, own, answer, made>>

-----------------------------------------------------------------------------
(* _variantServiceCache.GetOrAdd(key, ResolveVariantService).              *)

\* Its result: a variant without a service falls back to the state.
Take(t, s) ==
  \/ /\ s # Null \/ enabled[t] # Unasked
     /\ Return(t, key[t], enabled[t], s)
  \/ /\ s = Null /\ enabled[t] = Unasked
     /\ Goto(t, "fallback")
     /\ own' = [own EXCEPT ![t] = Null]
     /\ UNCHANGED <<variant, enabled, key, answer>>

LookHit(t) ==
  /\ pc[t] = "look"
  /\ cache[key[t]] # Empty
  /\ Take(t, cache[key[t]])
  /\ UNCHANGED <<setup, cache, made>>

LookMiss(t) ==
  /\ pc[t] = "look"
  /\ cache[key[t]] = Empty
  /\ Goto(t, "resolve")
  /\ UNCHANGED <<setup, cache, variant, enabled, key, own, answer, made>>

\* IsMatchingVariantName, for the registrations without a key.
Matching(n) ==
  {i \in 1..Len(setup.listed) : Fold[ServiceName[setup.listed[i]]] = Fold[n]}

\* The type that serves a name: the one registered with it as its key, or else
\* the first one whose alias or name it is.
TypeFor(n) ==
  IF n \in DOMAIN setup.keyed THEN setup.keyed[n]
  ELSE IF Matching(n) = {} THEN NoType
  ELSE setup.listed[CHOOSE i \in Matching(n) : \A j \in Matching(n) : i <= j]

\* A faulty variant: a factory that throws leaves a missing service behind.
ResolveOrNull(t) ==
  /\ pc[t] = "resolve"
  /\ Goto(t, "add")
  /\ UNCHANGED <<setup, cache, variant, enabled, key, own, answer, made>>

\* ResolveVariantService.
Resolve(t) ==
  LET x == TypeFor(key[t])
  IN /\ pc[t] = "resolve"
     /\ IF x \in Transient
        THEN /\ made < MaxMade
             /\ made' = made + 1
        ELSE UNCHANGED made
     /\ own' = [own EXCEPT ![t] =
                  IF x = NoType THEN Null
                  ELSE [type |-> x, id |-> IF x \in Transient THEN made' ELSE 0]]
     /\ Goto(t, "add")
     /\ UNCHANGED <<setup, cache, variant, enabled, key, answer>>

\* A faulty variant: the last one to add its service replaces the first.
AddLast(t) ==
  /\ pc[t] = "add"
  /\ cache' = [cache EXCEPT ![key[t]] = own[t]]
  /\ Take(t, own[t])
  /\ UNCHANGED <<setup, made>>

\* The first one to add its service wins, and every other takes that one.
Add(t) ==
  /\ pc[t] = "add"
  /\ cache' = [cache EXCEPT ![key[t]] = IF cache[key[t]] = Empty THEN own[t] ELSE cache[key[t]]]
  /\ Take(t, cache'[key[t]])
  /\ UNCHANGED <<setup, made>>

-----------------------------------------------------------------------------
(* No service came of the variant.                                         *)

NoFallback(t) ==
  /\ pc[t] = "fallback"
  /\ setup.whenEnabled = NoType /\ setup.whenDisabled = NoType
  /\ Return(t, NoVariant, Unasked, Null)
  /\ UNCHANGED <<setup, cache, made>>

Fallback(e) == IF e THEN setup.whenEnabled ELSE setup.whenDisabled

Settle(t, e) ==
  \/ /\ Fallback(e) = NoType
     /\ Return(t, NoVariant, e, Null)
  \/ /\ Fallback(e) # NoType
     /\ enabled' = [enabled EXCEPT ![t] = e]
     /\ key' = [key EXCEPT ![t] = ServiceName[Fallback(e)]]
     /\ Goto(t, "look")
     /\ UNCHANGED <<variant, own, answer>>

\* IsEnabledAsync, the second evaluation of the call.
Status(t) ==
  /\ pc[t] = "fallback"
  /\ setup.whenEnabled # NoType \/ setup.whenDisabled # NoType
  /\ \E e \in BOOLEAN : Settle(t, e)
  /\ UNCHANGED <<setup, cache, made>>

-----------------------------------------------------------------------------

Step(t) ==
  \/ Call(t, "assign")
  \/ Call(t, "fallback")
  \/ Fail(t)
  \/ Assign(t)
  \/ LookHit(t)
  \/ LookMiss(t)
  \/ Resolve(t)
  \/ Add(t)
  \/ NoFallback(t)
  \/ Status(t)

Next == \E t \in Callers : Step(t)

Spec == Init /\ [][Next]_vars

-----------------------------------------------------------------------------

Labels == {"idle", "assign", "look", "resolve", "add", "fallback"}

Service == Instance \cup {Null}

Answer == [variant : Names \cup {NoVariant}, enabled : BOOLEAN \cup {Unasked},
           under : Names \cup {NoVariant}, service : Service]

\* Every variable has the type its declaration says; a call in the dictionary is there
\* with a name.
TypeOK ==
  /\ setup \in Setups
  /\ cache \in [Names -> Service \cup {Empty}]
  /\ pc \in [Callers -> Labels]
  /\ variant \in [Callers -> Names \cup {NoVariant}]
  /\ enabled \in [Callers -> BOOLEAN \cup {Unasked}]
  /\ key \in [Callers -> Names \cup {NoVariant}]
  /\ own \in [Callers -> Service]
  /\ answer \in [Callers -> Answer \cup {NoAnswer}]
  /\ made \in Nat
  /\ \A t \in Callers : pc[t] \in {"look", "resolve", "add"} => key[t] \in Names

\* Of each name at most one service is ever given out, however many callers
\* resolve it at the same time and whatever the lifetime it is registered with.
OneServicePerName ==
  \A t, u \in Callers :
    answer[t] # NoAnswer /\ answer[u] # NoAnswer /\ answer[t].under = answer[u].under
      => answer[t].service = answer[u].service

\* What a call promises (WithVariantService) when it was assigned the variant v and the
\* feature's state is e: the service registered for the variant, or, when none is
\* assigned or it has no registration, the fallback type for the state.
Promised(v, e) ==
  IF v # NoVariant /\ TypeFor(v) # NoType THEN TypeFor(v) ELSE Fallback(e)

TypeOf(s) == IF s = Null THEN NoType ELSE s.type

\* The answer r is of the type promised for the variant and the state that the call's own
\* evaluations answered, for some state if it did not ask.
AsPromised(r) ==
  \E e \in BOOLEAN :
    /\ r.enabled \in {e, Unasked}
    /\ TypeOf(r.service) = Promised(r.variant, e)

\* Each fallback is what its own name resolves to: it is registered, and no other
\* registration has that name for a key, or comes before it with that name.
FallbacksResolve ==
  \A e \in BOOLEAN : Fallback(e) # NoType => TypeFor(ServiceName[Fallback(e)]) = Fallback(e)

\* Where the fallbacks resolve to themselves, a caller is given what its own evaluations
\* promise: neither a service cached by other callers, for other variants and states,
\* nor one that was once missing or failed to resolve makes a difference.
AnswerAgrees ==
  FallbacksResolve => \A t \in Callers : answer[t] # NoAnswer => AsPromised(answer[t])

\* What WithVariantService says of every registration: the fallback is the type itself.
FallbackIsTheType ==
  \A t \in Callers : answer[t] # NoAnswer => AsPromised(answer[t])

=============================================================================
