--------------------------- MODULE FeatureSnapshot ---------------------------
(***************************************************************************)
(* FeatureManagerSnapshot, the scoped feature manager that remembers what  *)
(* it answered within one request, called concurrently by the parts of     *)
(* that request.                                                           *)
(*                                                                         *)
(* The three things it remembers are kept in three ways: flags as the      *)
(* running evaluation itself (ConcurrentDictionary of ValueTask), variants *)
(* with a check, an await and an overwrite, feature names in a plain field. *)
(* The outcome of an evaluation is anything the feature manager may come   *)
(* up with at that time, a failure included.                               *)
(***************************************************************************)
EXTENDS Naturals, FiniteSets

CONSTANTS
  Callers,     \* concurrent calls of one request
  Features,
  Outcomes,    \* what an evaluation may return
  Fault,       \* an evaluation that throws or is cancelled
  Nobody,      \* no cached evaluation
  NoValue,     \* no variant, name list or answer
  NoAnswer

ASSUME NobodyAssumption == Nobody \notin Callers
ASSUME NoValueAssumption == NoValue \notin Outcomes \cup {Fault}
ASSUME FaultAssumption == Fault \notin Outcomes
ASSUME StatusAssumption == {"none", "running"} \cap (Outcomes \cup {Fault}) = {}

VARIABLES
  owner,       \* _flagCache: whose evaluation is cached for a feature
  result,      \* each caller's evaluation of each flag
  variants,    \* _variantCache
  names,       \* _featureNames
  pc,          \* where each caller is
  feature,     \* its argument
  awaiting,    \* the evaluation GetOrAdd returned to it
  local,       \* the variant or name list it has awaited
  told,        \* auxiliary: the last flag answer given to each caller
  given        \* auxiliary: the variants returned for each feature so far

vars == <<owner, result, variants, names, pc, feature, awaiting, local, told, given>>

Finished == Outcomes \cup {Fault}

Goto(t, label) == pc' = [pc EXCEPT ![t] = label]

Init ==
  /\ owner = [f \in Features |-> Nobody]
  /\ result = [t \in Callers |-> [f \in Features |-> "none"]]
  /\ variants = [f \in Features |-> NoValue]
  /\ names = NoValue
  /\ pc = [t \in Callers |-> "idle"]
  /\ feature \in [Callers -> Features]
  /\ awaiting = [t \in Callers |-> Nobody]
  /\ local = [t \in Callers |-> NoValue]
  /\ told = [t \in Callers |-> NoAnswer]
  /\ given = [f \in Features |-> {}]

-----------------------------------------------------------------------------
(* A caller asks for a flag, a variant or the names.                       *)

Call(t, f) ==
  /\ pc[t] = "idle"
  /\ feature' = [feature EXCEPT ![t] = f]
  /\ \E op \in {"flag", "variant", "names"} : Goto(t, op)
  /\ UNCHANGED <<owner, result, variants, names, awaiting, local, told, given>>

-----------------------------------------------------------------------------
(* IsEnabledAsync: _flagCache.GetOrAdd, then the await of what it returned. *)

FlagHit(t) ==
  /\ pc[t] = "flag"
  /\ owner[feature[t]] # Nobody
  /\ awaiting' = [awaiting EXCEPT ![t] = owner[feature[t]]]
  /\ Goto(t, "await")
  /\ UNCHANGED <<owner, result, variants, names, feature, local, told, given>>

\* A faulty variant: the evaluation is created but nobody starts it.
FlagMissLazy(t) ==
  /\ pc[t] = "flag"
  /\ owner[feature[t]] = Nobody
  /\ Goto(t, "add")
  /\ UNCHANGED <<owner, result, variants, names, feature, awaiting, local, told, given>>

\* The factory starts the evaluation.
FlagMiss(t) ==
  /\ pc[t] = "flag"
  /\ owner[feature[t]] = Nobody
  /\ result' = [result EXCEPT ![t][feature[t]] = "running"]
  /\ Goto(t, "add")
  /\ UNCHANGED <<owner, variants, names, feature, awaiting, local, told, given>>

\* A faulty variant: a caller that loses the race awaits its own evaluation.
FlagAddOwn(t) ==
  /\ pc[t] = "add"
  /\ owner' = IF owner[feature[t]] = Nobody
              THEN [owner EXCEPT ![feature[t]] = t] ELSE owner
  /\ awaiting' = [awaiting EXCEPT ![t] = t]
  /\ Goto(t, "await")
  /\ UNCHANGED <<result, variants, names, feature, local, told, given>>

\* A faulty variant: a caller that wins the race awaits what was there before.
FlagAddOld(t) ==
  /\ pc[t] = "add"
  /\ owner' = IF owner[feature[t]] = Nobody
              THEN [owner EXCEPT ![feature[t]] = t] ELSE owner
  /\ awaiting' = [awaiting EXCEPT ![t] = owner[feature[t]]]
  /\ Goto(t, "await")
  /\ UNCHANGED <<result, variants, names, feature, local, told, given>>

\* The first evaluation added stays, and everybody awaits that one.
FlagAdd(t) ==
  /\ pc[t] = "add"
  /\ owner' = IF owner[feature[t]] = Nobody
              THEN [owner EXCEPT ![feature[t]] = t] ELSE owner
  /\ awaiting' = [awaiting EXCEPT ![t] = owner'[feature[t]]]
  /\ Goto(t, "await")
  /\ UNCHANGED <<result, variants, names, feature, local, told, given>>

\* An evaluation ends, whether or not anybody awaits it.
Complete(t, f, v) ==
  /\ result[t][f] = "running"
  /\ result' = [result EXCEPT ![t][f] = v]
  /\ UNCHANGED <<owner, variants, names, pc, feature, awaiting, local, told, given>>

FlagReturn(t) ==
  /\ pc[t] = "await"
  /\ result[awaiting[t]][feature[t]] \in Finished
  /\ told' = [told EXCEPT ![t] =
                [key |-> feature[t], value |-> result[awaiting[t]][feature[t]]]]
  /\ awaiting' = [awaiting EXCEPT ![t] = Nobody]
  /\ Goto(t, "idle")
  /\ UNCHANGED <<owner, result, variants, names, feature, local, given>>

-----------------------------------------------------------------------------
(* GetVariantAsync: ContainsKey, the indexer or the await, the overwrite.  *)

ReturnVariant(t, v) ==
  /\ given' = [given EXCEPT ![feature[t]] = @ \cup {v}]
  /\ local' = [local EXCEPT ![t] = NoValue]
  /\ Goto(t, "idle")

\* A faulty variant: the cache is written and never consulted.
VariantCheckNever(t) ==
  /\ pc[t] = "variant"
  /\ Goto(t, "variantAwait")
  /\ UNCHANGED <<owner, result, variants, names, feature, awaiting, local, told, given>>

VariantCheck(t) ==
  /\ pc[t] = "variant"
  /\ Goto(t, IF variants[feature[t]] # NoValue THEN "variantRead" ELSE "variantAwait")
  /\ UNCHANGED <<owner, result, variants, names, feature, awaiting, local, told, given>>

VariantRead(t) ==
  /\ pc[t] = "variantRead"
  /\ ReturnVariant(t, variants[feature[t]])
  /\ UNCHANGED <<owner, result, variants, names, feature, awaiting, told>>

VariantAwaited(t, v) ==
  /\ pc[t] = "variantAwait"
  /\ local' = [local EXCEPT ![t] = v]
  /\ Goto(t, "variantStore")
  /\ UNCHANGED <<owner, result, variants, names, feature, awaiting, told, given>>

\* The evaluation throws: nothing is stored.
VariantFault(t) ==
  /\ pc[t] = "variantAwait"
  /\ Goto(t, "idle")
  /\ UNCHANGED <<owner, result, variants, names, feature, awaiting, local, told, given>>

\* _variantCache[cacheKey] = variant, and the caller returns its own variant.
VariantStore(t) ==
  /\ pc[t] = "variantStore"
  /\ variants' = [variants EXCEPT ![feature[t]] = local[t]]
  /\ ReturnVariant(t, local[t])
  /\ UNCHANGED <<owner, result, names, feature, awaiting, told>>

-----------------------------------------------------------------------------
(* GetFeatureNamesAsync: the field is filled, then read again to be listed. *)

NamesCheck(t) ==
  /\ pc[t] = "names"
  /\ Goto(t, IF names # NoValue THEN "namesRead" ELSE "namesAwait")
  /\ UNCHANGED <<owner, result, variants, names, feature, awaiting, local, told, given>>

NamesAwaited(t, v) ==
  /\ pc[t] = "namesAwait"
  /\ local' = [local EXCEPT ![t] = v]
  /\ Goto(t, "namesStore")
  /\ UNCHANGED <<owner, result, variants, names, feature, awaiting, told, given>>

NamesFault(t) ==
  /\ pc[t] = "namesAwait"
  /\ Goto(t, "idle")
  /\ UNCHANGED <<owner, result, variants, names, feature, awaiting, local, told, given>>

NamesStore(t) ==
  /\ pc[t] = "namesStore"
  /\ names' = local[t]
  /\ local' = [local EXCEPT ![t] = NoValue]
  /\ Goto(t, "namesRead")
  /\ UNCHANGED <<owner, result, variants, feature, awaiting, told, given>>

NamesRead(t) ==
  /\ pc[t] = "namesRead"
  /\ Goto(t, "idle")
  /\ UNCHANGED <<owner, result, variants, names, feature, awaiting, local, told, given>>

-----------------------------------------------------------------------------

Step(t) ==
  \/ FlagHit(t)
  \/ FlagMiss(t)
  \/ FlagAdd(t)
  \/ FlagReturn(t)
  \/ VariantCheck(t)
  \/ VariantRead(t)
  \/ \E v \in Outcomes : VariantAwaited(t, v)
  \/ VariantFault(t)
  \/ VariantStore(t)
  \/ NamesCheck(t)
  \/ \E v \in Outcomes : NamesAwaited(t, v)
  \/ NamesFault(t)
  \/ NamesStore(t)
  \/ NamesRead(t)

Evaluate(t) == \E f \in Features, v \in Finished : Complete(t, f, v)

Next == \E t \in Callers :
  \/ \E f \in Features : Call(t, f)
  \/ Step(t)
  \/ Evaluate(t)

Spec == Init /\ [][Next]_vars

\* Callers resume when what they await is done, and evaluations end.
FairSpec == Spec /\ \A t \in Callers : WF_vars(Step(t)) /\ WF_vars(Evaluate(t))

-----------------------------------------------------------------------------

Labels == {"idle", "flag", "add", "await", "variant", "variantRead",
           "variantAwait", "variantStore", "names", "namesAwait", "namesStore",
           "namesRead"}

\* Every variable has the type its declaration says, and a call that awaits a
\* flag awaits the evaluation of some caller.
TypeOK ==
  /\ owner \in [Features -> Callers \cup {Nobody}]
  /\ result \in [Callers -> [Features -> Finished \cup {"none", "running"}]]
  /\ variants \in [Features -> Outcomes \cup {NoValue}]
  /\ names \in Outcomes \cup {NoValue}
  /\ pc \in [Callers -> Labels]
  /\ feature \in [Callers -> Features]
  /\ awaiting \in [Callers -> Callers \cup {Nobody}]
  /\ local \in [Callers -> Outcomes \cup {NoValue}]
  /\ told \in [Callers -> {NoAnswer} \cup [key : Features, value : Finished]]
  /\ given \in [Features -> SUBSET Outcomes]
  /\ \A t \in Callers : pc[t] = "await" => awaiting[t] \in Callers

\* The answer the cached evaluation of a flag has come to.
FlagAnswers ==
  [f \in Features |->
     IF owner[f] = Nobody \/ result[owner[f]][f] \notin Finished
     THEN NoValue ELSE result[owner[f]][f]]

Abstract == INSTANCE RequestSnapshot
  WITH Keys <- Features, Values <- Finished, answers <- FlagAnswers

\* For flags the snapshot keeps its promise (IFeatureManagerSnapshot: "a snapshot
\* of feature state to ensure consistency across a given request"): one answer
\* is settled per feature and everybody is told that one, a failure included.
FlagsAreSnapshot == Abstract!Spec

\* A feature has one variant in a request (GetVariantAsync of the snapshot).
VariantsRepeat == \A f \in Features : Cardinality(given[f]) <= 1

\* However many calls evaluate a variant or the names at the same time and
\* overwrite each other's result, the overwriting comes to an end.
CachesSettle ==
  /\ \A f \in Features : <>[][variants'[f] = variants[f]]_vars
  /\ <>[][names' = names]_vars

\* Every call returns, those that await another caller's evaluation too.
CallersAnswered == \A t \in Callers : pc[t] # "idle" ~> pc[t] = "idle"

=============================================================================
