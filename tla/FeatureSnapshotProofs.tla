------------------------ MODULE FeatureSnapshotProofs ------------------------
(***************************************************************************)
(* What the request snapshot promises about flags, for any number of       *)
(* callers and features: FeatureSnapshot implements RequestSnapshot.  And  *)
(* what it promises about variants, to a request that calls it from one    *)
(* place at a time.                                                        *)
(***************************************************************************)
EXTENDS FeatureSnapshot, TLAPS, FiniteSetTheorems

USE NobodyAssumption, NoValueAssumption, FaultAssumption, StatusAssumption

\* Whoever awaits a flag awaits the cached evaluation of that flag.
AwaitsCached ==
  \A t \in Callers : pc[t] = "await" => awaiting[t] = owner[feature[t]]

\* A variant that was found cached is still there, and what a call is about to
\* store is the variant it was given.
ReadHits ==
  \A t \in Callers :
    /\ pc[t] = "variantRead" => variants[feature[t]] # NoValue
    /\ pc[t] = "variantStore" => local[t] # NoValue

\* The inductive invariant.
IInv == TypeOK /\ AwaitsCached /\ ReadHits

-----------------------------------------------------------------------------
(* Types.                                                                  *)

\* The invariant holds when the request begins.
LEMMA InitInv == Init => IInv
  BY DEF Init, IInv, TypeOK, AwaitsCached, ReadHits, Labels, Finished

\* IsEnabledAsync preserves it.
LEMMA FlagSteps ==
  ASSUME IInv, NEW t \in Callers,
         FlagHit(t) \/ FlagMiss(t) \/ FlagAdd(t) \/ FlagReturn(t)
  PROVE  IInv'
<1> USE DEF IInv, TypeOK, AwaitsCached, ReadHits, Labels, Goto, Finished
<1>1. CASE FlagHit(t)
  BY <1>1 DEF FlagHit
<1>2. CASE FlagMiss(t)
  BY <1>2 DEF FlagMiss
<1>3. CASE FlagAdd(t)
  BY <1>3 DEF FlagAdd
<1>4. CASE FlagReturn(t)
  BY <1>4 DEF FlagReturn
<1>5. QED
  BY <1>1, <1>2, <1>3, <1>4

\* GetVariantAsync preserves it.
LEMMA VariantSteps ==
  ASSUME IInv, NEW t \in Callers,
         VariantCheck(t) \/ VariantRead(t) \/ VariantFault(t) \/ VariantStore(t)
           \/ \E v \in Outcomes : VariantAwaited(t, v)
  PROVE  IInv'
<1> USE DEF IInv, TypeOK, AwaitsCached, ReadHits, Labels, Goto, ReturnVariant
<1>1. CASE VariantCheck(t)
  BY <1>1 DEF VariantCheck
<1>2. CASE VariantRead(t)
  <2>1. variants[feature[t]] \in Outcomes \cup {NoValue}
    OBVIOUS
  <2>2. variants[feature[t]] \in Outcomes
    BY <1>2, <2>1 DEF VariantRead
  <2>3. QED
    BY <1>2, <2>2 DEF VariantRead
<1>3. CASE VariantFault(t)
  BY <1>3 DEF VariantFault
<1>4. CASE VariantStore(t)
  BY <1>4 DEF VariantStore
<1>5. CASE \E v \in Outcomes : VariantAwaited(t, v)
  BY <1>5 DEF VariantAwaited
<1>6. QED
  BY <1>1, <1>2, <1>3, <1>4, <1>5

\* GetFeatureNamesAsync preserves it.
LEMMA NamesSteps ==
  ASSUME IInv, NEW t \in Callers,
         NamesCheck(t) \/ NamesFault(t) \/ NamesStore(t) \/ NamesRead(t)
           \/ \E v \in Outcomes : NamesAwaited(t, v)
  PROVE  IInv'
<1> USE DEF IInv, TypeOK, AwaitsCached, ReadHits, Labels, Goto
<1>1. CASE NamesCheck(t)
  BY <1>1 DEF NamesCheck
<1>2. CASE NamesFault(t)
  BY <1>2 DEF NamesFault
<1>3. CASE NamesStore(t)
  BY <1>3 DEF NamesStore
<1>4. CASE NamesRead(t)
  BY <1>4 DEF NamesRead
<1>5. CASE \E v \in Outcomes : NamesAwaited(t, v)
  BY <1>5 DEF NamesAwaited
<1>6. QED
  BY <1>1, <1>2, <1>3, <1>4, <1>5

\* New calls and the ends of evaluations preserve it.
LEMMA OtherSteps ==
  ASSUME IInv, NEW t \in Callers,
         (\E f \in Features : Call(t, f)) \/ Evaluate(t)
  PROVE  IInv'
<1> USE DEF IInv, TypeOK, AwaitsCached, ReadHits, Labels
<1>1. CASE \E f \in Features : Call(t, f)
  BY <1>1 DEF Call, Goto
<1>2. CASE Evaluate(t)
  BY <1>2 DEF Evaluate, Complete, Finished
<1>3. QED
  BY <1>1, <1>2

\* The invariant is inductive.
LEMMA Inductive == IInv /\ [Next]_vars => IInv'
<1> SUFFICES ASSUME IInv, [Next]_vars
             PROVE  IInv'
  OBVIOUS
<1>1. CASE UNCHANGED vars
  BY <1>1 DEF IInv, TypeOK, AwaitsCached, ReadHits, vars
<1>2. CASE Next
  BY <1>2, FlagSteps, VariantSteps, NamesSteps, OtherSteps DEF Next, Step
<1>3. QED
  BY <1>1, <1>2

\* The variables keep their types, and an awaited flag is somebody's evaluation.
THEOREM Types == Spec => []TypeOK
<1>1. IInv => TypeOK
  BY DEF IInv
<1>2. QED
  BY <1>1, InitInv, Inductive, PTL DEF Spec

-----------------------------------------------------------------------------
(* Refinement: an answer is settled when the evaluation that is cached has *)
(* ended, either by Complete, or by FlagAdd when the evaluation ended      *)
(* before it was cached.                                                   *)

\* A request begins with nothing settled and nobody told.
LEMMA InitRefines == Init => Abstract!Init
  BY DEF Init, Abstract!Init, FlagAnswers

\* Steps that touch neither the flags nor what was told are stutters.
LEMMA Stutters ==
  UNCHANGED <<owner, result, told>> => UNCHANGED Abstract!vars
  BY DEF Abstract!vars, FlagAnswers

\* Starting an evaluation that is not cached settles nothing.
LEMMA MissRefines ==
  ASSUME IInv, NEW t \in Callers, FlagMiss(t)
  PROVE  UNCHANGED Abstract!vars
<1>1. \A f \in Features : FlagAnswers'[f] = FlagAnswers[f]
  BY DEF FlagMiss, FlagAnswers, IInv, TypeOK
<1>2. FlagAnswers' = FlagAnswers
  BY <1>1 DEF FlagAnswers
<1>3. told' = told
  BY DEF FlagMiss
<1>4. QED
  BY <1>2, <1>3 DEF Abstract!vars

\* Caching an evaluation settles the flag if the evaluation has already ended.
LEMMA AddRefines ==
  ASSUME IInv, NEW t \in Callers, FlagAdd(t)
  PROVE  Abstract!Next \/ UNCHANGED Abstract!vars
<1> DEFINE f == feature[t]
           v == result[t][f]
<1>1. /\ f \in Features
      /\ told' = told
      /\ \A k \in Features \ {f} : FlagAnswers'[k] = FlagAnswers[k]
  BY DEF FlagAdd, FlagAnswers, IInv, TypeOK
<1>2. CASE owner[f] = Nobody /\ v \in Finished
  <2>1. FlagAnswers[f] = NoValue /\ FlagAnswers'[f] = v
    BY <1>1, <1>2 DEF FlagAdd, FlagAnswers, IInv, TypeOK
  <2>2. FlagAnswers' = [FlagAnswers EXCEPT ![f] = v]
    BY <1>1, <2>1 DEF FlagAnswers
  <2>3. Abstract!Settle(f, v)
    BY <1>1, <2>1, <2>2 DEF Abstract!Settle
  <2>4. QED
    BY <1>1, <1>2, <2>3 DEF Abstract!Next
<1>3. CASE ~(owner[f] = Nobody /\ v \in Finished)
  <2>1. FlagAnswers'[f] = FlagAnswers[f]
    BY <1>1, <1>3 DEF FlagAdd, FlagAnswers, IInv, TypeOK
  <2>2. FlagAnswers' = FlagAnswers
    BY <1>1, <2>1 DEF FlagAnswers
  <2>3. QED
    BY <1>1, <2>2 DEF Abstract!vars
<1>4. QED
  BY <1>2, <1>3

\* The end of an evaluation settles the flag it is cached for.
LEMMA CompleteRefines ==
  ASSUME IInv, NEW t \in Callers, NEW f \in Features, NEW v \in Finished,
         Complete(t, f, v)
  PROVE  Abstract!Next \/ UNCHANGED Abstract!vars
<1>1. /\ told' = told
      /\ \A k \in Features \ {f} : FlagAnswers'[k] = FlagAnswers[k]
  BY DEF Complete, FlagAnswers, IInv, TypeOK
<1>2. CASE owner[f] = t
  <2>1. FlagAnswers[f] = NoValue /\ FlagAnswers'[f] = v
    BY <1>2 DEF Complete, FlagAnswers, IInv, TypeOK, Finished
  <2>2. FlagAnswers' = [FlagAnswers EXCEPT ![f] = v]
    BY <1>1, <2>1 DEF FlagAnswers
  <2>3. QED
    BY <1>1, <2>1, <2>2 DEF Abstract!Settle, Abstract!Next
<1>3. CASE owner[f] # t
  <2>1. FlagAnswers'[f] = FlagAnswers[f]
    BY <1>3 DEF Complete, FlagAnswers, IInv, TypeOK
  <2>2. FlagAnswers' = FlagAnswers
    BY <1>1, <2>1 DEF FlagAnswers
  <2>3. QED
    BY <1>1, <2>2 DEF Abstract!vars
<1>4. QED
  BY <1>2, <1>3

\* A caller is told the settled answer, because what it awaits is cached.
LEMMA ReturnRefines ==
  ASSUME IInv, NEW t \in Callers, FlagReturn(t)
  PROVE  Abstract!Next
<1> DEFINE f == feature[t]
<1>1. f \in Features /\ awaiting[t] = owner[f] /\ owner[f] \in Callers
  BY DEF FlagReturn, IInv, TypeOK, AwaitsCached
<1>2. /\ FlagAnswers[f] = result[awaiting[t]][f]
      /\ FlagAnswers[f] \in Finished
  BY <1>1 DEF FlagReturn, FlagAnswers
<1>3. FlagAnswers[f] # NoValue
  BY <1>2 DEF Finished
<1>4. FlagAnswers' = FlagAnswers
  BY DEF FlagReturn, FlagAnswers
<1>5. told' = [told EXCEPT ![t] = [key |-> f, value |-> FlagAnswers[f]]]
  BY <1>2 DEF FlagReturn
<1>6. Abstract!Tell(t, f)
  BY <1>3, <1>4, <1>5 DEF Abstract!Tell
<1>7. QED
  BY <1>1, <1>6 DEF Abstract!Next

\* Every step of the snapshot is a step of the promise, or none.
LEMMA StepRefines == IInv /\ [Next]_vars => [Abstract!Next]_Abstract!vars
<1> SUFFICES ASSUME IInv, [Next]_vars
             PROVE  Abstract!Next \/ UNCHANGED Abstract!vars
  OBVIOUS
<1>1. CASE UNCHANGED vars
  BY <1>1, Stutters DEF vars
<1>2. ASSUME NEW t \in Callers, \E f \in Features : Call(t, f)
      PROVE  UNCHANGED Abstract!vars
  BY <1>2, Stutters DEF Call
<1>3. ASSUME NEW t \in Callers, FlagHit(t)
      PROVE  UNCHANGED Abstract!vars
  BY <1>3, Stutters DEF FlagHit
<1>4. ASSUME NEW t \in Callers,
             VariantCheck(t) \/ VariantRead(t) \/ VariantFault(t) \/ VariantStore(t)
               \/ \E v \in Outcomes : VariantAwaited(t, v)
      PROVE  UNCHANGED Abstract!vars
  BY <1>4, Stutters DEF VariantCheck, VariantRead, VariantFault, VariantStore,
                        VariantAwaited
<1>5. ASSUME NEW t \in Callers,
             NamesCheck(t) \/ NamesFault(t) \/ NamesStore(t) \/ NamesRead(t)
               \/ \E v \in Outcomes : NamesAwaited(t, v)
      PROVE  UNCHANGED Abstract!vars
  BY <1>5, Stutters DEF NamesCheck, NamesFault, NamesStore, NamesRead, NamesAwaited
<1>6. ASSUME NEW t \in Callers, Evaluate(t)
      PROVE  Abstract!Next \/ UNCHANGED Abstract!vars
  BY <1>6, CompleteRefines DEF Evaluate
<1>7. CASE Next
  BY <1>2, <1>3, <1>4, <1>5, <1>6, <1>7, MissRefines, AddRefines, ReturnRefines
     DEF Next, Step
<1>8. QED
  BY <1>1, <1>7

\* The flags of a request are a snapshot: FeatureSnapshot implements
\* RequestSnapshot, whatever the number of callers and the outcome of the race.
THEOREM FlagsRefine == Spec => FlagsAreSnapshot
<1>1. Spec => []IInv
  BY InitInv, Inductive, PTL DEF Spec
<1>2. QED
  BY <1>1, InitRefines, StepRefines, PTL DEF Spec, FlagsAreSnapshot, Abstract!Spec

-----------------------------------------------------------------------------
(* Variants in a request that calls the snapshot from one place.           *)

\* What a single caller knows of the variants: what was returned is what is
\* cached, and nothing was when it found nothing.
AloneInv ==
  /\ \A f \in Features : given[f] \subseteq {variants[f]}
  /\ \A f \in Features : variants[f] = NoValue => given[f] = {}
  /\ \A t \in Callers : pc[t] \in {"variantAwait", "variantStore"} =>
                          variants[feature[t]] = NoValue

\* With one caller a feature has one variant in a request.  Two callers that
\* overlap in GetVariantAsync break it, as the run snapshot_concurrent shows.
THEOREM VariantsRepeatAlone ==
  ASSUME NEW c, Callers = {c}
  PROVE  Spec => []VariantsRepeat
<1>1. Init => AloneInv
  BY DEF Init, AloneInv
<1>2. ASSUME IInv, AloneInv, [Next]_vars
      PROVE  AloneInv'
  <2> USE DEF AloneInv, IInv, TypeOK, Labels, Goto
  <2>1. CASE UNCHANGED <<variants, feature, pc, given>>
    BY <1>2, <2>1
  <2>2. CASE /\ UNCHANGED <<variants, given>>
             /\ \A t \in Callers : pc'[t] \notin {"variantAwait", "variantStore"}
    BY <1>2, <2>2
  <2>3. CASE VariantCheck(c)
    BY <1>2, <2>3 DEF VariantCheck
  <2>4. CASE VariantRead(c)
    BY <1>2, <2>4 DEF VariantRead, ReturnVariant, ReadHits
  <2>5. CASE \E v \in Outcomes : VariantAwaited(c, v)
    BY <1>2, <2>5 DEF VariantAwaited
  <2>6. CASE VariantStore(c)
    BY <1>2, <2>6 DEF VariantStore, ReturnVariant, ReadHits
  <2>7. CASE \/ \E f \in Features : Call(c, f)
             \/ FlagHit(c) \/ FlagMiss(c) \/ FlagAdd(c) \/ FlagReturn(c)
             \/ VariantFault(c)
             \/ NamesCheck(c) \/ NamesFault(c) \/ NamesStore(c) \/ NamesRead(c)
             \/ \E v \in Outcomes : NamesAwaited(c, v)
    <3>1. UNCHANGED <<variants, given>>
      BY <2>7 DEF Call, FlagHit, FlagMiss, FlagAdd, FlagReturn, VariantFault,
                  NamesCheck, NamesFault, NamesStore, NamesRead, NamesAwaited
    <3>2. pc'[c] \notin {"variantAwait", "variantStore"}
      BY <1>2, <2>7 DEF Call, FlagHit, FlagMiss, FlagAdd, FlagReturn, VariantFault,
                  NamesCheck, NamesFault, NamesStore, NamesRead, NamesAwaited
    <3>3. QED
      BY <2>2, <3>1, <3>2
  <2>8. CASE Evaluate(c) \/ UNCHANGED vars
    BY <2>1, <2>8 DEF Evaluate, Complete, vars
  <2>9. QED
    BY <1>2, <2>3, <2>4, <2>5, <2>6, <2>7, <2>8 DEF Next, Step
<1>3. IInv /\ AloneInv => VariantsRepeat
  <2> SUFFICES ASSUME AloneInv, IInv, NEW f \in Features
               PROVE  Cardinality(given[f]) <= 1
    BY DEF VariantsRepeat
  <2>1. CASE given[f] = {}
    <3>1. Cardinality({}) = 0
      BY FS_EmptySet
    <3>2. QED
      BY <2>1, <3>1
  <2>2. CASE given[f] = {variants[f]}
    <3>1. Cardinality({variants[f]}) = 1
      BY FS_Singleton
    <3>2. QED
      BY <2>2, <3>1
  <2>3. QED
    BY <2>1, <2>2 DEF AloneInv
<1>4. QED
  BY <1>1, <1>2, <1>3, InitInv, Inductive, PTL DEF Spec

=============================================================================
