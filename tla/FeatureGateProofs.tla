--------------------------- MODULE FeatureGateProofs ---------------------------
(***************************************************************************)
(* What the gates of a request decide, and for whom, for any gates,        *)
(* features, definitions, session states and users.                        *)
(***************************************************************************)
EXTENDS FeatureGate, TLAPS

USE UsersAssumption, GatesAssumption, NothingAssumption

\* The settled answers are enough to enable the gate.
Yes(g) ==
  /\ FeaturesOf(g) # <<>>
  /\ IsVariantTag(g) =>
       /\ variants[FeaturesOf(g)[1]] # NoValue
       /\ \E i \in 1..Len(VariantsOf(g)) : VariantsOf(g)[i] = variants[FeaturesOf(g)[1]]
  /\ ~IsVariantTag(g) /\ Declared[g].all =>
       \A i \in 1..Len(FeaturesOf(g)) : flags[FeaturesOf(g)[i]] = "on"
  /\ ~IsVariantTag(g) /\ ~Declared[g].all =>
       \E i \in 1..Len(FeaturesOf(g)) : flags[FeaturesOf(g)[i]] = "on"

\* The settled answers are enough to disable the gate.
No(g) ==
  \/ FeaturesOf(g) = <<>>
  \/ /\ IsVariantTag(g)
     /\ variants[FeaturesOf(g)[1]] # NoValue
     /\ \A i \in 1..Len(VariantsOf(g)) : VariantsOf(g)[i] # variants[FeaturesOf(g)[1]]
  \/ /\ ~IsVariantTag(g) /\ Declared[g].all
     /\ \E i \in 1..Len(FeaturesOf(g)) : flags[FeaturesOf(g)[i]] = "off"
  \/ /\ ~IsVariantTag(g) /\ ~Declared[g].all
     /\ \A i \in 1..Len(FeaturesOf(g)) : flags[FeaturesOf(g)[i]] = "off"

\* What a gate has decided stands on settled answers.
Stands(g) ==
  /\ decision[g] = "allow" => IF Declared[g].negate THEN No(g) ELSE Yes(g)
  /\ decision[g] = "deny" => IF Declared[g].negate THEN Yes(g) ELSE No(g)

\* The gate in progress has had answers that do not decide it, and what it is
\* evaluating is not settled.
LoopOK ==
  gate # NoGate =>
    /\ FeaturesOf(gate) # <<>>
    /\ \A i \in 1..(pos - 1) :
         IF IsVariantTag(gate)
         THEN /\ variants[FeaturesOf(gate)[1]] # NoValue
              /\ VariantsOf(gate)[i] # variants[FeaturesOf(gate)[1]]
         ELSE flags[FeaturesOf(gate)[i]] = IF Declared[gate].all THEN "on" ELSE "off"
    /\ rule # NoRule =>
         /\ IsVariantTag(gate) => variants[Asked] = NoValue
         /\ ~IsVariantTag(gate) => flags[Asked] = "none"

\* The user u explains everything that was evaluated.
Explains(u) ==
  /\ baggage \in {NoContext, u}
  /\ \A f \in Features :
       /\ flags[f] \in {"on", "off"} => flags[f] = flagFor[f][u]
       /\ variants[f] # NoValue => variants[f] = variantFor[f][u]

\* Before a context is made every user explains it, then the one of the context.
ContextOK == IF item = NoContext THEN \A u \in Users : Explains(u) ELSE Explains(item)

\* The inductive invariant.
IInv ==
  /\ TypeOK
  /\ LoopOK
  /\ \A g \in Gates : Stands(g)
  /\ ContextOK

\* Settled answers stay.
Keeps ==
  /\ \A f \in Features : flags[f] \in {"on", "off"} => flags'[f] = flags[f]
  /\ \A f \in Features : variants[f] # NoValue => variants'[f] = variants[f]

-----------------------------------------------------------------------------
(* Declarations.                                                           *)

\* A gate is declared with lists of features and variants.
LEMMA Declares ==
  ASSUME NEW g \in Gates
  PROVE  /\ FeaturesOf(g) \in Seq(Features) /\ VariantsOf(g) \in Seq(Names)
         /\ Declared[g].all \in BOOLEAN /\ Declared[g].negate \in BOOLEAN
         /\ Len(FeaturesOf(g)) \in Nat /\ Len(VariantsOf(g)) \in Nat
         /\ \A i \in 1..Len(FeaturesOf(g)) : FeaturesOf(g)[i] \in Features
         /\ \A i \in 1..Len(VariantsOf(g)) : VariantsOf(g)[i] \in Names
         /\ FeaturesOf(g) # <<>> => Len(FeaturesOf(g)) > 0
         /\ VariantsOf(g) # <<>> => Len(VariantsOf(g)) > 0
         /\ Questions(g) = IF IsVariantTag(g) THEN Len(VariantsOf(g)) ELSE Len(FeaturesOf(g))
<1>1. Declared[g] \in Declaration
  OBVIOUS
<1>2. FeaturesOf(g) \in Seq(Features) /\ VariantsOf(g) \in Seq(Names)
      /\ Declared[g].all \in BOOLEAN /\ Declared[g].negate \in BOOLEAN
  BY <1>1 DEF Declaration, FeaturesOf, VariantsOf
<1>3. Questions(g) = IF IsVariantTag(g) THEN Len(VariantsOf(g)) ELSE Len(FeaturesOf(g))
  BY DEF Questions
<1> QED
  BY <1>2, <1>3

\* The item a gate in progress is at.
LEMMA AskedItem ==
  ASSUME TypeOK, LoopOK, gate # NoGate
  PROVE  /\ gate \in Gates /\ Asked \in Features
         /\ IsVariantTag(gate) => Asked = FeaturesOf(gate)[1] /\ pos \in 1..Len(VariantsOf(gate))
         /\ ~IsVariantTag(gate) => Asked = FeaturesOf(gate)[pos] /\ pos \in 1..Len(FeaturesOf(gate))
<1>1. gate \in Gates /\ pos \in 1..Questions(gate)
  BY DEF TypeOK
<1>2. FeaturesOf(gate) # <<>>
  BY DEF LoopOK
<1> QED
  BY <1>1, <1>2, Declares DEF Asked

\* What stands on settled answers goes on standing.
LEMMA KeepsStands ==
  ASSUME NEW g \in Gates, Stands(g), Keeps, decision'[g] = decision[g]
  PROVE  Stands(g)'
<1>1. \A i \in 1..Len(FeaturesOf(g)) : FeaturesOf(g)[i] \in Features
  BY Declares
<1>2. FeaturesOf(g) # <<>> => 1 \in 1..Len(FeaturesOf(g))
  BY Declares
<1>3. IsVariantTag(g) => FeaturesOf(g) # <<>>
  BY DEF IsVariantTag
<1>4. Yes(g) => Yes(g)'
  BY <1>1, <1>2, <1>3 DEF Yes, Keeps
<1>5. No(g) => No(g)'
  BY <1>1, <1>2, <1>3 DEF No, Keeps
<1> QED
  BY <1>4, <1>5 DEF Stands

\* A decision on settled answers stands, with those made before.
LEMMA DecideStands ==
  ASSUME TypeOK, \A h \in Gates : Stands(h), Keeps,
         NEW g \in Gates, NEW e \in BOOLEAN, Decide(g, e),
         e => Yes(g)', ~e => No(g)'
  PROVE  /\ LoopOK' /\ (\A h \in Gates : Stands(h)')
         /\ gate' = NoGate /\ pos' = 1 /\ rule' = NoRule
         /\ decision' \in [Gates -> Decisions]
<1>1. Declared[g].negate \in BOOLEAN
  BY Declares
<1>2. decision'[g] = IF e # Declared[g].negate THEN "allow" ELSE "deny"
  BY DEF Decide, Finish, TypeOK
<1>3. Stands(g)'
  BY <1>1, <1>2 DEF Stands
<1>4. decision' \in [Gates -> Decisions]
  BY DEF Decide, Finish, TypeOK, Decisions
<1>5. gate' = NoGate /\ pos' = 1 /\ rule' = NoRule
  BY DEF Decide, Finish
<1>6. \A h \in Gates \ {g} : decision'[h] = decision[h]
  BY DEF Decide, Finish, TypeOK
<1>7. \A h \in Gates : Stands(h)'
  BY <1>3, <1>6, KeepsStands
<1>8. LoopOK'
  BY <1>5 DEF LoopOK
<1> QED
  BY <1>4, <1>5, <1>7, <1>8

-----------------------------------------------------------------------------
(* The loop.                                                               *)

\* One answer, that has been settled, ends the loop or takes it one item further.
LEMMA TakeStep ==
  ASSUME TypeOK, LoopOK, \A g \in Gates : Stands(g), Keeps, gate # NoGate,
         NEW yes \in BOOLEAN, Take(yes),
         IsVariantTag(gate) =>
           /\ variants'[Asked] # NoValue
           /\ yes <=> VariantsOf(gate)[pos] = variants'[Asked],
         ~IsVariantTag(gate) =>
           /\ flags'[Asked] \in {"on", "off"}
           /\ yes <=> flags'[Asked] = "on"
  PROVE  /\ LoopOK' /\ (\A g \in Gates : Stands(g)')
         /\ gate' \in Gates \cup {NoGate} /\ pos' \in Nat /\ rule' = NoRule
         /\ decision' \in [Gates -> Decisions]
         /\ gate' = NoGate => pos' = 1
         /\ gate' # NoGate => pos' \in 1..Questions(gate') /\ ~Misused(gate')
<1> PICK g : g = gate
  OBVIOUS
<1>g. g \in Gates /\ gate = g /\ Asked \in Features
  BY AskedItem
<1>n. FeaturesOf(g) # <<>>
  BY DEF LoopOK
<1>d. \A i \in 1..Len(FeaturesOf(g)) : FeaturesOf(g)[i] \in Features
  BY <1>g, Declares
<1>1. CASE IsVariantTag(g)
  <2>1. /\ Asked = FeaturesOf(g)[1] /\ pos \in 1..Len(VariantsOf(g))
        /\ Questions(g) = Len(VariantsOf(g)) /\ Len(VariantsOf(g)) \in Nat
    BY <1>1, <1>g, AskedItem, Declares
  <2>v. variants'[FeaturesOf(g)[1]] # NoValue
    BY <1>1, <2>1
  <2>a. \A i \in 1..(pos - 1) : VariantsOf(g)[i] # variants'[FeaturesOf(g)[1]]
    BY <1>1, <1>g, <2>1 DEF LoopOK, Keeps
  <2>y. yes => VariantsOf(g)[pos] = variants'[FeaturesOf(g)[1]]
    BY <1>1, <2>1
  <2>z. ~yes => VariantsOf(g)[pos] # variants'[FeaturesOf(g)[1]]
    BY <1>1, <2>1
  <2>2. Deciding(g)
    BY <1>1 DEF Deciding
  <2>3. CASE yes \/ pos = Questions(g)
    <3>1. Decide(g, yes)
      BY <2>1, <2>2, <2>3, <1>g DEF Take
    <3>2. yes => Yes(g)'
      BY <1>1, <1>n, <2>1, <2>v, <2>y DEF Yes
    <3>3. ~yes => \A i \in 1..Len(VariantsOf(g)) :
                    VariantsOf(g)[i] # variants'[FeaturesOf(g)[1]]
      BY <2>1, <2>a, <2>z, <2>3
    <3>4. ~yes => No(g)'
      BY <1>1, <3>3, <2>v DEF No
    <3> QED
      BY <3>1, <3>2, <3>4, <1>g, DecideStands
  <2>5. CASE ~yes /\ pos < Questions(g)
    <3>1. pos' = pos + 1 /\ rule' = NoRule /\ UNCHANGED <<gate, decision>>
      BY <2>1, <2>2, <2>5, <1>g DEF Take
    <3>2. \A i \in 1..(pos' - 1) : VariantsOf(g)[i] # variants'[FeaturesOf(g)[1]]
      BY <3>1, <2>1, <2>a, <2>z, <2>5
    <3>3. LoopOK'
      BY <3>1, <3>2, <1>1, <1>g, <1>n, <2>v DEF LoopOK
    <3>4. \A h \in Gates : Stands(h)'
      BY <3>1, KeepsStands
    <3>5. pos' \in 1..Questions(g) /\ pos' \in Nat
      BY <3>1, <2>1, <2>5
    <3> QED
      BY <3>1, <3>3, <3>4, <3>5, <1>g DEF TypeOK
  <2> QED
    BY <2>1, <2>3, <2>5
<1>2. CASE ~IsVariantTag(g)
  <2>1. /\ Asked = FeaturesOf(g)[pos] /\ pos \in 1..Len(FeaturesOf(g))
        /\ Questions(g) = Len(FeaturesOf(g)) /\ Len(FeaturesOf(g)) \in Nat
    BY <1>2, <1>g, AskedItem, Declares
  <2>b. Declared[g].all \in BOOLEAN
    BY <1>g, Declares
  <2> DEFINE goOn == IF Declared[g].all THEN "on" ELSE "off"
  <2>a. \A i \in 1..(pos - 1) : flags'[FeaturesOf(g)[i]] = goOn
    <3>1. \A i \in 1..(pos - 1) : flags[FeaturesOf(g)[i]] = goOn
      BY <1>2, <1>g DEF LoopOK
    <3>2. \A i \in 1..(pos - 1) : FeaturesOf(g)[i] \in Features
      BY <2>1, <1>d
    <3> QED
      BY <3>1, <3>2 DEF Keeps
  <2>y. flags'[FeaturesOf(g)[pos]] = IF yes THEN "on" ELSE "off"
    BY <1>2, <2>1
  <2>2. Deciding(g) <=> ~Declared[g].all
    BY <1>2 DEF Deciding
  <2>3. CASE (yes <=> ~Declared[g].all) \/ pos = Questions(g)
    <3>1. Decide(g, yes)
      BY <2>1, <2>2, <2>3, <1>g DEF Take
    <3>a. pos = Questions(g) /\ ~(yes <=> ~Declared[g].all) =>
            \A i \in 1..Len(FeaturesOf(g)) : flags'[FeaturesOf(g)[i]] = goOn
      BY <2>1, <2>a, <2>y, <2>b
    <3>2. yes => Yes(g)'
      BY <1>2, <1>n, <2>1, <2>3, <2>y, <2>b, <3>a DEF Yes
    <3>3. ~yes => No(g)'
      BY <1>2, <2>1, <2>3, <2>y, <2>b, <3>a DEF No
    <3> QED
      BY <3>1, <3>2, <3>3, <1>g, DecideStands
  <2>5. CASE ~(yes <=> ~Declared[g].all) /\ pos < Questions(g)
    <3>1. pos' = pos + 1 /\ rule' = NoRule /\ UNCHANGED <<gate, decision>>
      BY <2>1, <2>2, <2>5, <1>g DEF Take
    <3>a. flags'[FeaturesOf(g)[pos]] = goOn
      BY <2>2, <2>5, <2>y, <2>b
    <3>2. \A i \in 1..(pos' - 1) : flags'[FeaturesOf(g)[i]] = goOn
      BY <3>1, <2>1, <2>a, <3>a
    <3>3. LoopOK'
      BY <3>1, <3>2, <1>2, <1>g, <1>n DEF LoopOK
    <3>4. \A h \in Gates : Stands(h)'
      BY <3>1, KeepsStands
    <3>5. pos' \in 1..Questions(g) /\ pos' \in Nat
      BY <3>1, <2>1, <2>5
    <3> QED
      BY <3>1, <3>3, <3>4, <3>5, <1>g DEF TypeOK
  <2> QED
    BY <2>1, <2>3, <2>5
<1> QED
  BY <1>1, <1>2

\* A gate that throws leaves the other decisions as they are.
LEMMA ThrownStep ==
  ASSUME TypeOK, \A g \in Gates : Stands(g), Keeps,
         NEW g \in Gates, Finish(g, "thrown")
  PROVE  /\ LoopOK' /\ (\A h \in Gates : Stands(h)')
         /\ gate' = NoGate /\ pos' = 1 /\ rule' = NoRule
         /\ decision' \in [Gates -> Decisions]
<1>1. gate' = NoGate /\ pos' = 1 /\ rule' = NoRule
  BY DEF Finish
<1>2. decision' \in [Gates -> Decisions] /\ decision'[g] = "thrown"
      /\ \A h \in Gates \ {g} : decision'[h] = decision[h]
  BY DEF Finish, TypeOK, Decisions
<1>3. \A h \in Gates : Stands(h)'
  <2>1. Stands(g)'
    BY <1>2 DEF Stands
  <2> QED
    BY <2>1, <1>2, KeepsStands
<1>4. LoopOK'
  BY <1>1 DEF LoopOK
<1> QED
  BY <1>1, <1>2, <1>3, <1>4

-----------------------------------------------------------------------------
(* The context.                                                            *)

\* A user goes on explaining what has not changed.
LEMMA ExplainsKept ==
  ASSUME NEW u, Explains(u), UNCHANGED <<flags, variants, baggage, auxiliary>>
  PROVE  Explains(u)'
BY DEF Explains, auxiliary

\* An evaluation answers for the one user, whether or not it asks for the context.
LEMMA EvaluateContext ==
  ASSUME TypeOK, ContextOK, rule # NoRule, NEW f \in Features, NEW state \in Session,
         Evaluate(state), UNCHANGED baggage,
         \A h \in Features, u \in Users :
           \/ flags'[h] \notin {"on", "off"}
           \/ flags'[h] = flags[h] /\ flagFor'[h][u] = flagFor[h][u]
           \/ /\ h = f /\ flags'[h] = rule.outcome[state][Context].flag
              /\ flagFor'[h][u] = rule.outcome[state][u].flag,
         \A h \in Features, u \in Users :
           \/ variants'[h] = NoValue
           \/ variants'[h] = variants[h] /\ variantFor'[h][u] = variantFor[h][u]
           \/ /\ h = f /\ variants'[h] = rule.outcome[state][Context].variant
              /\ variantFor'[h][u] = rule.outcome[state][u].variant
  PROVE  ContextOK' /\ item' \in Users \cup {NoContext}
<1>0. rule \in Rules /\ item \in Users \cup {NoContext} /\ user \in Users
  BY DEF TypeOK
<1>1. Context \in Users
  BY <1>0 DEF Context
<1> PICK out : out = rule.outcome[state]
  OBVIOUS
<1>2. ASSUME NEW u \in Users, Explains(u), out[u] = out[Context]
      PROVE  Explains(u)'
  BY <1>2 DEF Explains
<1>3. CASE item # NoContext
  <2>1. Context = item /\ item' = item
    BY <1>3 DEF Context, Evaluate
  <2> QED
    BY <1>0, <1>2, <1>3, <2>1 DEF ContextOK
<1>4. CASE item = NoContext /\ rule.reads[state]
  <2>1. Context = user /\ item' = user
    BY <1>4 DEF Context, Evaluate
  <2>2. Explains(user) /\ user # NoContext
    BY <1>0, <1>4 DEF ContextOK
  <2>4. item' # NoContext
    BY <2>1, <2>2
  <2> PICK u \in Users : u = user
    BY <1>0
  <2>5. Explains(u)' /\ item' = u
    <3>1. out[u] = out[Context]
      BY <2>1
    <3> QED
      BY <1>2, <2>1, <2>2, <3>1
  <2> QED
    BY <1>0, <2>1, <2>4, <2>5 DEF ContextOK, Explains
<1>5. CASE item = NoContext /\ ~rule.reads[state]
  <2>1. item' = NoContext
    BY <1>5 DEF Evaluate
  <2>2. \A u \in Users : out[u] = out[Context]
    BY <1>0, <1>1, <1>5, RulesAssumption
  <2>3. \A u \in Users : Explains(u)'
    BY <1>2, <1>5, <2>2 DEF ContextOK
  <2> QED
    BY <2>1, <2>3 DEF ContextOK
<1> QED
  BY <1>3, <1>4, <1>5

-----------------------------------------------------------------------------
(* The inductive invariant.                                                *)

\* Nothing has been decided or evaluated at first.
LEMMA Initial == Init => IInv
<1> SUFFICES ASSUME Init PROVE IInv
  OBVIOUS
<1>1. TypeOK
  BY DEF Init, TypeOK, Decisions
<1>2. LoopOK
  BY DEF Init, LoopOK
<1>3. \A g \in Gates : Stands(g)
  BY DEF Init, Stands
<1>4. ContextOK
  BY DEF Init, ContextOK, Explains
<1> QED
  BY <1>1, <1>2, <1>3, <1>4 DEF Init, IInv

\* Between the gates.
LEMMA AroundStep ==
  ASSUME IInv, (\E u \in Users : Authenticate(u)) \/ AddBaggage
  PROVE  IInv'
<1> USE DEF IInv
<1>1. UNCHANGED <<snapshot, loop, auxiliary>>
  BY DEF Authenticate, AddBaggage
<1>2. /\ user' \in Users
      /\ item' \in Users \cup {NoContext} /\ baggage' \in Users \cup {NoContext}
  BY DEF Authenticate, AddBaggage, TypeOK, Context
<1>3. TypeOK'
  BY <1>1, <1>2 DEF TypeOK, snapshot, loop, auxiliary
<1>4. LoopOK'
  BY <1>1 DEF LoopOK, snapshot, loop, Asked
<1>5. \A g \in Gates : Stands(g)'
  BY <1>1, KeepsStands DEF snapshot, loop, Keeps
<1>6. ContextOK'
  <2>1. ASSUME UNCHANGED <<item, baggage>> PROVE ContextOK'
    <3>1. \A u : Explains(u) => Explains(u)'
      BY <1>1, <2>1, ExplainsKept DEF snapshot
    <3> PICK i : i = item
      OBVIOUS
    <3>2. Explains(i) => Explains(i)'
      BY <3>1
    <3>3. item = i /\ item' = i
      BY <2>1
    <3>4. CASE i = NoContext
      BY <3>1, <3>3, <3>4 DEF ContextOK
    <3>5. CASE i # NoContext
      <4>1. Explains(i)'
        BY <3>2, <3>3, <3>5 DEF ContextOK
      <4> QED
        BY <3>3, <3>5, <4>1 DEF ContextOK, Explains
    <3> QED
      BY <3>4, <3>5
  <2>2. CASE AddBaggage
    <3> PICK i : i = Context
      OBVIOUS
    <3>1. i \in Users /\ item' = i /\ baggage' \in {NoContext, i}
      BY <2>2 DEF AddBaggage, Context, TypeOK
    <3>2. Explains(i)
      BY <3>1 DEF ContextOK, Context, TypeOK
    <3>3. Explains(i)'
      BY <1>1, <3>1, <3>2 DEF Explains, snapshot, auxiliary
    <3> QED
      BY <3>1, <3>3 DEF ContextOK, Explains
  <2> QED
    BY <2>1, <2>2 DEF Authenticate
<1> QED
  BY <1>1, <1>3, <1>4, <1>5, <1>6

\* A gate that is entered, or left at once.
LEMMA EnterStep ==
  ASSUME IInv, NEW g \in Gates, Enter(g) \/ NoName(g) \/ Misuse(g)
  PROVE  IInv'
<1> USE DEF IInv
<1>1. UNCHANGED <<user, item, snapshot, baggage, auxiliary>>
  BY DEF Enter, NoName, Misuse
<1>2. Keeps
  BY <1>1 DEF Keeps, snapshot
<1>3. ContextOK'
  BY <1>1 DEF ContextOK, Explains, snapshot, auxiliary
<1>4. CASE Enter(g)
  <2>1. gate' = g /\ pos' = 1 /\ rule' = NoRule /\ decision' = decision
    BY <1>4 DEF Enter, TypeOK
  <2>2. 1 \in 1..Questions(g) /\ ~Misused(g) /\ FeaturesOf(g) # <<>>
    BY <1>4, Declares DEF Enter, IsVariantTag
  <2>3. LoopOK'
    BY <2>1, <2>2 DEF LoopOK
  <2>4. \A h \in Gates : Stands(h)'
    BY <1>2, <2>1, KeepsStands
  <2>5. TypeOK'
    BY <1>1, <2>1, <2>2 DEF TypeOK, snapshot, auxiliary
  <2> QED
    BY <1>1, <1>3, <2>3, <2>4, <2>5
<1>5. ASSUME /\ LoopOK' /\ (\A h \in Gates : Stands(h)')
             /\ gate' = NoGate /\ pos' = 1 /\ rule' = NoRule
             /\ decision' \in [Gates -> Decisions]
      PROVE  IInv'
  <2>1. TypeOK'
    BY <1>1, <1>5 DEF TypeOK, snapshot, auxiliary
  <2> QED
    BY <1>1, <1>3, <1>5, <2>1
<1>6. CASE NoName(g)
  <2>1. No(g)'
    BY <1>6 DEF NoName, No
  <2> QED
    BY <1>2, <1>5, <1>6, <2>1, DecideStands DEF NoName
<1>7. CASE Misuse(g)
  BY <1>2, <1>5, <1>7, ThrownStep DEF Misuse
<1> QED
  BY <1>4, <1>6, <1>7

\* The rest of a step that leaves the loop in order.
LEMMA LoopStep ==
  ASSUME IInv, UNCHANGED <<user, baggage>>,
         flagFor' \in [Features -> [Users -> {"none", "on", "off"}]],
         variantFor' \in [Features -> [Users -> Names \cup {NoVariant, NoValue}]],
         flags' \in [Features -> {"none", "on", "off", "fault"}],
         variants' \in [Features -> Names \cup {NoVariant, NoValue}],
         item' \in Users \cup {NoContext}, ContextOK',
         LoopOK', \A h \in Gates : Stands(h)',
         gate' \in Gates \cup {NoGate}, pos' \in Nat, rule' = NoRule,
         decision' \in [Gates -> Decisions],
         gate' = NoGate => pos' = 1,
         gate' # NoGate => pos' \in 1..Questions(gate') /\ ~Misused(gate')
  PROVE  IInv'
<1>1. TypeOK'
  BY DEF IInv, TypeOK
<1> QED
  BY <1>1 DEF IInv

\* The definition that a gate goes on to evaluate.
LEMMA FetchStep ==
  ASSUME IInv, FlagMiss \/ VariantMiss PROVE IInv'
<1> USE DEF IInv
<1>1. /\ UNCHANGED <<user, item, flags, variants, gate, pos, decision, baggage, auxiliary>>
      /\ rule' \in Rules /\ gate # NoGate
      /\ IsVariantTag(gate) => variants[Asked] = NoValue
      /\ ~IsVariantTag(gate) => flags[Asked] = "none"
  BY DEF FlagMiss, VariantMiss, Fetch, AskingFlag, AskingVariant, snapshot
<1>2. Asked' = Asked /\ Asked \in Features
  BY <1>1, AskedItem DEF Asked
<1>4. TypeOK'
  BY <1>1 DEF TypeOK, auxiliary
<1>5. LoopOK'
  BY <1>1, <1>2 DEF LoopOK
<1>6. \A g \in Gates : Stands(g)'
  BY <1>1, KeepsStands DEF Keeps
<1>7. ContextOK'
  BY <1>1 DEF ContextOK, Explains, auxiliary
<1> QED
  BY <1>1, <1>4, <1>5, <1>6, <1>7

\* An answer of the snapshot.
LEMMA HitStep ==
  ASSUME IInv, FlagHit \/ FlagHitFault \/ VariantHit PROVE IInv'
<1> USE DEF IInv
<1>1. UNCHANGED <<user, item, flags, variants, baggage, auxiliary>> /\ gate # NoGate
  BY DEF FlagHit, FlagHitFault, VariantHit, AskingFlag, AskingVariant, snapshot
<1>2. Keeps
  BY <1>1 DEF Keeps
<1>3. ContextOK'
  BY <1>1 DEF ContextOK, Explains, auxiliary
<1>4. gate \in Gates
  BY <1>1 DEF TypeOK
<1>5. /\ flags' \in [Features -> {"none", "on", "off", "fault"}]
      /\ variants' \in [Features -> Names \cup {NoVariant, NoValue}]
      /\ flagFor' \in [Features -> [Users -> {"none", "on", "off"}]]
      /\ variantFor' \in [Features -> [Users -> Names \cup {NoVariant, NoValue}]]
      /\ item' \in Users \cup {NoContext}
  BY <1>1 DEF TypeOK, auxiliary
<1>6. CASE FlagHit
  <2> DEFINE yes == flags[Asked] = "on"
  <2>1. yes \in BOOLEAN /\ Take(yes) /\ ~IsVariantTag(gate) /\ flags[Asked] \in {"on", "off"}
    BY <1>6 DEF FlagHit, AskingFlag
  <2> QED
    BY <1>1, <1>2, <1>3, <1>5, <2>1, TakeStep, LoopStep
<1>7. CASE VariantHit
  <2> DEFINE yes == Matches(variants[Asked])
  <2>1. Take(yes) /\ IsVariantTag(gate) /\ variants[Asked] # NoValue
    BY <1>7 DEF VariantHit, AskingVariant
  <2> QED
    BY <1>1, <1>2, <1>3, <1>5, <2>1, TakeStep, LoopStep DEF Matches
<1>8. CASE FlagHitFault
  <2>1. Finish(gate, "thrown")
    BY <1>8 DEF FlagHitFault
  <2> QED
    BY <1>1, <1>2, <1>3, <1>4, <1>5, <2>1, ThrownStep, LoopStep
<1> QED
  BY <1>6, <1>7, <1>8

\* An evaluation that answers.
LEMMA AnswerStep ==
  ASSUME IInv, FlagAnswer \/ VariantAnswer PROVE IInv'
<1> USE DEF IInv
<1>1. UNCHANGED <<user, baggage>> /\ gate # NoGate /\ rule # NoRule
  BY DEF FlagAnswer, VariantAnswer, AskingFlag, AskingVariant
<1>2. Asked \in Features /\ gate \in Gates
  BY <1>1, AskedItem
<1> PICK f : f = Asked
  OBVIOUS
<1>4. rule \in Rule /\ Context \in Users
  BY <1>1, RulesAssumption DEF TypeOK, Context
<1>5. ASSUME NEW state \in Session, NEW u \in Users
      PROVE  /\ rule.outcome[state][u].flag \in {"on", "off"}
             /\ rule.outcome[state][u].variant \in Names \cup {NoVariant}
  <2>1. rule.outcome[state][u] \in Outcome
    BY <1>4 DEF Rule
  <2> QED
    BY <2>1 DEF Outcome
<1>6. CASE FlagAnswer
  <2>1. PICK state \in Session :
          /\ Evaluate(state)
          /\ flags' = [flags EXCEPT ![f] = rule.outcome[state][Context].flag]
          /\ flagFor' = [flagFor EXCEPT ![f] = [u \in Users |-> rule.outcome[state][u].flag]]
          /\ Take(rule.outcome[state][Context].flag = "on")
    BY <1>6 DEF FlagAnswer
  <2>0. UNCHANGED <<variants, variantFor>> /\ ~IsVariantTag(gate)
    BY <1>6 DEF FlagAnswer, AskingFlag
  <2> DEFINE answer == rule.outcome[state][Context].flag
             yes == answer = "on"
  <2>a. answer \in {"on", "off"}
    BY <1>4, <1>5
  <2>b. [u \in Users |-> rule.outcome[state][u].flag] \in [Users -> {"none", "on", "off"}]
    BY <1>5
  <2>2. flags' \in [Features -> {"none", "on", "off", "fault"}] /\ flags'[f] = answer
    BY <1>2, <2>1, <2>a DEF TypeOK
  <2>8. flagFor' \in [Features -> [Users -> {"none", "on", "off"}]]
    BY <1>2, <2>1, <2>b DEF TypeOK
  <2>3. flags[f] = "none"
    BY <1>1, <2>0 DEF LoopOK
  <2>4. Keeps
    BY <2>0, <2>1, <2>3 DEF Keeps, TypeOK
  <2>5. ContextOK' /\ item' \in Users \cup {NoContext}
    <3>1. \A h \in Features, u \in Users :
            \/ flags'[h] \notin {"on", "off"}
            \/ flags'[h] = flags[h] /\ flagFor'[h][u] = flagFor[h][u]
            \/ /\ h = f /\ flags'[h] = rule.outcome[state][Context].flag
               /\ flagFor'[h][u] = rule.outcome[state][u].flag
      BY <1>2, <2>1 DEF TypeOK
    <3>2. \A h \in Features, u \in Users :
            \/ variants'[h] = NoValue
            \/ variants'[h] = variants[h] /\ variantFor'[h][u] = variantFor[h][u]
            \/ /\ h = f /\ variants'[h] = rule.outcome[state][Context].variant
               /\ variantFor'[h][u] = rule.outcome[state][u].variant
      BY <2>0
    <3>3. TypeOK /\ ContextOK /\ f \in Features
      BY <1>2
    <3> QED
      BY <1>1, <2>1, <3>1, <3>2, <3>3, EvaluateContext
  <2>6. yes \in BOOLEAN /\ Take(yes)
    BY <2>1
  <2>7. /\ variants' \in [Features -> Names \cup {NoVariant, NoValue}]
        /\ variantFor' \in [Features -> [Users -> Names \cup {NoVariant, NoValue}]]
    BY <2>0 DEF TypeOK
  <2>9. flags'[Asked] \in {"on", "off"} /\ (yes <=> flags'[Asked] = "on")
    BY <2>2, <2>a
  <2> HIDE DEF yes
  <2> QED
    BY <1>1, <2>0, <2>2, <2>4, <2>5, <2>6, <2>7, <2>8, <2>9, TakeStep, LoopStep
<1>7. CASE VariantAnswer
  <2>1. PICK state \in Session :
          /\ Evaluate(state)
          /\ variants' = [variants EXCEPT ![f] = rule.outcome[state][Context].variant]
          /\ variantFor' = [variantFor EXCEPT ![f] =
                              [u \in Users |-> rule.outcome[state][u].variant]]
          /\ Take(Matches(rule.outcome[state][Context].variant))
    BY <1>7 DEF VariantAnswer
  <2>0. UNCHANGED <<flags, flagFor>> /\ IsVariantTag(gate)
    BY <1>7 DEF VariantAnswer, AskingVariant
  <2> DEFINE answer == rule.outcome[state][Context].variant
             yes == VariantsOf(gate)[pos] = answer
  <2>a. answer \in Names \cup {NoVariant}
    BY <1>4, <1>5
  <2>b. [u \in Users |-> rule.outcome[state][u].variant]
          \in [Users -> Names \cup {NoVariant, NoValue}]
    BY <1>5
  <2>2. /\ variants' \in [Features -> Names \cup {NoVariant, NoValue}]
        /\ variants'[f] = answer /\ answer # NoValue
    BY <1>2, <2>1, <2>a DEF TypeOK
  <2>8. variantFor' \in [Features -> [Users -> Names \cup {NoVariant, NoValue}]]
    BY <1>2, <2>1, <2>b DEF TypeOK
  <2>3. variants[f] = NoValue
    BY <1>1, <2>0 DEF LoopOK
  <2>4. Keeps
    BY <2>0, <2>1, <2>3 DEF Keeps, TypeOK
  <2>5. ContextOK' /\ item' \in Users \cup {NoContext}
    <3>1. \A h \in Features, u \in Users :
            \/ flags'[h] \notin {"on", "off"}
            \/ flags'[h] = flags[h] /\ flagFor'[h][u] = flagFor[h][u]
            \/ /\ h = f /\ flags'[h] = rule.outcome[state][Context].flag
               /\ flagFor'[h][u] = rule.outcome[state][u].flag
      BY <2>0
    <3>2. \A h \in Features, u \in Users :
            \/ variants'[h] = NoValue
            \/ variants'[h] = variants[h] /\ variantFor'[h][u] = variantFor[h][u]
            \/ /\ h = f /\ variants'[h] = rule.outcome[state][Context].variant
               /\ variantFor'[h][u] = rule.outcome[state][u].variant
      BY <1>2, <2>1 DEF TypeOK
    <3>3. TypeOK /\ ContextOK /\ f \in Features
      BY <1>2
    <3> QED
      BY <1>1, <2>1, <3>1, <3>2, <3>3, EvaluateContext
  <2>6. yes \in BOOLEAN /\ Take(yes)
    BY <2>1 DEF Matches
  <2>7. /\ flags' \in [Features -> {"none", "on", "off", "fault"}]
        /\ flagFor' \in [Features -> [Users -> {"none", "on", "off"}]]
    BY <2>0 DEF TypeOK
  <2>9. variants'[Asked] # NoValue /\ (yes <=> VariantsOf(gate)[pos] = variants'[Asked])
    BY <2>2
  <2> HIDE DEF yes
  <2> QED
    BY <1>1, <2>0, <2>2, <2>4, <2>5, <2>6, <2>7, <2>8, <2>9, TakeStep, LoopStep
<1> QED
  BY <1>6, <1>7

\* An evaluation that throws.
LEMMA FaultStep ==
  ASSUME IInv, FlagFault \/ VariantFault PROVE IInv'
<1> USE DEF IInv
<1>1. /\ UNCHANGED <<user, baggage, auxiliary, variants>> /\ gate # NoGate /\ rule # NoRule
      /\ (\E state \in Session : Evaluate(state)) \/ item' = item
      /\ Finish(gate, "thrown")
  BY DEF FlagFault, VariantFault, AskingFlag, AskingVariant, snapshot
<1>2. Asked \in Features /\ gate \in Gates
  BY <1>1, AskedItem
<1>4. /\ \A h \in Features : flags'[h] \notin {"on", "off"} \/ flags'[h] = flags[h]
      /\ flags' \in [Features -> {"none", "on", "off", "fault"}]
      /\ Keeps
  <2>1. CASE VariantFault
    BY <2>1 DEF VariantFault, snapshot, TypeOK, Keeps
  <2>2. CASE FlagFault
    <3>1. flags' = [flags EXCEPT ![Asked] = "fault"] /\ ~IsVariantTag(gate)
      BY <2>2 DEF FlagFault, AskingFlag
    <3>2. flags[Asked] = "none"
      BY <1>1, <3>1 DEF LoopOK
    <3> QED
      BY <1>1, <1>2, <3>1, <3>2 DEF TypeOK, Keeps
  <2> QED
    BY <2>1, <2>2
<1>5. ContextOK' /\ item' \in Users \cup {NoContext}
  <2>1. ASSUME NEW state \in Session, Evaluate(state)
        PROVE  ContextOK' /\ item' \in Users \cup {NoContext}
    BY <1>1, <1>2, <1>4, <2>1, EvaluateContext DEF auxiliary
  <2>2. CASE item' = item
    BY <1>1, <1>4, <2>2 DEF ContextOK, Explains, TypeOK, auxiliary
  <2> QED
    BY <1>1, <2>1, <2>2
<1>6. /\ variants' \in [Features -> Names \cup {NoVariant, NoValue}]
      /\ flagFor' \in [Features -> [Users -> {"none", "on", "off"}]]
      /\ variantFor' \in [Features -> [Users -> Names \cup {NoVariant, NoValue}]]
  BY <1>1 DEF TypeOK, auxiliary
<1> QED
  BY <1>1, <1>2, <1>4, <1>5, <1>6, ThrownStep, LoopStep

\* The invariant is inductive.
THEOREM Invariant == Spec => []IInv
<1>1. ASSUME IInv, [Next]_vars PROVE IInv'
  <2>1. CASE UNCHANGED vars
    BY <1>1, <2>1 DEF vars, snapshot, loop, auxiliary, IInv, TypeOK, LoopOK, Asked, Stands, Yes, No,
                      ContextOK, Explains
  <2>2. CASE Step
    BY <1>1, <2>2, FetchStep, HitStep, AnswerStep, FaultStep DEF Step
  <2> QED
    BY <1>1, <2>1, <2>2, AroundStep, EnterStep DEF Next
<1> QED
  BY Initial, <1>1, PTL DEF Spec

-----------------------------------------------------------------------------

\* Every variable keeps its type, and a gate in progress is at one of its items.
THEOREM TypesKept == Spec => []TypeOK
<1>1. IInv => TypeOK
  BY DEF IInv
<1> QED
  BY Invariant, <1>1, PTL

\* One state of the features explains the decisions of all gates of a request,
\* whichever definitions are handed out in between and wherever each of them stops: the state that
\* the snapshot has settled so far, with any value for what it has not.
THEOREM GatesHaveOneState == Spec => []GatesAgree
<1>1. ASSUME IInv PROVE GatesAgree
  <2> DEFINE on == [f \in Features |-> flags[f] = "on"]
  <2> DEFINE assigned ==
        [f \in Features |-> IF variants[f] = NoValue THEN NoVariant ELSE variants[f]]
  <2>1. on \in [Features -> BOOLEAN] /\ assigned \in [Features -> Names \cup {NoVariant}]
    BY <1>1 DEF IInv, TypeOK
  <2>2. ASSUME NEW g \in Gates
        PROVE  (Yes(g) => Enabled(g, on, assigned)) /\ (No(g) => ~Enabled(g, on, assigned))
    <3>1. \A i \in 1..Len(FeaturesOf(g)) : FeaturesOf(g)[i] \in Features
      BY Declares
    <3>2. FeaturesOf(g) # <<>> => FeaturesOf(g)[1] \in Features
      BY Declares
    <3>3. IsVariantTag(g) => FeaturesOf(g) # <<>>
      BY DEF IsVariantTag
    <3>4. Yes(g) => Enabled(g, on, assigned)
      BY <3>1, <3>2, <3>3 DEF Yes, Enabled
    <3>5. No(g) => ~Enabled(g, on, assigned)
      BY <3>1, <3>2, <3>3 DEF No, Enabled
    <3> QED
      BY <3>4, <3>5
  <2>3. ASSUME NEW g \in Gates, decision[g] \in {"allow", "deny"}
        PROVE  (decision[g] = "allow") = (Enabled(g, on, assigned) # Declared[g].negate)
    <3>1. Stands(g) /\ Declared[g].negate \in BOOLEAN
      BY <1>1, Declares DEF IInv
    <3>2. decision[g] = "allow" <=> ~(Enabled(g, on, assigned) <=> Declared[g].negate)
      BY <2>2, <2>3, <3>1 DEF Stands
    <3>3. Enabled(g, on, assigned) \in BOOLEAN
      BY DEF Enabled
    <3> QED
      BY <3>1, <3>2, <3>3
  <2> QED
    BY <2>1, <2>3 DEF GatesAgree
<1> QED
  BY Invariant, <1>1, PTL

\* One user explains every flag, every variant and the targeting id of a request.
THEOREM RequestHasOneUser == Spec => []OneUser
<1>1. ASSUME IInv PROVE OneUser
  <2>1. item \in Users \cup {NoContext} /\ user \in Users
    BY <1>1 DEF IInv, TypeOK
  <2>2. \E u \in Users : Explains(u)
    BY <1>1, <2>1 DEF IInv, ContextOK
  <2> QED
    BY <2>2 DEF OneUser, Explains
<1> QED
  BY Invariant, <1>1, PTL

=============================================================================
