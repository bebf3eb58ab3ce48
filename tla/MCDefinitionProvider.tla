------------------------ MODULE MCDefinitionProvider ------------------------
(***************************************************************************)
(* Instances of DefinitionProvider for TLC.                                *)
(***************************************************************************)
EXTENDS DefinitionProvider, TLC

CONSTANTS f, g     \* features
CONSTANTS t1, t2   \* threads

Flag(ids) == [ms |-> ids, dn |-> {}, bad |-> {}]

\* One feature that stays where it is: only its content changes.
Edits == {Flag(<<f>>)}

\* A flag moves to another index, another flag comes in front of it or goes.
Moves == {Flag(<<f>>), Flag(<<f, g>>), Flag(<<g, f>>)}

\* A feature moves between the schemas, and may not parse.
Schemas == {[ms |-> <<f>>, dn |-> {}, bad |-> {}],
            [ms |-> <<>>, dn |-> {f}, bad |-> {}],
            [ms |-> <<f>>, dn |-> {f}, bad |-> {f}]}

\* Lists with a flag without id, the same id twice, both schemas, a bad flag.
Lists == {[ms |-> <<f, NoName, g>>, dn |-> {}, bad |-> {}],
          [ms |-> <<f, f>>, dn |-> {g}, bad |-> {}],
          [ms |-> <<g>>, dn |-> {f, g}, bad |-> {g}],
          [ms |-> <<g, f>>, dn |-> {f}, bad |-> {}]}

Both == Schemas \cup Lists

\* A behaviour begins with Schemas, for two threads, or with Lists, for one.  Flags are read
\* live, across one reload, and those of Lists also captured, across two.
Small == configs[1] \in Schemas

MCInit == Init /\ (Small => ~captured)

MCNext ==
  /\ Next
  /\ captured \/ Len(configs') <= 2
  /\ Small => configs'[Len(configs')] \in Schemas /\ \A t \in Threads : feature'[t] # g
  /\ ~Small => configs'[Len(configs')] \in Lists /\ pc'[t2] = "idle"

\* Only t1 is scheduled fairly; t2 and the configuration may stop anywhere.
FairToOne == MCInit /\ [][MCNext]_vars /\ WF_vars(Step(t1))

\* Wait freedom: a call ends although every other thread may have stopped in
\* the middle of EnsureInit, of a refresh or of GetOrAdd.
CallEnds == pc[t1] # "idle" ~> pc[t1] = "idle"

\* ListsEverything where one thread makes every call: an enumeration of GetAllFeatureDefinitionsAsync
\* that begins with every reload notified, and overlaps none, is complete.
OneThreadListsEverything == ~Small => ListsEverything

Threads2 == Permutations({t1, t2})

=============================================================================
