--------------------------- MODULE MCSettingsCache ---------------------------
(***************************************************************************)
(* Instances of SettingsCache for TLC.                                     *)
(***************************************************************************)
EXTENDS SettingsCache

CONSTANTS a, b   \* callers

One(name, filters) == [name |-> name, filters |-> filters]
Wrapped(v) == [kind |-> "wrapper", value |-> v]

\* Two flags that swap their places, and the filters of one that swap theirs or
\* take their settings in other ways.
Moves == {
  << One("f", <<Wrapped(1), Wrapped(2)>>), One("g", <<Wrapped(3)>>) >>,
  << One("g", <<Wrapped(4)>>),
     One("f", <<Wrapped(2), [kind |-> "unbound", value |-> 1]>>) >>,
  << One("f", <<[kind |-> "object", value |-> 5], [kind |-> "plain", value |-> 6]>>),
     One("g", <<Wrapped(3)>>) >> }

=============================================================================
