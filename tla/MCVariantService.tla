--------------------------- MODULE MCVariantService ---------------------------
(***************************************************************************)
(* Instances of VariantService for TLC.                                    *)
(***************************************************************************)
EXTENDS VariantService

CONSTANTS a, b   \* callers

\* "big" and "Big" are one name but for the case; "lost" is registered nowhere.
Cases == [n \in {"big", "Big", "small", "lost"} |-> IF n = "Big" THEN "big" ELSE n]
Aliases == [x \in {"BigService", "SmallService", "SmallToo"} |->
              IF x = "BigService" THEN "Big" ELSE "small"]

\* Registrations with and without keys, two of one alias, and with two fallbacks, with
\* one and with none; in the last but one a key has the name of the fallback.
Registrations == {
  [keyed |-> [n \in {"big"} |-> "BigService"],
   listed |-> <<"SmallService", "SmallToo", "BigService">>,
   whenEnabled |-> "BigService", whenDisabled |-> "SmallService"],
  [keyed |-> [n \in {"small"} |-> "SmallToo"], listed |-> <<"SmallService", "BigService">>,
   whenEnabled |-> "SmallToo", whenDisabled |-> NoType],
  [keyed |-> [n \in {"small"} |-> "BigService"], listed |-> <<"SmallToo", "BigService">>,
   whenEnabled |-> "SmallToo", whenDisabled |-> NoType],
  [keyed |-> << >>, listed |-> <<"SmallService", "BigService">>,
   whenEnabled |-> NoType, whenDisabled |-> NoType] }

=============================================================================
