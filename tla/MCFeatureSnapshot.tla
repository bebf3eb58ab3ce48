-------------------------- MODULE MCFeatureSnapshot --------------------------
(***************************************************************************)
(* Instances of FeatureSnapshot for TLC.                                   *)
(***************************************************************************)
EXTENDS FeatureSnapshot, TLC

CONSTANTS a, b   \* callers
CONSTANT f       \* a feature

Callers2 == Permutations({a, b})

=============================================================================
