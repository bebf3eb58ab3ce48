---------------------------- MODULE MCFeatureGate ----------------------------
(***************************************************************************)
(* Instances of FeatureGate for TLC.                                       *)
(***************************************************************************)
EXTENDS FeatureGate

Out(flag, variant) == [flag |-> flag, variant |-> variant]

Always(out) == [u \in Users |-> out]

\* Off, unless the session says otherwise, whoever asks.
Off ==
  [reads |-> [state \in Session |-> FALSE],
   outcome |-> [state \in Session |->
     Always(Out(IF state = "unset" THEN "off" ELSE state, NoVariant))]]

\* On for Ann only, whom a session's state overrules unasked.
Targeted ==
  [reads |-> [state \in Session |-> state = "unset"],
   outcome |-> [state \in Session |-> [u \in Users |->
     Out(IF state # "unset" THEN state ELSE IF u = "ann" THEN "on" ELSE "off", NoVariant)]]]

\* Definitions with variants resolve the context, be they enabled or not: the same
\* variant for all while it is on, or one for each user.
Default ==
  [reads |-> [state \in Session |-> TRUE],
   outcome |-> [state \in Session |->
     Always(IF state = "off" THEN Out("off", NoVariant) ELSE Out("on", "big"))]]
Allocated ==
  [reads |-> [state \in Session |-> TRUE],
   outcome |-> [state \in Session |-> [u \in Users |->
     IF state = "off" THEN Out("off", NoVariant)
     ELSE Out("on", IF u = "ann" THEN "big" ELSE "small")]]]

Definitions == {Off, Targeted, Default, Allocated}

Gate(fs, vs, all, negate) ==
  [features |-> fs, variants |-> vs, all |-> all, negate |-> negate]

\* The two features in both orders, required in both ways; tags for variants, one
\* of them negated; a tag without a name and one that requires two variants.
Declarations == [g \in Gates |->
  CASE g = "both"    -> Gate(<<"F", "G">>, <<>>, TRUE, FALSE)
    [] g = "neither" -> Gate(<<"G", "F">>, <<>>, FALSE, TRUE)
    [] g = "big"     -> Gate(<<"F">>, <<"big">>, TRUE, FALSE)
    [] g = "other"   -> Gate(<<"F">>, <<"small", "big">>, FALSE, TRUE)
    [] g = "empty"   -> Gate(<<>>, <<"big">>, TRUE, FALSE)
    [] g = "wrong"   -> Gate(<<"F">>, <<"small", "big">>, TRUE, FALSE)]

=============================================================================
