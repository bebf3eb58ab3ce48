------------------------------ MODULE MCTargeting ------------------------------
(***************************************************************************)
(* Names in several cases, two cultures and some hash functions, for TLC.  *)
(***************************************************************************)
EXTENDS Targeting

\* "dotless" is "ian" written with a dotless i, what a Turkish server lowers "IAN" to;
\* OrdinalIgnoreCase takes it for a name of its own.
People == {"ian", "IAN", "dotless"}
Teams == {"red", "RED"}

Folded ==
  [n \in People \cup Teams |-> CASE n = "IAN" -> "ian" [] n = "RED" -> "red" [] OTHER -> n]
Turkish == [Folded EXCEPT !["IAN"] = "dotless"]
ServerCultures == {Folded, Turkish}

Number ==
  [n \in People \cup Teams \cup {NoUser, NoGroup} |->
     CASE n \in {"ian", NoGroup} -> 0 [] n \in {"IAN", "red"} -> 1 [] OTHER -> 2]

\* Functions that between them give every id every bucket.
Spread ==
  {[id \in ContextIds |-> (k + Number[id[1]] + Number[id[2]]) % (Full + 1)] : k \in 0..Full}

=============================================================================
