--------------------------- MODULE RequestSnapshot ---------------------------
(***************************************************************************)
(* What a snapshot promises to the callers of one request, whatever goes   *)
(* on behind it: each key is settled at most once, and everybody who asks  *)
(* for it is told the settled value.                                       *)
(***************************************************************************)
EXTENDS Naturals

CONSTANTS Keys, Callers, Values, NoValue, NoAnswer

VARIABLES
  answers,   \* the settled value of each key
  told       \* the last answer each caller was given

vars == <<answers, told>>

Init ==
  /\ answers = [k \in Keys |-> NoValue]
  /\ told = [c \in Callers |-> NoAnswer]

Settle(k, v) ==
  /\ answers[k] = NoValue
  /\ answers' = [answers EXCEPT ![k] = v]
  /\ UNCHANGED told

Tell(c, k) ==
  /\ answers[k] # NoValue
  /\ told' = [told EXCEPT ![c] = [key |-> k, value |-> answers[k]]]
  /\ UNCHANGED answers

Next ==
  \/ \E k \in Keys, v \in Values : Settle(k, v)
  \/ \E c \in Callers, k \in Keys : Tell(c, k)

Spec == Init /\ [][Next]_vars

=============================================================================
