--------------------------- MODULE SettleVerdict ---------------------------
(***************************************************************************)
(* What the settlement promises, without passes, clocks or a node: each    *)
(* member gets one verdict and keeps it, members decide nothing for each   *)
(* other, and the settlement ends when all are decided or when stopped.    *)
(***************************************************************************)

CONSTANT Members

VARIABLES verdict,  \* "undecided", "policied" or "givenUp", per member
          result    \* "no", "finished", "stuck" or "stopped"

vvars == <<verdict, result>>

Init == verdict = [c \in Members |-> "undecided"] /\ result = "no"

Decide(c) ==
  /\ result = "no" /\ verdict[c] = "undecided"
  /\ \E v \in {"policied", "givenUp"} : verdict' = [verdict EXCEPT ![c] = v]
  /\ UNCHANGED result

End ==
  /\ result = "no"
  /\ \A c \in Members : verdict[c] # "undecided"
  /\ result' = IF \E c \in Members : verdict[c] = "givenUp"
               THEN "stuck" ELSE "finished"
  /\ UNCHANGED verdict

Stop == result = "no" /\ result' = "stopped" /\ UNCHANGED verdict

Next == End \/ Stop \/ \E c \in Members : Decide(c)

Spec == Init /\ [][Next]_vvars
============================================================================
