------------------------------ MODULE MCSettle ------------------------------
(***************************************************************************)
(* Settle for TLC: two members of which the second needs a block less than *)
(* the first, so that one is decided while the other is still pending, and *)
(* the second's policy may be one that its channel or Validate refuses,    *)
(* or else its failures may be named by bytes alone.                       *)
(***************************************************************************)
EXTENDS Settle

CONSTANTS c1, c2

MCInit ==
  /\ Init
  /\ minDepth[c1] = 2 /\ minDepth[c2] = 1
  /\ figures[c1] = "fit" /\ blind \in {{}, {c2}}
  /\ blind = {} \/ figures[c2] = "fit"

MCSpec == MCInit /\ [][Next]_vars /\ Fairness
=============================================================================
