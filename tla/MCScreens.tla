----------------------------- MODULE MCScreens -----------------------------
(***************************************************************************)
(* The armed window with its screens for TLC: three channels, the          *)
(* transaction of the plan and another, the run and one recover command.   *)
(***************************************************************************)
EXTENDS Screens, TLC

CONSTANTS c1, c2, c3, t1, t2, run, recover

MCChannels == {c1, c2, c3}
MCTwoTxs == {t1, t2}
MCProcs == {run, recover}

(* A channel's name tells it from no other. *)
MCSymmetry == Permutations(MCChannels)
============================================================================
