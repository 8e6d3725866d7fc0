--------------------------- MODULE MCArmedWindow ---------------------------
(***************************************************************************)
(* Small batches for TLC: the run and one recover command.                 *)
(***************************************************************************)
EXTENDS ArmedWindow, TLC

CONSTANTS c1, c2, t1, t2, run, recover

MCChannels == {c1, c2}
MCOneTx == {t1}
MCTwoTxs == {t1, t2}
MCProcs == {run, recover}

(* A channel's name tells it from no other. *)
MCSymmetry == Permutations(MCChannels)
============================================================================
