--------------------------- MODULE MCAroundWindow ---------------------------
(***************************************************************************)
(* What the armed window relies on, for TLC: a journal of two channels and *)
(* two txids; two peers, three channels and a wallet whose files are two   *)
(* bytes long.                                                             *)
(***************************************************************************)
EXTENDS AroundWindow

CONSTANTS p1, p2, c1, c2, t1, t2

(* Three channels, two of them to the same peer. *)
MCWants == <<p1, p2, p1>>

(* What earlier attempts may have left. *)
MCEarlier == {{}, {"signed"}, {"txn"}, {"signed", "txn"}, {"unsigned"}}
=============================================================================
