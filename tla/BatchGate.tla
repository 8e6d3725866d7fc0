----------------------------- MODULE BatchGate -----------------------------
(***************************************************************************)
(* What the program promises its operator, in three actions (I-1): a       *)
(* batch's channels become recoverable one by one, and then either the one *)
(* transaction that funds all of them becomes public, or they are undone;  *)
(* never both.  Once the transaction is public nothing is undone.          *)
(***************************************************************************)
CONSTANT Channels

VARIABLES fund,   \* per channel: "none", "recoverable" or "undone"
          public  \* may the transaction have left this program?

gvars == <<fund, public>>

GateInit ==
  /\ fund = [c \in Channels |-> "none"]
  /\ public = FALSE

BecomeRecoverable(c) ==
  /\ ~public
  /\ fund[c] = "none"
  /\ fund' = [fund EXCEPT ![c] = "recoverable"]
  /\ UNCHANGED public

Undo(c) ==
  /\ ~public
  /\ fund[c] = "recoverable"
  /\ fund' = [fund EXCEPT ![c] = "undone"]
  /\ UNCHANGED public

Publish ==
  /\ \A c \in Channels : fund[c] = "recoverable"
  /\ public' = TRUE
  /\ UNCHANGED fund

GateNext == Publish \/ \E c \in Channels : BecomeRecoverable(c) \/ Undo(c)

GateSpec == GateInit /\ [][GateNext]_gvars
============================================================================
