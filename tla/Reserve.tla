------------------------------- MODULE Reserve -------------------------------
(***************************************************************************)
(* The anchor reserve (internal/reserve, plan.ReserveTopUp), from the      *)
(* pre-flight that reads it to the last psbt_verify that is judged by it.  *)
(* The pre-flight is four reads of a node that goes on living; LND judges  *)
(* each announced channel minutes later, against the channels it counts by *)
(* then, and some of those are the batch's own.                            *)
(***************************************************************************)

EXTENDS Integers, FiniteSets

CONSTANTS Size,        \* channels in the batch: they are 1..Size
          PerChannel,  \* AnchorChanReservedValue
          CapChannels, \* the channels MaxAnchorChanReservedValue is worth
          MaxExisting, \* bound: anchor channels the node has before
          MaxBalance   \* bound: its unlocked balance

ASSUME ReserveAssumption ==
  /\ Size \in Nat \ {0} /\ PerChannel \in Nat \ {0} /\ CapChannels \in Nat \ {0}
  /\ MaxExisting \in Nat /\ MaxBalance \in Nat

Members == 1..Size
Smaller(a, b) == IF a < b THEN a ELSE b
Larger(a, b)  == IF a < b THEN b ELSE a

(* LND's reserve for a number of public anchor channels, external. *)
RequiredReserve(channels) == PerChannel * Smaller(channels, CapChannels)

VARIABLES
  phase,        \* where the run is; once it has failed the node is not followed
  public,    \* the members that will be announced
  finding,   \* reserve.Finding
  topUp,     \* the top-up output's amount, 0 for none
  next,      \* the member psbt_verify is asked for next
  refused,   \* the members whose psbt_verify LND refused
  completed, \* the batch's channels already in LND's channel database
  existing,  \* the public anchor channels that were there before
  balance,   \* the node's own unlocked witness coins
  drifted    \* history: whether others used the node's wallet meanwhile

rvars == <<phase, public, finding, topUp, next, refused, completed, existing, balance,
           drifted>>
node == <<completed, existing, balance, drifted>>

Batch(members) == [public  |-> Cardinality(members),
                   private |-> Size - Cardinality(members)]
BatchSizes == [public : 0..Size, private : 0..Size]
Figures == 0..PerChannel * CapChannels

(* The types; the top-up is an amount to pay, never less than nothing and  *)
(* never more than LND's own ceiling.                                      *)
ReserveTypeOK ==
  /\ phase \in {"balance", "now", "at_verify", "after", "top_up", "open", "verify",
             "verified", "failed"}
  /\ public \in SUBSET Members
  /\ finding \in [batch : BatchSizes, available : 0..MaxBalance, now : Figures,
                  atVerify : Figures, afterBatch : Figures]
  /\ topUp \in Figures
  /\ next \in 1..Size + 1
  /\ refused \subseteq Members /\ completed \subseteq Members
  /\ existing \in 0..MaxExisting /\ balance \in 0..MaxBalance
  /\ drifted \in BOOLEAN

ReserveInit ==
  /\ phase = "balance"
  /\ public \in SUBSET Members
  /\ finding = [batch |-> Batch(public), available |-> 0, now |-> 0,
                atVerify |-> 0, afterBatch |-> 0]
  /\ topUp = 0 /\ next = 1 /\ refused = {} /\ completed = {}
  /\ existing \in 0..MaxExisting
  /\ balance \in 0..MaxBalance
  /\ drifted = FALSE

(* CurrentNumAnchorChans: private channels are not counted. *)
Counted == existing + Cardinality(completed \cap public)

-----------------------------------------------------------------------------
(* The pre-flight's reads, each a call of its own. *)

ReadAvailable ==
  /\ phase = "balance"
  /\ finding' = [finding EXCEPT !.available = balance]
  /\ phase' = "now"
  /\ UNCHANGED <<public, topUp, next, refused, node>>

ReadNow ==
  /\ phase = "now"
  /\ finding' = [finding EXCEPT !.now = RequiredReserve(Counted)]
  /\ phase' = "at_verify"
  /\ UNCHANGED <<public, topUp, next, refused, node>>

ReadAtVerify ==
  /\ phase = "at_verify"
  /\ finding' = [finding EXCEPT !.atVerify = RequiredReserve(Counted + 1)]
  /\ phase' = "after"
  /\ UNCHANGED <<public, topUp, next, refused, node>>

(* Mutant of AfterBatch: the first verify's figure is taken for the batch. *)
OneMore(f) == IF f.batch.public = 0 THEN f.now ELSE f.atVerify

(* The figure for the whole batch: asked only when it is not one of the    *)
(* two already in hand, which an earlier moment answered.                  *)
AfterBatch(f) ==
  CASE f.batch.public = 0 -> f.now
    [] f.batch.public = 1 -> f.atVerify
    [] OTHER              -> RequiredReserve(Counted + f.batch.public)

ReadAfterBatch ==
  /\ phase = "after"
  /\ finding' = [finding EXCEPT !.afterBatch = AfterBatch(finding)]
  /\ phase' = "top_up"
  /\ UNCHANGED <<public, topUp, next, refused, node>>

(* A read LND does not answer ends the run before it opened anything. *)
CannotAsk ==
  /\ phase \in {"balance", "now", "at_verify", "after"}
  /\ phase' = "failed"
  /\ UNCHANGED <<public, finding, topUp, next, refused, node>>

-----------------------------------------------------------------------------
(* What the finding says and what the plan pays for it. *)

Verdict(f) ==
  CASE f.batch.public = 0          -> "not_applicable"
    [] f.available < f.atVerify    -> "would_be_refused"
    [] f.available < f.afterBatch  -> "short_after_batch"
    [] OTHER                       -> "clear"

Shortfall(need, have) == Larger(need - have, 0)

(* Mutant of ReserveTopUp: what the first psbt_verify wants and no more. *)
FirstVerifyOnly(f) ==
  IF Verdict(f) = "not_applicable" THEN 0 ELSE Shortfall(f.atVerify, f.available)

(* The larger of the two shortfalls, and nothing for an all-private batch. *)
ReserveTopUp(f) ==
  IF Verdict(f) = "not_applicable" THEN 0
  ELSE Larger(Shortfall(f.atVerify, f.available), Shortfall(f.afterBatch, f.available))

PlanTopUp ==
  /\ phase = "top_up"
  /\ topUp' = ReserveTopUp(finding)
  /\ phase' = "open"
  /\ UNCHANGED <<public, finding, next, refused, node>>

(* The top-up's address is asked of the node too, when one is needed. *)
NoAddress ==
  /\ phase = "top_up" /\ ReserveTopUp(finding) > 0
  /\ phase' = "failed"
  /\ UNCHANGED <<public, finding, topUp, next, refused, node>>

StillApplies(f, members) == f.batch = Batch(members)

(* The streams open: all of the batch or, with an error, none to go on     *)
(* with, so the batch that opened is the batch the finding is about.       *)
StreamsOpen ==
  /\ phase = "open" /\ StillApplies(finding, public)
  /\ phase' = "verify"
  /\ UNCHANGED <<public, finding, topUp, next, refused, node>>

-----------------------------------------------------------------------------
(* LND, external. *)

(* CheckReservedValue: own coins and the transaction's output to the node, *)
(* against one channel more than are counted; announced channels only.     *)
Covered == balance + topUp >= RequiredReserve(Counted + 1)

PsbtVerify ==
  /\ phase = "verify" /\ next \in Members
  /\ IF next \in public /\ ~Covered
     THEN refused' = refused \cup {next} /\ phase' = "failed" /\ UNCHANGED next
     ELSE /\ next' = next + 1
          /\ phase' = IF next = Size THEN "verified" ELSE phase
          /\ UNCHANGED refused
  /\ UNCHANGED <<public, finding, topUp, node>>

(* CompleteReservation writes a verified channel to the database, at any   *)
(* time after its verify and in any order.                                 *)
CompleteReservation(c) ==
  /\ phase # "failed" /\ c < next /\ c \notin completed
  /\ completed' = completed \cup {c}
  /\ UNCHANGED <<phase, public, finding, topUp, next, refused, existing, balance,
                 drifted>>

(* The node goes on living: coins arrive or a lease ends, a channel that   *)
(* was closing is gone.                                                    *)
Relief ==
  /\ phase # "failed"
  /\ \/ balance < MaxBalance /\ balance' = balance + 1 /\ UNCHANGED existing
     \/ existing > 0 /\ existing' = existing - 1 /\ UNCHANGED balance
  /\ UNCHANGED <<phase, public, finding, topUp, next, refused, completed, drifted>>

(* ... and others spend or lease its coins, or open channels with it. *)
Drift ==
  /\ phase # "failed"
  /\ drifted' = TRUE
  /\ \/ balance > 0 /\ balance' = balance - 1 /\ UNCHANGED existing
     \/ existing < MaxExisting /\ existing' = existing + 1 /\ UNCHANGED balance
  /\ UNCHANGED <<phase, public, finding, topUp, next, refused, completed>>

ReserveOver == phase = "failed" /\ UNCHANGED rvars

ReserveNext ==
  \/ ReadAvailable \/ ReadNow \/ ReadAtVerify \/ ReadAfterBatch \/ CannotAsk
  \/ PlanTopUp \/ NoAddress \/ StreamsOpen \/ PsbtVerify
  \/ \E c \in Members : CompleteReservation(c)
  \/ Relief \/ Drift \/ ReserveOver

ReserveSpec == ReserveInit /\ [][ReserveNext]_rvars

-----------------------------------------------------------------------------
(* With nobody else at the node's wallet, no psbt_verify of the batch is   *)
(* refused for the reserve, whichever of the batch's own channels LND has  *)
(* counted by the time it judges the next (reserve.go, "Two figures, and   *)
(* the batch moves between them").                                         *)
VerifyIsNeverRefused == ~drifted => refused = {}

(* Then too the coins and the top-up cover, once the batch is verified,    *)
(* what the node will need with every announced member pending             *)
(* (plan.ReserveTopUp: "One output covers both").                          *)
NodeIsWholeAfterwards ==
  phase = "verified" /\ public # {} /\ ~drifted =>
    balance + topUp >= RequiredReserve(existing + Cardinality(public))

(* With others using the wallet, a refusal is theirs: the coins read are   *)
(* gone, or the batch's ceiling is above both figures LND gave for it.     *)
RefusalMeansDrift ==
  refused # {} =>
    \/ balance < finding.available
    \/ RequiredReserve(existing + finding.batch.public)
         > Larger(finding.atVerify, finding.afterBatch)
=============================================================================
