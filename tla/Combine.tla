------------------------------ MODULE Combine ------------------------------
(***************************************************************************)
(* Step 7 as far as the bytes go (internal/combine): what comes back from  *)
(* the signers is merged into the packet of step 4, finalized, executed    *)
(* against the coins and checked against the plan once more.               *)
(*                                                                         *)
(* Accept takes one wallet's answer, complete witnesses or signatures, as  *)
(* a PSBT or as a raw transaction.  Complete (the harness plays its cold   *)
(* wallet with it) takes one packet per device and refuses complete        *)
(* witnesses.  The signers answer anything AnswersTo allows.               *)
(***************************************************************************)

EXTENDS PlanVerify

CONSTANTS Devices,    \* the signers of a round, each with a key of its own
          Threshold,  \* the signatures a multisig coin takes
          Nested,     \* what the script hash of a coin of kind sh commits to
          AnswersTo(_, _)  \* what a device may return for a packet

ASSUME RoundAssumption == Threshold \in Nat \ {0}

VARIABLES mode,   \* "accept" or "complete"
          acc,    \* the merged packet
          signers,\* the devices that contributed
          got,    \* the packets merged so far, by device
          final   \* the packet made of the transaction to be published

cvars == <<phase, plan, base, mode, acc, signers, got, final>>
----------------------------------------------------------------------------
(* merge *)

Absent == {}

(* One field, first value wins; a second value that differs is a refusal. *)
FieldClash(a, b, none) == a # none /\ b # none /\ a # b
First(a, b, none) == IF a = none THEN b ELSE a

(* Signatures and origins are unioned by key. *)
KeyClash(A, B) == \E x \in A, y \in B : x.key = y.key /\ x # y

(* Mutant of InputClash: what was there is kept without a word. *)
NeverClash(dst, src) == FALSE

(* The two kinds of UTXO are each compared with their like. *)
InputClash(dst, src) ==
  \/ FieldClash(dst.final, src.final, Absent)
  \/ FieldClash(dst.wutxo, src.wutxo, NoUtxo)
  \/ FieldClash(dst.nutxo, src.nutxo, "none")
  \/ FieldClash(dst.redeem, src.redeem, "none")
  \/ FieldClash(dst.wscript, src.wscript, "none")
  \/ KeyClash(dst.sigs, src.sigs)
  \/ KeyClash(dst.derivs, src.derivs)

MergeInput(dst, src) ==
  [final |-> First(dst.final, src.final, Absent),
   wutxo |-> First(dst.wutxo, src.wutxo, NoUtxo),
   nutxo |-> First(dst.nutxo, src.nutxo, "none"),
   redeem |-> First(dst.redeem, src.redeem, "none"),
   wscript |-> First(dst.wscript, src.wscript, "none"),
   sigs |-> dst.sigs \cup src.sigs,
   derivs |-> dst.derivs \cup src.derivs]

MayMerge(m, dst, part) ==
  /\ part.tx = dst.tx
  /\ \A i \in Inputs(dst) : /\ m = "complete" => part.in[i].final = Absent
                            /\ ~InputClash(dst.in[i], part.in[i])
  /\ \A i \in DOMAIN dst.out : ~KeyClash(dst.out[i], part.out[i])

Merge(dst, part) ==
  [tx |-> dst.tx,
   in |-> [i \in Inputs(dst) |-> MergeInput(dst.in[i], part.in[i])],
   out |-> [i \in DOMAIN dst.out |-> dst.out[i] \cup part.out[i]]]

(* Mutant of Contributes: finalizing has discarded the signatures counted. *)
NewSignatures(dst, part) ==
  \E i \in Inputs(dst) : part.in[i].sigs \ dst.in[i].sigs # {}

Contributes(dst, part) ==
  \E i \in Inputs(dst) : \/ part.in[i].sigs \ dst.in[i].sigs # {}
                         \/ part.in[i].final # Absent

----------------------------------------------------------------------------
(* Finalize *)

SpentKind(in, out) == IF out.kind = "sh" THEN in.redeem ELSE out.kind

(* checkSignatureCounts looks at multisig inputs that have a witness UTXO. *)
CountIsRight(in) ==
  in.final = Absent /\ in.wutxo # NoUtxo /\ SpentKind(in, in.wutxo) = "wsh"
    => in.wscript = "multisig" /\ Cardinality(in.sigs) = Threshold

(* btcd's finalizer, external: it makes a witness of exactly the signatures *)
(* the script takes, and leaves a complete one alone.                       *)
FinalWitness(in) ==
  IF in.final # Absent THEN in.final
  ELSE IF /\ in.wutxo # NoUtxo
          /\ Cardinality(in.sigs) =
               (IF SpentKind(in, in.wutxo) = "wsh" THEN Threshold ELSE 1)
       THEN in.sigs ELSE Absent

(* Mutant of Executes: the witness is there, and that is enough. *)
WitnessIsThere(packet, i) == TRUE

(* How many signatures a coin takes, whatever anybody says of it.           *)
Takes(c) ==
  LET kind == IF Coin[c].kind = "sh" THEN Nested[c] ELSE Coin[c].kind
  IN IF kind = "wsh" THEN Threshold ELSE 1

(* The script runs: as many valid signatures as the coin takes, over this   *)
(* transaction and over what the coin is worth.                             *)
Executes(packet, i) ==
  LET coin == packet.tx.ins[i]
      witness == FinalWitness(packet.in[i])
  IN /\ PrevOut(packet, i) = Coin[coin]
     /\ Cardinality({s.key : s \in witness}) = Cardinality(witness)
     /\ Cardinality(witness) = Takes(coin)
     /\ \A s \in witness : s.val \in {"good", "good again"}

MayFinalize(packet) ==
  \A i \in Inputs(packet) : /\ CountIsRight(packet.in[i])
                            /\ FinalWitness(packet.in[i]) # Absent
                            /\ Executes(packet, i)

(* Mutant of View: the metadata from before finalizing, and no witness. *)
ViewBefore(packet) ==
  [packet EXCEPT !.in = [i \in Inputs(packet) |->
     [packet.in[i] EXCEPT !.sigs = {}]]]

(* viewOf: the metadata from before finalizing, the witnesses from after. *)
View(packet) ==
  [packet EXCEPT !.in = [i \in Inputs(packet) |->
     [packet.in[i] EXCEPT !.final = FinalWitness(packet.in[i]), !.sigs = {}]]]

(* estimateSpend: a witness that is there is measured, one that is not is    *)
(* bounded, and a bound (MaxSignature) is more than a signature measures.    *)
MaxSignature == 2

SpendSize(in, out) ==
  IF in.final # Absent THEN Cardinality(in.final)
  ELSE MaxSignature * (IF SpentKind(in, out) = "wsh" THEN Threshold ELSE 1)

EstimatedSize(view) ==
  Total([i \in Inputs(view) |-> SpendSize(view.in[i], PrevOut(view, i))])

(* vsize, of the transaction that was extracted *)
Vsize(packet) ==
  Total([i \in Inputs(packet) |-> Cardinality(FinalWitness(packet.in[i]))])

(* Nothing is published that the verifier refuses now that it is signed, or  *)
(* takes for a transaction of another size.                                  *)
Recheck(packet) ==
  /\ Problems(plan, View(packet)) = {}
  /\ EstimatedSize(View(packet)) = Vsize(packet)

----------------------------------------------------------------------------
(* The round *)

CInit ==
  /\ PInit
  /\ mode \in {"accept", "complete"}
  /\ acc = base /\ signers = {} /\ got = <<>> /\ final = base

StepsFourAndFive ==
  /\ Built \/ AssemblePlan \/ Verify
  /\ UNCHANGED <<mode, acc, signers, got, final>>

MergePart(d) ==
  /\ phase \in {"verified", "merging"}
  /\ d \notin {got[k].device : k \in DOMAIN got}
  /\ mode = "accept" => got = <<>>
  /\ \E part \in AnswersTo(base, d) :
       /\ got' = Append(got, [device |-> d, packet |-> part])
       /\ IF MayMerge(mode, acc, part)
          THEN /\ acc' = Merge(acc, part)
               /\ signers' = IF Contributes(acc, part) THEN signers \cup {d} ELSE signers
               /\ phase' = "merging"
          ELSE Refuse /\ UNCHANGED <<acc, signers>>
  /\ UNCHANGED <<plan, base, mode, final>>

(* SignedFromTX: a raw transaction lends its witnesses to the base's packet, *)
(* all of them or none.                                                      *)
Lifted(raw) ==
  [tx |-> raw.tx,
   in |-> [i \in Inputs(raw) |->
     [wutxo |-> NoUtxo, nutxo |-> "none", redeem |-> "none", wscript |-> "none",
      derivs |-> {}, sigs |-> {}, final |-> raw.in[i].final]],
   out |-> [i \in DOMAIN raw.tx.outs |-> {}]]

AcceptRaw(d) ==
  /\ phase = "verified" /\ mode = "accept"
  /\ \E raw \in AnswersTo(base, d) :
       /\ got' = Append(got, [device |-> d, packet |-> Lifted(raw)])
       /\ IF raw.tx = base.tx /\ \A i \in Inputs(raw) : raw.in[i].final # Absent
          THEN /\ acc' = Merge(acc, Lifted(raw)) /\ signers' = {d}
               /\ phase' = "merging"
          ELSE Refuse /\ UNCHANGED <<acc, signers>>
  /\ UNCHANGED <<plan, base, mode, final>>

(* Finalize and Recheck: nothing is published that fails either. *)
Finalize ==
  /\ phase = "merging"
  /\ IF signers # {} /\ MayFinalize(acc) /\ Recheck(acc)
     THEN phase' = "signed" /\ final' = View(acc)
     ELSE Refuse /\ UNCHANGED final
  /\ UNCHANGED <<plan, base, mode, acc, signers, got>>

(* The end, or a wait for a signer that may never answer. *)
CDone == phase \in {"verified", "signed", "refused"} /\ UNCHANGED cvars

CNext == \/ StepsFourAndFive \/ Finalize \/ CDone
         \/ \E d \in Devices : MergePart(d) \/ AcceptRaw(d)

CSpec == CInit /\ [][CNext]_cvars

----------------------------------------------------------------------------
TrueFee(tx) == Total([i \in DOMAIN tx.ins |-> Coin[tx.ins[i]].value])
               - Total([i \in DOMAIN tx.outs |-> tx.outs[i].value])

(***************************************************************************)
(* What is published is the transaction that was verified, with a witness  *)
(* each coin accepts, and it pays the fee the report says: whoever signed, *)
(* in whatever encoding, and whatever the packets say of the coins.        *)
(***************************************************************************)
SignedIsSound ==
  phase = "signed" =>
    /\ final.tx = base.tx
    /\ Accounted(plan, final)
    /\ \A i \in Inputs(final) :
         Cardinality({s \in final.in[i].final : s.val \in {"good", "good again"}})
           = Takes(final.tx.ins[i])
    /\ FeeSat(final) = TrueFee(final.tx)

(* The outcome of the packets in the order order gives them. *)
InOrder(order) ==
  FoldLeft(LAMBDA r, k :
             IF r.merged /\ MayMerge(mode, r.packet, got[k].packet)
             THEN [merged |-> TRUE, packet |-> Merge(r.packet, got[k].packet)]
             ELSE [merged |-> FALSE, packet |-> base],
           [merged |-> TRUE, packet |-> base], order)

(***************************************************************************)
(* The devices come back in any order: the order decides neither whether   *)
(* the round is refused nor what it is merged into.                        *)
(***************************************************************************)
OrderDoesNotMatter ==
  LET asTheyCame == [k \in DOMAIN got |-> k] IN
    \A order \in SetToSeqs(DOMAIN got) : InOrder(order) = InOrder(asTheyCame)

(* Everybody signed the verified transaction, said nothing of it that the   *)
(* base does not say, truly, and every coin has its signatures, once.       *)
FaithfulRound ==
  LET parts == {got[k].packet : k \in DOMAIN got}
      adds(part, i, f, none) == part.in[i][f] \notin {none, base.in[i][f]}
  IN
    /\ \A part \in parts :
         /\ part.tx = base.tx
         /\ \A i \in Inputs(base) :
              /\ ~adds(part, i, "wutxo", NoUtxo) /\ ~adds(part, i, "nutxo", "none")
              /\ ~adds(part, i, "redeem", "none") /\ ~adds(part, i, "wscript", "none")
              /\ part.in[i].derivs \subseteq base.in[i].derivs
         /\ \A i \in DOMAIN base.out : part.out[i] \subseteq base.out[i]
    /\ \A i \in Inputs(base) :
         LET coin == base.tx.ins[i] IN
           /\ PrevOut(base, i) = Coin[coin]
           /\ Coin[coin].kind = "sh" => base.in[i].redeem = Nested[coin]
    /\ \A i \in Inputs(base) :
         LET sigs == UNION {part.in[i].sigs : part \in parts}
             finals == {part.in[i].final : part \in parts} \ {Absent}
             proper(s) == /\ IsFiniteSet(s) /\ Cardinality(s) = Takes(base.tx.ins[i])
                          /\ OneEach(s) /\ \A x \in s : x.val = "good"
         IN \/ finals = {} /\ base.in[i].wutxo # NoUtxo /\ proper(sigs)
            \/ mode = "accept" /\ \E w \in finals : finals = {w} /\ proper(w)

(***************************************************************************)
(* A round in which everybody did what they were asked to is not refused.  *)
(* A batch refused here is torn down, n pending channels with it.          *)
(***************************************************************************)
FaithfulRoundIsSigned ==
  phase = "refused" /\ got # <<>> => ~FaithfulRound
=============================================================================
