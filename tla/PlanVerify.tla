----------------------------- MODULE PlanVerify -----------------------------
(***************************************************************************)
(* Steps 3 to 5 of the window as far as the transaction goes: the plan     *)
(* names outputs, a wallet builds a transaction the program did not        *)
(* choose, and the verifier (internal/plan) accounts for every output and  *)
(* every input of it before a channel hears of it.                         *)
(*                                                                         *)
(* A packet is the unsigned transaction (tx) with what the wallet says of  *)
(* its inputs (in) and of where the keys of its outputs come from (out).   *)
(* A key record pairs a key with what is said of it: val is a signature,   *)
(* or an origin <<master fingerprint, branch>>.  rest is all else that the *)
(* txid covers (version, sequences, locktime); the verifier ignores it.    *)
(***************************************************************************)

EXTENDS Integers, Sequences, FiniteSets, FiniteSetsExt, SequencesExt

CONSTANTS Coin,    \* the coins there are: what each is worth and its script
          Plans,   \* the batches whose streams are open
          Changes, \* what --change says: a script, or Unknown when not given
          Unknown,
          Builds   \* the packets a wallet may save at step 4

NoUtxo == [value |-> 0, kind |-> "none"]

(* Amounts are integers; an address given is a script like any other, and   *)
(* that none is given is not one.                                           *)
ASSUME PlanAssumption ==
  /\ \A c \in DOMAIN Coin : Coin[c].value \in Nat /\ Coin[c] # NoUtxo
  /\ \A p \in Plans :
       /\ p.channels \in Seq(ToSet(p.channels)) /\ IsFiniteSet(p.topUp)
       /\ \A n \in ToSet(p.channels) \cup p.topUp :
            n.amount \in Int /\ n.script # Unknown

(* A key stands once in a map of a packet. *)
OneEach(S) == \A x, y \in S : x.key = y.key => x = y

ASSUME BuildsAssumption ==
  \A b \in Builds :
    /\ b.tx.ins \in Seq(DOMAIN Coin) /\ b.tx.outs \in Seq(ToSet(b.tx.outs))
    /\ DOMAIN b.out = DOMAIN b.tx.outs
    /\ \A i \in DOMAIN b.tx.outs :
         /\ b.tx.outs[i].value \in Int /\ b.tx.outs[i].script # Unknown
         /\ OneEach(b.out[i])
    /\ \A i \in DOMAIN b.tx.ins :
         b.in[i].wutxo.value \in Int /\ OneEach(b.in[i].derivs)

VARIABLES phase,   \* "plan", "build", "check", "verified" or "refused"
          plan,    \* the plan the streams, the top-up and --change make
          base     \* the packet of step 4

pvars == <<phase, plan, base>>

----------------------------------------------------------------------------
(* What the plan names *)

(* A top-up may be larger than planned; LND takes a funding amount exactly. *)
NamedAs(kind, n, exact) ==
  [kind |-> kind, script |-> n.script, amount |-> n.amount, exact |-> exact]

Outputs(p) ==
  {NamedAs("funding", n, TRUE) : n \in ToSet(p.channels)}
    \cup {NamedAs("reserve", n, FALSE) : n \in p.topUp}
    \cup (IF p.change = Unknown THEN {}
          ELSE {NamedAs("change", [script |-> p.change, amount |-> 0], FALSE)})

(* No script twice, no amount below one satoshi, and some way to tell the   *)
(* change apart.                                                            *)
PlanIsUsable(p) ==
  LET n == Len(p.channels) + Cardinality(p.topUp)
             + (IF p.change = Unknown THEN 0 ELSE 1)
  IN /\ Len(p.channels) > 0
     /\ \A x \in Outputs(p) : x.kind # "change" => x.amount > 0
     /\ Cardinality({x.script : x \in Outputs(p)}) = n
     /\ p.change # Unknown \/ p.fingerprints # {}

(* RecogniseChangeIn: the wallet that is about to sign. *)
Fingerprints(packet) ==
  {d.val[1] : d \in UNION {packet.in[i].derivs : i \in DOMAIN packet.in}}

ChangeBranch == 1

(* Every key of the output is one of the wallet's on its change branch, and  *)
(* every key of the wallet is there.                                         *)
Matches(fingerprints, derivs) ==
  /\ derivs # {}
  /\ \A d \in derivs : d.val[1] \in fingerprints /\ d.val[2] = ChangeBranch
  /\ {d.val[1] : d \in derivs} = fingerprints

----------------------------------------------------------------------------
(* The inputs *)

(* A previous transaction that is not the input's own, or has no such       *)
(* output, says nothing of it.                                              *)
PrevOut(packet, i) ==
  LET in == packet.in[i] IN
    IF in.wutxo # NoUtxo THEN in.wutxo
    ELSE IF in.nutxo = "own" THEN Coin[packet.tx.ins[i]] ELSE NoUtxo

Inputs(packet) == DOMAIN packet.tx.ins

InputsKnown(packet) ==
  packet.tx.ins # <<>> /\ \A i \in Inputs(packet) : PrevOut(packet, i) # NoUtxo

IsSegwitSpend(kind, redeem) ==
  kind \in {"wpkh", "wsh", "tr"} \/ (kind = "sh" /\ redeem \in {"wpkh", "wsh"})

(* estimateSpend recognises the spends this tool supports, signed or not. *)
Sizable(in, kind) ==
  \/ in.final # {}
  \/ LET spent == IF kind = "sh" THEN in.redeem ELSE kind IN
       \/ spent = "wpkh"
       \/ spent = "wsh" /\ in.wscript = "multisig"
       \/ spent = "tr" /\ in.wscript # "leaf"

Total(f) == FoldFunction(+, 0, f)

InputSat(packet) == Total([i \in Inputs(packet) |-> PrevOut(packet, i).value])

OutputSat(packet) ==
  Total([i \in DOMAIN packet.tx.outs |-> packet.tx.outs[i].value])

----------------------------------------------------------------------------
(* The verifier: every problem is a refusal, and it reports all of them *)

InputProblems(p, packet) ==
  LET known(i) == PrevOut(packet, i) # NoUtxo
      problem(code, Bad(_)) == IF \E i \in Inputs(packet) : Bad(i) THEN {code} ELSE {}
  IN (IF packet.tx.ins = <<>> THEN {"NoInputs"} ELSE {})
     \cup problem("DuplicateInput", LAMBDA i :
            \E j \in Inputs(packet) : j < i /\ packet.tx.ins[j] = packet.tx.ins[i])
     \cup problem("NoUTXOInfo", LAMBDA i :
            packet.in[i].wutxo = NoUtxo /\ packet.in[i].nutxo = "none")
     \cup problem("MismatchedUTXO", LAMBDA i :
            packet.in[i].wutxo = NoUtxo /\ packet.in[i].nutxo \notin {"none", "own"})
     \cup problem("LegacyInput", LAMBDA i :
            known(i) /\ ~IsSegwitSpend(PrevOut(packet, i).kind, packet.in[i].redeem))
     \cup problem("InputNotAllowed", LAMBDA i :
            p.allowed # {} /\ packet.tx.ins[i] \notin p.allowed)

Paying(packet, script) ==
  {i \in DOMAIN packet.tx.outs : packet.tx.outs[i].script = script}

Recognised(p, packet, i) ==
  /\ p.change = Unknown
  /\ packet.tx.outs[i].script \notin {n.script : n \in Outputs(p)}
  /\ Matches(p.fingerprints, packet.out[i])

Unnamed(p, packet) ==
  {i \in DOMAIN packet.tx.outs :
     /\ packet.tx.outs[i].script \notin {n.script : n \in Outputs(p)}
     /\ ~Recognised(p, packet, i)}

ChangeOutputs(p, packet) ==
  {i \in DOMAIN packet.tx.outs :
     packet.tx.outs[i].script = p.change \/ Recognised(p, packet, i)}

(* Mutant of PaidTwice: psbt_verify sets a flag and does not count. *)
FoundFlag(paying) == FALSE

PaidTwice(paying) == Cardinality(paying) > 1

OutputProblems(p, packet) ==
  (IF Unnamed(p, packet) # {} THEN {"UnnamedOutput"} ELSE {})
  \cup (UNION {
    LET paying == Paying(packet, n.script)
        wrong(i) == IF n.exact THEN packet.tx.outs[i].value # n.amount
                    ELSE n.amount > 0 /\ packet.tx.outs[i].value < n.amount
    IN (IF \E i \in paying : wrong(i) THEN {"WrongAmount"} ELSE {})
       \cup (IF paying = {} /\ n.kind # "change" THEN {"MissingOutput"} ELSE {})
       \cup (IF PaidTwice(paying) THEN {"DuplicateOutput"} ELSE {})
    : n \in Outputs(p)})
  \cup (IF Cardinality(ChangeOutputs(p, packet)) > 1 THEN {"ChangeAmbiguous"} ELSE {})

(* There is no fee to judge unless every input says what it spends. *)
FeeProblems(packet) ==
  IF ~InputsKnown(packet) THEN {}
  ELSE IF InputSat(packet) > 0 /\ InputSat(packet) <= OutputSat(packet) THEN {"NoFee"}
  ELSE IF \E i \in Inputs(packet) : ~Sizable(packet.in[i], PrevOut(packet, i).kind)
       THEN {"Unsizable"} ELSE {}

Problems(p, packet) ==
  InputProblems(p, packet) \cup OutputProblems(p, packet) \cup FeeProblems(packet)

----------------------------------------------------------------------------
(* Steps 4 and 5 *)

(* Mutant of IsSigned: only a complete witness is a signature. *)
IsComplete(in) == in.final # {}

IsSigned(in) == in.final # {} \/ in.sigs # {}

(* The streams are open: the plan's channels and its top-up are settled. *)
PInit ==
  /\ phase = "plan"
  /\ \E p \in Plans, c \in Changes :
       plan = [channels |-> p.channels, topUp |-> p.topUp, allowed |-> p.allowed,
               change |-> c, fingerprints |-> {}]
  /\ base \in Builds

Refuse == phase' = "refused"

(* Built: a packet that carries a signature is refused (I-1). *)
Built ==
  /\ phase = "plan"
  /\ IF \E i \in Inputs(base) : IsSigned(base.in[i])
     THEN Refuse ELSE phase' = "build"
  /\ UNCHANGED <<plan, base>>

(* changeIn, and Streams.Plan, which validates what it has put together. *)
AssemblePlan ==
  /\ phase = "build"
  /\ LET p == IF plan.change # Unknown THEN plan
              ELSE [plan EXCEPT !.fingerprints = Fingerprints(base)]
     IN IF PlanIsUsable(p) THEN plan' = p /\ phase' = "check"
        ELSE Refuse /\ UNCHANGED plan
  /\ UNCHANGED base

Verify ==
  /\ phase = "check"
  /\ phase' = IF Problems(plan, base) = {} THEN "verified" ELSE "refused"
  /\ UNCHANGED <<plan, base>>

PDone == phase \in {"verified", "refused"} /\ UNCHANGED pvars

PNext == Built \/ AssemblePlan \/ Verify \/ PDone

PSpec == PInit /\ [][PNext]_pvars

----------------------------------------------------------------------------
(* What the check is for, said without a verifier *)

(* Output i is the one that pays what n asks for. *)
Pays(packet, i, n) ==
  /\ packet.tx.outs[i].script = n.script
  /\ IF n.exact THEN packet.tx.outs[i].value = n.amount
     ELSE packet.tx.outs[i].value >= n.amount

(* The wallet's change: the script given, or nothing the plan names and all *)
(* its own keys.                                                            *)
Change(p, packet, i) ==
  IF p.change # Unknown THEN packet.tx.outs[i].script = p.change
  ELSE /\ packet.tx.outs[i].script \notin {n.script : n \in Outputs(p)}
       /\ Matches(p.fingerprints, packet.out[i])

(* Leaving out one output at most, and that one the change, the outputs are *)
(* the plan's, one for one.                                                 *)
Accounted(p, packet) ==
  LET owed == {n \in Outputs(p) : n.kind # "change"}
      outs == DOMAIN packet.tx.outs
  IN \E change \in {{}} \cup {{i} : i \in {j \in outs : Change(p, packet, j)}} :
       /\ Cardinality(outs \ change) = Cardinality(owed)
       /\ \A n \in owed : \E i \in outs \ change : Pays(packet, i, n)

SpendsWitnessCoins(p, packet) ==
  /\ packet.tx.ins # <<>>
  /\ Cardinality(ToSet(packet.tx.ins)) = Len(packet.tx.ins)
  /\ p.allowed = {} \/ ToSet(packet.tx.ins) \subseteq p.allowed
  /\ \A i \in Inputs(packet) :
       LET out == PrevOut(packet, i) IN
         /\ IsSegwitSpend(out.kind, packet.in[i].redeem)
         /\ Sizable(packet.in[i], out.kind)

FeeSat(packet) == InputSat(packet) - OutputSat(packet)

(***************************************************************************)
(* The verifier lets through exactly the transactions that pay every named *)
(* output once, at its amount, and nobody else but the change, out of      *)
(* distinct witness coins, for a fee: what n psbt_verify calls together do *)
(* not establish.  Both ways: an honest transaction is never sent back.    *)
(***************************************************************************)
VerifierIsExact ==
  phase = "check" /\ InputSat(base) > 0 =>
    (Problems(plan, base) = {} <=>
       /\ Accounted(plan, base)
       /\ SpendsWitnessCoins(plan, base)
       /\ FeeSat(base) > 0)

(***************************************************************************)
(* Nothing that anybody could broadcast goes on to psbt_verify: before the *)
(* gate a signature on the transaction costs the batch (I-1), and what     *)
(* goes on pays no stranger.                                               *)
(***************************************************************************)
NothingSignedIsVerified ==
  phase = "verified" =>
    /\ \A i \in Inputs(base) : base.in[i].final = {} /\ base.in[i].sigs = {}
    /\ \A i \in DOMAIN base.tx.outs :
         \/ Change(plan, base, i)
         \/ \E n \in Outputs(plan) : Pays(base, i, n)
=============================================================================
