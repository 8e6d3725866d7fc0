------------------------------- MODULE MCData -------------------------------
(***************************************************************************)
(* The program's two pieces of data, for TLC: the batch file as it becomes *)
(* policies, and the transaction as it is built, verified and signed.      *)
(* They share no state; a behaviour follows one of them.                   *)
(***************************************************************************)
EXTENDS Combine, BatchFile, TLC

(***************************************************************************)
(* Transactions of up to three outputs for two channels or one and a       *)
(* top-up, out of one input or two of which one may be any.                *)
(***************************************************************************)
Pay(s, a) == [script |-> s, amount |-> a]
Streams(channels, topUp, allowed) ==
  [channels |-> channels, topUp |-> topUp, allowed |-> allowed]

Signed == Streams(<<Pay("F1", 1)>>, {Pay("T", 1)}, {})

MCPlans == {
  Signed,
  Streams(<<Pay("F1", 1), Pay("F2", 2)>>, {}, {}),
  Streams(<<Pay("F1", 1)>>, {Pay("F1", 1)}, {}),
  Streams(<<Pay("F2", 2)>>, {}, {"c1", "c2"})}

MCCoin == [c1 |-> [value |-> 4, kind |-> "wsh"], c2 |-> [value |-> 2, kind |-> "tr"],
           c3 |-> [value |-> 5, kind |-> "pkh"], c4 |-> [value |-> 3, kind |-> "sh"],
           c5 |-> [value |-> 2, kind |-> "wpkh"]]

MCNested == [c4 |-> "wsh"]

Key(k, v) == [key |-> k, val |-> v]
Origins == {Key("k1", <<"A", 0>>), Key("k2", <<"B", 0>>)}

(* Where the keys of each script come from, in the packet's own words. *)
Origin(s) ==
  CASE s \in {"C", "D", "T"} -> {Key("k3", <<"A", 1>>), Key("k4", <<"B", 1>>)}
    [] s = "R" -> {Key("k5", <<"A", 0>>), Key("k6", <<"B", 0>>)}
    [] s = "H" -> {Key("k7", <<"A", 1>>)}
    [] OTHER -> {}

Amounts(s) == IF s \in {"F1", "T"} THEN {1, 2} ELSE IF s = "F2" THEN {2} ELSE {1}
Outs == UNION {{[script |-> s, value |-> v] : v \in Amounts(s)}
                 : s \in {"F1", "F2", "T", "C", "D", "R", "H", "S"}}

In(op, wutxo, nutxo, redeem, wscript, sigs) ==
  [op |-> op, rec |-> [wutxo |-> wutxo, nutxo |-> nutxo, redeem |-> redeem,
                       wscript |-> wscript, derivs |-> Origins, sigs |-> sigs,
                       final |-> {}]]

Good == In("c1", MCCoin["c1"], "none", "none", "multisig", {})
Ins == {
  Good,
  In("c2", MCCoin["c2"], "own", "none", "none", {}),
  In("c2", MCCoin["c2"], "none", "none", "leaf", {}),
  In("c3", MCCoin["c3"], "none", "none", "none", {}),
  In("c4", NoUtxo, "own", "wsh", "multisig", {}),
  In("c4", MCCoin["c4"], "none", "none", "multisig", {}),
  In("c2", NoUtxo, "other", "none", "none", {}),
  In("c2", NoUtxo, "none", "none", "none", {}),
  In("c1", MCCoin["c1"], "none", "none", "policy", {}),
  In("c1", MCCoin["c1"], "none", "none", "multisig", {Key("k1", "good")}),
  [Good EXCEPT !.rec.derivs = {}]}

Packet(ins, outs) ==
  [tx |-> [ins |-> [i \in DOMAIN ins |-> ins[i].op], outs |-> outs, rest |-> "built"],
   in |-> [i \in DOMAIN ins |-> ins[i].rec],
   out |-> [i \in DOMAIN outs |-> Origin(outs[i].script)]]

AnyBuild ==
  {Packet(ins, outs) :
     ins \in {<<>>} \cup {<<x>> : x \in Ins} \cup {<<Good, x>> : x \in Ins},
     outs \in BoundedSeq(Outs, 3)}

(***************************************************************************)
(* Rounds of signatures: three devices and one input, or two and two.  A   *)
(* device does anything from nothing to what it must not, on each input.   *)
(***************************************************************************)
Multisig == {Good, In("c1", NoUtxo, "own", "none", "multisig", {}),
             In("c1", [value |-> 5, kind |-> "wsh"], "none", "none", "multisig", {})}
Single == {In("c5", MCCoin["c5"], "own", "none", "none", {}),
           In("c5", NoUtxo, "own", "none", "none", {})}

SignedOuts == <<[script |-> "F1", value |-> 1], [script |-> "T", value |-> 1],
                [script |-> "C", value |-> 1]>>
OneInput == {Packet(<<a>>, SignedOuts) : a \in Multisig}
TwoInputs == {Packet(<<a, b>>, SignedOuts) : a \in Multisig, b \in Single}

MCBuilds == AnyBuild \cup OneInput \cup TwoInputs

(* A wallet at step 7 holds every key. *)
Witness(op, v) == IF op = "c1" THEN {Key("d1", v), Key("d2", v)} ELSE {Key("d1", v)}

Answers(rec, op, d) ==
  LET worth(n) == [MCCoin[op] EXCEPT !.value = @ + n] IN {
    rec,
    [rec EXCEPT !.sigs = {Key(d, "good")}],
    [rec EXCEPT !.sigs = {Key(d, "other tx")}],
    [rec EXCEPT !.sigs = {Key("d1", "good again")}],
    [rec EXCEPT !.final = Witness(op, "good"), !.wscript = "none", !.derivs = {}],
    [rec EXCEPT !.final = Witness(op, "other tx"), !.wscript = "none"],
    [rec EXCEPT !.sigs = {Key(d, "good")}, !.wutxo = worth(0)],
    [rec EXCEPT !.sigs = {Key(d, "good")}, !.wutxo = worth(1)],
    [rec EXCEPT !.final = Witness(op, "good"), !.wutxo = worth(1)],
    [rec EXCEPT !.sigs = {Key(d, "good")}, !.wscript = "policy"]}

AnswersOf(packet, d) ==
  LET ops == packet.tx.ins
      first == Answers(packet.in[1], ops[1], d)
      ins == IF Len(ops) = 1 THEN {<<a>> : a \in first}
             ELSE {<<a, b>> : a \in first, b \in Answers(packet.in[2], ops[2], d)}
  IN {[packet EXCEPT !.in = in] : in \in ins}
     \cup {[packet EXCEPT !.tx.rest = "moved"]}
     \cup {[packet EXCEPT !.out[3] = @ \cup {Key("k3", <<"A", 0>>)}]}

(* Nobody signs the transactions that only the verifier is tried on. *)
MCAnswersTo(packet, d) ==
  IF packet \in OneInput \/ (packet \in TwoInputs /\ d # "d3")
  THEN AnswersOf(packet, d) ELSE {}

(***************************************************************************)
(* Batch files, with the widths scaled down: uint32 is five bits, uint64   *)
(* eight, and LND takes deltas of 3 to 20.                                 *)
(***************************************************************************)
MCDefaults == [base |-> 4, rate |-> 1, delta |-> 5]

Table(n, d, vals) == [name |-> n, double |-> d, vals |-> vals]

(* Both sides of every bound, and what narrows to the inside of one. *)
Values == {-28, -1, 0, 1, 2, 3, 20, 21, 37}

(* At most one policy key. *)
Keyed(keys, values) ==
  {<<>>} \cup {k :> v : k \in keys, v \in values}

Open(peer, vals) ==
  Table("channel", TRUE, ("peer" :> peer) @@ ("amount" :> 1) @@ vals)

(* One value in the policy table and one in the channel's. *)
ValueFiles ==
  {<<Table("policy", FALSE, p), Open(1, v)>> :
     p \in Keyed(PolicyKeys, Values), v \in Keyed(PolicyKeys, Values)}

(* Tables in any order, of any name, twice over, with keys out of place. *)
Tables ==
  {Table(n, d, vals) :
     n \in {"policy", "polcy", "channel"}, d \in BOOLEAN,
     vals \in Keyed({"delta", "min", "timelock", "peer"}, {0, 6})}
    \cup {Open(peer, vals) :
            peer \in 0 .. 2, vals \in Keyed({"delta", "min", "timelock"}, {0, 6})}

TableFiles ==
  {<<a>> : a \in Tables} \cup {<<a, b>> : a, b \in Tables}
    \cup {<<a, Open(1, v), b>> : a, b \in Tables, v \in Keyed({"delta", "min"}, {6})}

MCFiles == ValueFiles \cup TableFiles

-----------------------------------------------------------------------------
VARIABLE part

vars == <<part, cvars, bvars>>

AFile == <<Open(1, <<>>)>>
APacket == Packet(<<Good>>, SignedOuts)

(* The part that a behaviour does not follow stays at one of its own       *)
(* initial states.                                                         *)
TransactionRest ==
  /\ phase = "plan" /\ mode = "accept"
  /\ plan = [channels |-> Signed.channels, topUp |-> {}, allowed |-> {},
             change |-> "C", fingerprints |-> {}]
  /\ base = APacket /\ acc = base /\ signers = {} /\ got = <<>> /\ final = base
FileRest == file = AFile /\ stage = "read" /\ batch = <<>> /\ requests = <<>>

Init ==
  \/ part = "transaction" /\ CInit /\ FileRest
  \/ part = "file" /\ BatchInit /\ TransactionRest

Next ==
  \/ part = "transaction" /\ CNext /\ UNCHANGED <<part, bvars>>
  \/ part = "file" /\ BatchNext /\ UNCHANGED <<part, cvars>>

Spec == Init /\ [][Next]_vars
=============================================================================
