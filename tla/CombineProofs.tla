---------------------------- MODULE CombineProofs ----------------------------
(***************************************************************************)
(* Proofs about the transaction: what the verifier passes, what is put     *)
(* together out of what the signers send, and what is published, for every *)
(* plan, packet, set of devices and threshold, whatever the devices        *)
(* answer.                                                                 *)
(*                                                                         *)
(* The verifier counts and compares script by script; what it is for says  *)
(* that outputs and plan are the same, one for one.  The two meet in a map *)
(* between outputs and what they pay, which the counts make one to one and *)
(* onto (PaidInFull, FullIsNoProblem).                                     *)
(*                                                                         *)
(* The merge is a fold in the order the devices come back in; Outcome says *)
(* where it arrives with no word on order, and both the independence of    *)
(* the order and the fate of a faithful round are read off it.             *)
(*                                                                         *)
(* A fold is a recursion the provers know nothing of.  What it computes is *)
(* shown by the least number for which it would not be so (LeastNumber).   *)
(***************************************************************************)
EXTENDS Combine, FiniteSetTheorems, WellFoundedInduction, TLAPS

----------------------------------------------------------------------------
(* Sums *)

(* A set of numbers that is not empty has a least member: induction, in    *)
(* the form these proofs use it.                                           *)
LEMMA LeastNumber ==
  ASSUME NEW S, S \subseteq Nat, S # {}
  PROVE  \E x \in S : \A y \in S : x <= y
<1>1. PICK x \in S : \A y \in S : <<y, x>> \notin OpToRel(<, Nat)
  BY NatLessThanWellFounded, WFMin
<1>2. ASSUME NEW y \in S PROVE x <= y
  <2>1. SUFFICES ASSUME ~(x <= y) PROVE FALSE
    OBVIOUS
  <2>2. x \in Nat /\ y \in Nat /\ y < x
    BY <2>1
  <2>3. <<y, x>> \in OpToRel(<, Nat)
    BY <2>2 DEF OpToRel
  <2> QED
    BY <1>1, <2>3
<1> QED
  BY <1>2

(* A sum is a fold over the subsets of the domain. These say what the fold *)
(* is on one of them, and on the small ones.                               *)
Some(s) == CHOOSE x \in s : TRUE

SumOf(f, g, s) == IF s = {} THEN 0 ELSE f[Some(s)] + g[s \ {Some(s)}]

UpTo(f, n) == {s \in SUBSET DOMAIN f : Cardinality(s) <= n}

(* What is left of a set when the fold has taken one member out.           *)
LEMMA OneLess ==
  ASSUME NEW f, IsFiniteSet(DOMAIN f), NEW s \in SUBSET DOMAIN f, s # {}
  PROVE  /\ Some(s) \in DOMAIN f
         /\ s \ {Some(s)} \in SUBSET DOMAIN f
         /\ Cardinality(s) \in Nat \ {0}
         /\ Cardinality(s \ {Some(s)}) = Cardinality(s) - 1
<1>1. Some(s) \in s
  BY DEF Some
<1>2. IsFiniteSet(s)
  BY FS_Subset
<1>3. Cardinality(s) \in Nat /\ Cardinality(s) # 0
  BY <1>2, FS_CardinalityType, FS_EmptySet
<1> QED
  BY <1>1, <1>2, <1>3, FS_RemoveElement

(* The fold is well defined: were there a size of subset on which it is    *)
(* not, there would be a least one.                                        *)
LEMMA SumsExist ==
  ASSUME NEW f, IsFiniteSet(DOMAIN f)
  PROVE  \E g : g = [s \in SUBSET DOMAIN f |-> SumOf(f, g, s)]
<1> DEFINE Is(g, n) == g = [s \in UpTo(f, n) |-> SumOf(f, g, s)]
           bad == {n \in Nat : ~\E g : Is(g, n)}
<1>0. \A s \in SUBSET DOMAIN f : IsFiniteSet(s) /\ Cardinality(s) \in Nat
  BY FS_Subset, FS_CardinalityType
<1>1. bad = {}
  <2>1. SUFFICES ASSUME bad # {} PROVE FALSE
    OBVIOUS
  <2>2. PICK n \in bad : \A m \in bad : n <= m
    BY <2>1, LeastNumber
  <2>3. CASE n = 0
    <3> DEFINE g == [s \in UpTo(f, 0) |-> 0]
    <3>1. \A s \in UpTo(f, 0) : s = {}
      BY <1>0, FS_EmptySet DEF UpTo
    <3>2. Is(g, 0)
      BY <3>1 DEF SumOf
    <3> QED
      BY <2>2, <2>3, <3>2
  <2>4. CASE n # 0
    <3>1. n - 1 \in Nat /\ n - 1 \notin bad
      BY <2>2, <2>4
    <3>2. PICK g : Is(g, n - 1)
      BY <3>1
    <3> DEFINE h == [s \in UpTo(f, n) |-> SumOf(f, g, s)]
    <3>3. ASSUME NEW s \in UpTo(f, n) PROVE SumOf(f, g, s) = SumOf(f, h, s)
      <4>1. CASE s = {}
        BY <4>1 DEF SumOf
      <4>2. CASE s # {}
        <5> DEFINE t == s \ {Some(s)}
        <5>1. t \in UpTo(f, n - 1) /\ t \in UpTo(f, n)
          BY <2>2, <3>1, <4>2, OneLess DEF UpTo
        <5>2. g[t] = SumOf(f, g, t) /\ h[t] = SumOf(f, g, t)
          BY <3>2, <5>1
        <5> QED
          BY <4>2, <5>2 DEF SumOf
      <4> QED
        BY <4>1, <4>2
    <3>4. Is(h, n)
      <4> HIDE DEF h
      <4>1. h = [s \in UpTo(f, n) |-> SumOf(f, g, s)]
        BY DEF h
      <4> QED
        BY <3>3, <4>1
    <3> QED
      BY <2>2, <3>4
  <2> QED
    BY <2>3, <2>4
<1>2. Cardinality(DOMAIN f) \in Nat
  BY FS_CardinalityType
<1>3. UpTo(f, Cardinality(DOMAIN f)) = SUBSET DOMAIN f
  BY FS_Subset DEF UpTo
<1>4. PICK g : Is(g, Cardinality(DOMAIN f))
  BY <1>1, <1>2
<1> QED
  BY <1>3, <1>4

(* The amounts of a finite list of coins or outputs add up to an integer.  *)
LEMMA TotalIsInt ==
  ASSUME NEW f, IsFiniteSet(DOMAIN f), \A x \in DOMAIN f : f[x] \in Int
  PROVE  Total(f) \in Int
<1> DEFINE g == CHOOSE g : g = [s \in SUBSET DOMAIN f |-> SumOf(f, g, s)]
           bad == {n \in Nat : \E s \in SUBSET DOMAIN f : Cardinality(s) = n /\ g[s] \notin Int}
<1>1. g = [s \in SUBSET DOMAIN f |-> SumOf(f, g, s)]
  BY SumsExist
<1>2. Total(f) = g[DOMAIN f]
  BY Zenon DEF Total, FoldFunction, FoldFunctionOnSet, MapThenFoldSet, Some, SumOf
<1> HIDE DEF g
<1>3. bad = {}
  <2>1. SUFFICES ASSUME bad # {} PROVE FALSE
    OBVIOUS
  <2>2. PICK n \in bad : \A m \in bad : n <= m
    BY <2>1, LeastNumber
  <2>3. PICK s \in SUBSET DOMAIN f : Cardinality(s) = n /\ g[s] \notin Int
    BY <2>2
  <2>4. g[s] = SumOf(f, g, s)
    BY <1>1
  <2>5. s # {}
    BY <2>3, <2>4 DEF SumOf
  <2>6. /\ Some(s) \in DOMAIN f
        /\ s \ {Some(s)} \in SUBSET DOMAIN f
        /\ n - 1 \in Nat
        /\ Cardinality(s \ {Some(s)}) = n - 1
    BY <2>3, <2>5, OneLess
  <2>7. n - 1 \notin bad
    BY <2>2, <2>6
  <2>8. g[s \ {Some(s)}] \in Int
    BY <2>6, <2>7
  <2> QED
    BY <2>3, <2>4, <2>5, <2>6, <2>8 DEF SumOf
<1>4. Cardinality(DOMAIN f) \in Nat
  BY FS_CardinalityType
<1> QED
  BY <1>2, <1>3, <1>4

----------------------------------------------------------------------------
(* The outputs *)

(* What it is for checkInputs to find nothing.                             *)
LEMMA NoInputProblems ==
  ASSUME NEW p, NEW packet
  PROVE  InputProblems(p, packet) = {} <=>
    /\ packet.tx.ins # <<>>
    /\ ~(\E i \in Inputs(packet) : \E j \in Inputs(packet) :
            j < i /\ packet.tx.ins[j] = packet.tx.ins[i])
    /\ ~(\E i \in Inputs(packet) :
            packet.in[i].wutxo = NoUtxo /\ packet.in[i].nutxo = "none")
    /\ ~(\E i \in Inputs(packet) :
            packet.in[i].wutxo = NoUtxo /\ packet.in[i].nutxo \notin {"none", "own"})
    /\ ~(\E i \in Inputs(packet) :
            /\ PrevOut(packet, i) # NoUtxo
            /\ ~IsSegwitSpend(PrevOut(packet, i).kind, packet.in[i].redeem))
    /\ ~(\E i \in Inputs(packet) : p.allowed # {} /\ packet.tx.ins[i] \notin p.allowed)
  BY SMTT(30) DEF InputProblems

(* What the proofs need to know of the outputs of a transaction, of a plan *)
(* and of the inputs.                                                      *)
OutsTyped(packet) ==
  /\ packet.tx.outs \in Seq(ToSet(packet.tx.outs))
  /\ \A i \in DOMAIN packet.tx.outs :
       packet.tx.outs[i].value \in Int /\ packet.tx.outs[i].script # Unknown

PlanTyped(p) ==
  /\ p = [channels |-> p.channels, topUp |-> p.topUp, allowed |-> p.allowed,
          change |-> p.change, fingerprints |-> p.fingerprints]
  /\ p.channels \in Seq(ToSet(p.channels)) /\ IsFiniteSet(p.topUp)
  /\ \A n \in ToSet(p.channels) \cup p.topUp :
       n.amount \in Int /\ n.script # Unknown

(* A finite set that does not have more than one member has at most one.   *)
LEMMA AtMostOne ==
  ASSUME NEW S, IsFiniteSet(S)
  PROVE  ~(Cardinality(S) > 1) <=> \A x, y \in S : x = y
<1>1. Cardinality(S) \in Nat
  BY FS_CardinalityType
<1>2. ASSUME Cardinality(S) <= 1, NEW x \in S, NEW y \in S PROVE x = y
  <2>1. Cardinality(S) = 0 \/ Cardinality(S) = 1
    BY <1>1, <1>2
  <2> QED
    BY <1>2, <2>1, FS_EmptySet, FS_Singleton
<1>3. ASSUME \A x, y \in S : x = y PROVE Cardinality(S) <= 1
  <2>1. CASE S = {}
    BY <2>1, FS_EmptySet
  <2>2. CASE S # {}
    <3>1. PICK x \in S : TRUE
      BY <2>2
    <3>2. S = {x}
      BY <1>3, <3>1
    <3> QED
      BY <3>2, FS_Singleton
  <2> QED
    BY <2>1, <2>2
<1> QED
  BY <1>1, <1>2, <1>3

(* What it is for checkOutputs to find nothing.                            *)
LEMMA NoOutputProblems ==
  ASSUME NEW p, NEW packet
  PROVE  OutputProblems(p, packet) = {} <=>
    /\ Unnamed(p, packet) = {}
    /\ \A n \in Outputs(p) :
         LET paying == Paying(packet, n.script) IN
           /\ \A i \in paying : ~(IF n.exact THEN packet.tx.outs[i].value # n.amount
                      ELSE n.amount > 0 /\ packet.tx.outs[i].value < n.amount)
           /\ ~(paying = {} /\ n.kind # "change")
           /\ ~PaidTwice(paying)
    /\ ~(Cardinality(ChangeOutputs(p, packet)) > 1)
  BY SMTT(30) DEF OutputProblems

(* What the outputs a plan names are.                                      *)
LEMMA NamedOutputs ==
  ASSUME NEW p, PlanTyped(p)
  PROVE  \A n \in Outputs(p) :
           /\ n.script # Unknown
           /\ n.amount \in Int
           /\ n.exact \in BOOLEAN
           /\ n.kind = "change" => n.script = p.change /\ n.amount = 0 /\ ~n.exact
<1> SUFFICES ASSUME NEW n \in Outputs(p)
             PROVE  /\ n.script # Unknown
                    /\ n.amount \in Int
                    /\ n.exact \in BOOLEAN
                    /\ n.kind = "change" => n.script = p.change /\ n.amount = 0 /\ ~n.exact
  OBVIOUS
<1>1. CASE \E m \in ToSet(p.channels) : n = NamedAs("funding", m, TRUE)
  BY <1>1 DEF NamedAs, PlanTyped
<1>2. CASE \E m \in p.topUp : n = NamedAs("reserve", m, FALSE)
  BY <1>2 DEF NamedAs, PlanTyped
<1>3. CASE p.change # Unknown /\ n = NamedAs("change", [script |-> p.change, amount |-> 0], FALSE)
  BY <1>3 DEF NamedAs
<1> QED
  BY <1>1, <1>2, <1>3 DEF Outputs

(* Validate counts scripts and looks at no pair of outputs: as many        *)
(* scripts as outputs leave no two outputs with one script.                *)
LEMMA NamedOnce ==
  ASSUME NEW p, PlanTyped(p), PlanIsUsable(p)
  PROVE  /\ IsFiniteSet(Outputs(p))
         /\ \A x, y \in Outputs(p) : x.script = y.script => x = y
<1> DEFINE C == p.channels
           c == [i \in 1 .. Len(C) |-> NamedAs("funding", C[i], TRUE)]
           t == [n \in p.topUp |-> NamedAs("reserve", n, FALSE)]
           funding == {NamedAs("funding", n, TRUE) : n \in ToSet(C)}
           reserve == {NamedAs("reserve", n, FALSE) : n \in p.topUp}
           change == IF p.change = Unknown THEN {}
                     ELSE {NamedAs("change", [script |-> p.change, amount |-> 0], FALSE)}
           scripts == {x.script : x \in Outputs(p)}
           script == [x \in Outputs(p) |-> x.script]
<1>1. Outputs(p) = (funding \cup reserve) \cup change
  BY DEF Outputs
<1>2. Len(C) \in Nat /\ DOMAIN C = 1 .. Len(C) /\ ToSet(C) = {C[i] : i \in 1 .. Len(C)}
  BY DEF PlanTyped, ToSet
<1>3. IsFiniteSet(funding) /\ Cardinality(funding) <= Len(C) /\ Cardinality(funding) \in Nat
  <2>1. c \in Surjection(1 .. Len(C), funding)
    BY <1>2 DEF Surjection
  <2>2. IsFiniteSet(1 .. Len(C)) /\ Cardinality(1 .. Len(C)) = Len(C)
    BY <1>2, FS_Interval
  <2> QED
    BY <2>1, <2>2, FS_Surjection, FS_CardinalityType
<1>4. /\ IsFiniteSet(reserve) /\ Cardinality(reserve) <= Cardinality(p.topUp)
      /\ Cardinality(reserve) \in Nat /\ Cardinality(p.topUp) \in Nat
  <2>1. t \in Surjection(p.topUp, reserve)
    BY DEF Surjection
  <2> QED
    BY <2>1, FS_Surjection, FS_CardinalityType DEF PlanTyped
<1>5. IsFiniteSet(change) /\ Cardinality(change) = IF p.change = Unknown THEN 0 ELSE 1
  BY FS_EmptySet, FS_Singleton
<1> HIDE DEF funding, reserve, change
<1>6. \A S, T : IsFiniteSet(S) /\ IsFiniteSet(T) =>
                 /\ IsFiniteSet(S \cup T)
                 /\ Cardinality(S \cup T) <= Cardinality(S) + Cardinality(T)
  <2> SUFFICES ASSUME NEW S, NEW T, IsFiniteSet(S), IsFiniteSet(T)
               PROVE  /\ IsFiniteSet(S \cup T)
                      /\ Cardinality(S \cup T) <= Cardinality(S) + Cardinality(T)
    OBVIOUS
  <2>1. /\ IsFiniteSet(S \cup T) /\ IsFiniteSet(S \cap T)
        /\ Cardinality(S \cup T) = Cardinality(S) + Cardinality(T) - Cardinality(S \cap T)
    BY FS_Union, FS_Intersection
  <2>2. Cardinality(S) \in Nat /\ Cardinality(T) \in Nat /\ Cardinality(S \cap T) \in Nat
    BY <2>1, FS_CardinalityType
  <2> QED
    BY <2>1, <2>2
<1>7. /\ IsFiniteSet(Outputs(p))
      /\ Cardinality(Outputs(p)) <= Len(C) + Cardinality(p.topUp)
                                    + (IF p.change = Unknown THEN 0 ELSE 1)
  <2>1. /\ IsFiniteSet(funding \cup reserve)
        /\ Cardinality(funding \cup reserve) <= Cardinality(funding) + Cardinality(reserve)
    BY <1>3, <1>4, <1>6
  <2>2. /\ IsFiniteSet(Outputs(p))
        /\ Cardinality(Outputs(p)) <= Cardinality(funding \cup reserve) + Cardinality(change)
    BY <1>1, <1>5, <1>6, <2>1
  <2>3. Cardinality(funding \cup reserve) \in Nat /\ Cardinality(Outputs(p)) \in Nat
    BY <2>1, <2>2, FS_CardinalityType
  <2> QED
    BY <1>2, <1>3, <1>4, <1>5, <2>1, <2>2, <2>3
<1>8. Cardinality(scripts) = Len(C) + Cardinality(p.topUp)
                             + (IF p.change = Unknown THEN 0 ELSE 1)
  BY DEF PlanIsUsable
<1>9. script \in Surjection(Outputs(p), scripts)
  BY DEF Surjection
<1>10. /\ Cardinality(scripts) <= Cardinality(Outputs(p))
       /\ Cardinality(scripts) = Cardinality(Outputs(p))
            <=> script \in Injection(Outputs(p), scripts)
       /\ Cardinality(Outputs(p)) \in Nat
  BY <1>7, <1>9, FS_Surjection, FS_CardinalityType
<1> HIDE DEF scripts, script
<1>11. script \in Injection(Outputs(p), scripts)
  BY <1>2, <1>4, <1>7, <1>8, <1>10
<1> USE DEF script
<1> QED
  BY <1>7, <1>11 DEF Injection, IsInjective

(* Where checkOutputs finds nothing, the outputs are the plan's one for    *)
(* one, the change aside. Each output that is not the change is matched    *)
(* with what the plan names for its script; the match is one to one        *)
(* because nothing is paid twice, and onto because nothing is missing.     *)
LEMMA PaidInFull ==
  ASSUME NEW p, PlanTyped(p), PlanIsUsable(p), NEW packet, OutsTyped(packet),
         OutputProblems(p, packet) = {}
  PROVE  Accounted(p, packet)
<1> DEFINE out(i) == packet.tx.outs[i]
           outs == DOMAIN packet.tx.outs
           change == ChangeOutputs(p, packet)
           rest == outs \ change
           owed == {n \in Outputs(p) : n.kind # "change"}
           payee == [i \in rest |-> CHOOSE n \in owed : n.script = out(i).script]
<1>1. /\ Unnamed(p, packet) = {}
      /\ \A n \in Outputs(p) :
           /\ \A i \in Paying(packet, n.script) :
                ~(IF n.exact THEN out(i).value # n.amount
                  ELSE n.amount > 0 /\ out(i).value < n.amount)
           /\ n.kind # "change" => Paying(packet, n.script) # {}
           /\ ~PaidTwice(Paying(packet, n.script))
      /\ ~(Cardinality(change) > 1)
  BY NoOutputProblems
<1>2. outs = 1 .. Len(packet.tx.outs) /\ IsFiniteSet(outs)
  BY FS_Interval DEF OutsTyped
<1>3. /\ \A S \in SUBSET outs : IsFiniteSet(S)
      /\ change \in SUBSET outs
      /\ \A n : Paying(packet, n.script) \in SUBSET outs
  BY <1>2, FS_Subset DEF ChangeOutputs, Paying
<1>4. /\ \A x, y \in change : x = y
      /\ \A n \in Outputs(p) : \A x, y \in Paying(packet, n.script) : x = y
  BY <1>1, <1>3, AtMostOne DEF PaidTwice
<1>5. \A i \in change : Change(p, packet, i)
  BY DEF ChangeOutputs, Change, Recognised, OutsTyped
<1>6. ASSUME NEW i \in rest
      PROVE  \E n \in owed : n.script = out(i).script
  <2>1. PICK n \in Outputs(p) : n.script = out(i).script
    BY <1>1, <1>6 DEF Unnamed, ChangeOutputs
  <2>2. n.kind # "change"
    BY <1>6, <2>1, NamedOutputs DEF ChangeOutputs
  <2> QED
    BY <2>1, <2>2
<1>7. ASSUME NEW i \in outs, NEW n \in owed, n.script = out(i).script
      PROVE  i \in rest
  <2>1. ASSUME out(i).script = p.change PROVE FALSE
    <3>1. p.change # Unknown
      BY <1>7, <2>1 DEF OutsTyped
    <3> DEFINE c == NamedAs("change", [script |-> p.change, amount |-> 0], FALSE)
    <3>2. c \in Outputs(p)
      BY <3>1 DEF Outputs
    <3>3. c.script = p.change /\ c.kind = "change"
      BY DEF NamedAs
    <3>4. c = n
      BY <1>7, <2>1, <3>2, <3>3, NamedOnce
    <3> QED
      BY <1>7, <3>3, <3>4
  <2>2. ~Recognised(p, packet, i)
    BY <1>7 DEF Recognised
  <2> QED
    BY <2>1, <2>2 DEF ChangeOutputs
<1>8. payee \in [rest -> owed] /\ \A i \in rest : payee[i].script = out(i).script
  BY <1>6
<1> HIDE DEF payee
<1>9. payee \in Injection(rest, owed)
  BY <1>4, <1>8 DEF Injection, IsInjective, Paying
<1>10. ASSUME NEW n \in owed
       PROVE  \E i \in rest : payee[i] = n /\ Pays(packet, i, n)
  <2>1. PICK i \in Paying(packet, n.script) : TRUE
    BY <1>1, <1>10
  <2>2. i \in outs /\ out(i).script = n.script
    BY <2>1 DEF Paying
  <2>3. i \in rest
    BY <1>7, <1>10, <2>2
  <2>4. payee[i] = n
    BY <1>8, <1>10, <2>2, <2>3, NamedOnce
  <2>5. ~(IF n.exact THEN out(i).value # n.amount
          ELSE n.amount > 0 /\ out(i).value < n.amount)
    BY <1>1, <1>10, <2>1
  <2>6. n.amount > 0 /\ n.amount \in Int /\ out(i).value \in Int
    BY <1>10, <2>2, NamedOutputs DEF PlanIsUsable, OutsTyped
  <2> QED
    BY <2>2, <2>3, <2>4, <2>5, <2>6 DEF Pays
<1>11. payee \in Surjection(rest, owed)
  BY <1>8, <1>10 DEF Surjection
<1>12. Cardinality(rest) = Cardinality(owed)
  BY <1>3, <1>9, <1>11, FS_Surjection
<1>13. change \in {{}} \cup {{i} : i \in {j \in outs : Change(p, packet, j)}}
  <2>1. CASE change # {}
    <3>1. PICK i \in change : TRUE
      BY <2>1
    <3>2. change = {i}
      BY <1>4, <3>1
    <3> QED
      BY <1>3, <1>5, <3>1, <3>2
  <2> QED
    BY <2>1
<1> HIDE DEF change
<1> QED
  BY <1>10, <1>12, <1>13 DEF Accounted

(* The other way round: what pays the plan one for one is not sent back.   *)
(* The match from what is owed to what pays it is one to one, hence onto,  *)
(* by the count; so no output is left that checkOutputs could object to.   *)
LEMMA FullIsNoProblem ==
  ASSUME NEW p, PlanTyped(p), PlanIsUsable(p), NEW packet, OutsTyped(packet),
         Accounted(p, packet)
  PROVE  OutputProblems(p, packet) = {}
<1> DEFINE out(i) == packet.tx.outs[i]
           outs == DOMAIN packet.tx.outs
           owed == {n \in Outputs(p) : n.kind # "change"}
<1>1. PICK change \in {{}} \cup {{i} : i \in {j \in outs : Change(p, packet, j)}} :
        /\ Cardinality(outs \ change) = Cardinality(owed)
        /\ \A n \in owed : \E i \in outs \ change : Pays(packet, i, n)
  BY DEF Accounted
<1> DEFINE rest == outs \ change
           payer == [n \in owed |-> CHOOSE i \in rest : Pays(packet, i, n)]
<1>2. /\ \A x, y \in change : x = y
      /\ \A i \in change : i \in outs /\ Change(p, packet, i)
  BY <1>1
<1>3. outs = 1 .. Len(packet.tx.outs) /\ IsFiniteSet(outs)
  BY FS_Interval DEF OutsTyped
<1>4. \A S \in SUBSET outs : IsFiniteSet(S)
  BY <1>3, FS_Subset
<1>5. payer \in [owed -> rest] /\ \A n \in owed : Pays(packet, payer[n], n)
  BY <1>1
<1> HIDE DEF payer
<1>6. payer \in Injection(owed, rest)
  BY <1>5, NamedOnce DEF Injection, IsInjective, Pays
<1>7. payer \in Surjection(owed, rest)
  BY <1>1, <1>4, <1>6, FS_Injection
<1>8. \A i \in rest : \E n \in owed : payer[n] = i /\ n.script = out(i).script
  BY <1>5, <1>7 DEF Surjection, Pays
<1>9. ASSUME p.change # Unknown
      PROVE  /\ NamedAs("change", [script |-> p.change, amount |-> 0], FALSE) \in Outputs(p)
             /\ \A n \in owed : n.script # p.change
  <2> DEFINE c == NamedAs("change", [script |-> p.change, amount |-> 0], FALSE)
  <2>1. c \in Outputs(p) /\ c.script = p.change /\ c.kind = "change"
    BY <1>9 DEF Outputs, NamedAs
  <2> HIDE DEF c
  <2>2. \A n \in owed : n.script # p.change
    BY <2>1, NamedOnce
  <2> QED
    BY <2>1, <2>2 DEF c
<1>10. ASSUME NEW i \in outs, NEW n \in owed, n.script = out(i).script
       PROVE  i = payer[n]
  <2>1. i \notin change
    BY <1>2, <1>9, <1>10 DEF Change
  <2>2. PICK m \in owed : payer[m] = i /\ m.script = out(i).script
    BY <1>8, <1>10, <2>1
  <2> QED
    BY <1>10, <2>2, NamedOnce
<1>11. \A i \in outs : out(i).script = p.change \/ Recognised(p, packet, i) => i \in change
  <2> SUFFICES ASSUME NEW i \in outs, i \notin change
               PROVE  out(i).script # p.change /\ ~Recognised(p, packet, i)
    OBVIOUS
  <2>1. PICK n \in owed : n.script = out(i).script
    BY <1>8
  <2> QED
    BY <1>9, <2>1 DEF Recognised, OutsTyped
<1>12. Unnamed(p, packet) = {}
  <2> SUFFICES ASSUME NEW i \in outs, out(i).script \notin {n.script : n \in Outputs(p)}
               PROVE  Recognised(p, packet, i)
    BY DEF Unnamed
  <2>1. i \in change
    BY <1>8
  <2>2. Change(p, packet, i)
    BY <1>2, <2>1
  <2>3. p.change = Unknown
    <3>1. SUFFICES ASSUME p.change # Unknown PROVE FALSE
      OBVIOUS
    <3> DEFINE c == NamedAs("change", [script |-> p.change, amount |-> 0], FALSE)
    <3>2. c \in Outputs(p) /\ c.script = p.change
      BY <1>9, <3>1 DEF NamedAs
    <3> HIDE DEF c
    <3> QED
      BY <2>2, <3>1, <3>2 DEF Change
  <2> QED
    BY <2>2, <2>3 DEF Change, Recognised
<1>13. ASSUME NEW n \in owed
       PROVE  /\ Paying(packet, n.script) = {payer[n]}
              /\ \A i \in Paying(packet, n.script) :
                   ~(IF n.exact THEN out(i).value # n.amount
                     ELSE n.amount > 0 /\ out(i).value < n.amount)
  <2>1. payer[n] \in outs /\ Pays(packet, payer[n], n)
    BY <1>5, <1>13
  <2>2. Paying(packet, n.script) = {payer[n]}
    BY <1>10, <1>13, <2>1 DEF Paying, Pays
  <2>3. n.amount \in Int /\ out(payer[n]).value \in Int
    BY <1>13, <2>1, NamedOutputs DEF OutsTyped
  <2> QED
    BY <2>1, <2>2, <2>3 DEF Pays
<1>14. ASSUME NEW n \in Outputs(p), n.kind = "change"
       PROVE  /\ Paying(packet, n.script) \subseteq change
              /\ \A i \in Paying(packet, n.script) :
                   ~(IF n.exact THEN out(i).value # n.amount
                     ELSE n.amount > 0 /\ out(i).value < n.amount)
  <2>1. n.script = p.change /\ n.amount = 0 /\ ~n.exact
    BY <1>14, NamedOutputs
  <2>2. Paying(packet, n.script) \subseteq change
    BY <1>11, <2>1 DEF Paying
  <2>3. ~(n.amount > 0)
    BY <2>1
  <2> QED
    BY <2>1, <2>2, <2>3
<1>15. \A n \in Outputs(p) : ~PaidTwice(Paying(packet, n.script))
  <2> SUFFICES ASSUME NEW n \in Outputs(p) PROVE ~(Cardinality(Paying(packet, n.script)) > 1)
    BY DEF PaidTwice
  <2>1. IsFiniteSet(Paying(packet, n.script))
    BY <1>4 DEF Paying
  <2>2. \A x, y \in Paying(packet, n.script) : x = y
    BY <1>2, <1>13, <1>14
  <2> QED
    BY <2>1, <2>2, AtMostOne
<1>16. ~(Cardinality(ChangeOutputs(p, packet)) > 1)
  <2>1. IsFiniteSet(ChangeOutputs(p, packet))
    BY <1>4 DEF ChangeOutputs
  <2>2. \A x, y \in ChangeOutputs(p, packet) : x = y
    BY <1>2, <1>11 DEF ChangeOutputs
  <2> QED
    BY <2>1, <2>2, AtMostOne
<1>17. \A n \in Outputs(p) : ~(Paying(packet, n.script) = {} /\ n.kind # "change")
  BY <1>13
<1>18. \A n \in Outputs(p) : \A i \in Paying(packet, n.script) :
         ~(IF n.exact THEN out(i).value # n.amount
           ELSE n.amount > 0 /\ out(i).value < n.amount)
  BY <1>13, <1>14
<1> QED
  BY <1>12, <1>15, <1>16, <1>17, <1>18, NoOutputProblems

InputsTyped(packet) ==
  /\ packet.tx.ins \in Seq(DOMAIN Coin)
  /\ \A i \in DOMAIN packet.tx.ins : packet.in[i].wutxo.value \in Int

----------------------------------------------------------------------------
(* The inputs and the fee *)

(* What an input spends has an amount, and is unknown exactly when the     *)
(* packet does not say what it is.                                         *)
LEMMA SpendsTyped ==
  ASSUME NEW packet, InputsTyped(packet), NEW i \in Inputs(packet)
  PROVE  /\ PrevOut(packet, i).value \in Int
         /\ PrevOut(packet, i) # NoUtxo
              <=> ~(packet.in[i].wutxo = NoUtxo /\ packet.in[i].nutxo # "own")
<1>1. Coin[packet.tx.ins[i]].value \in Int /\ Coin[packet.tx.ins[i]] # NoUtxo
  BY PlanAssumption DEF InputsTyped, Inputs
<1>2. NoUtxo.value \in Int
  BY DEF NoUtxo
<1> HIDE DEF NoUtxo
<1> QED
  BY <1>1, <1>2 DEF PrevOut, InputsTyped, Inputs

(* Both sides of the fee are integers.                                     *)
LEMMA SumsTyped ==
  ASSUME NEW packet, InputsTyped(packet), OutsTyped(packet)
  PROVE  InputSat(packet) \in Int /\ OutputSat(packet) \in Int
<1>1. IsFiniteSet(Inputs(packet)) /\ IsFiniteSet(DOMAIN packet.tx.outs)
  <2>1. /\ Inputs(packet) = 1 .. Len(packet.tx.ins) /\ Len(packet.tx.ins) \in Nat
        /\ DOMAIN packet.tx.outs = 1 .. Len(packet.tx.outs) /\ Len(packet.tx.outs) \in Nat
    BY DEF InputsTyped, OutsTyped, Inputs
  <2>2. \A n \in Nat : IsFiniteSet(1 .. n)
    BY FS_Interval
  <2> QED
    BY <2>1, <2>2
<1> DEFINE f == [i \in Inputs(packet) |-> PrevOut(packet, i).value]
           g == [i \in DOMAIN packet.tx.outs |-> packet.tx.outs[i].value]
<1>2. \A i \in DOMAIN f : f[i] \in Int
  BY SpendsTyped
<1>3. \A i \in DOMAIN g : g[i] \in Int
  BY DEF OutsTyped
<1>4. Total(f) \in Int
  <2>1. DOMAIN f = Inputs(packet)
    OBVIOUS
  <2> HIDE DEF f
  <2> QED
    BY <1>1, <1>2, <2>1, TotalIsInt
<1>5. Total(g) \in Int
  <2>1. DOMAIN g = DOMAIN packet.tx.outs
    OBVIOUS
  <2> HIDE DEF g
  <2> QED
    BY <1>1, <1>3, <2>1, TotalIsInt
<1> QED
  BY <1>4, <1>5 DEF InputSat, OutputSat

(* No coin is spent twice: counted, and compared pair by pair as the code  *)
(* does.                                                                   *)
LEMMA DistinctIns ==
  ASSUME NEW packet, InputsTyped(packet)
  PROVE  Cardinality(ToSet(packet.tx.ins)) = Len(packet.tx.ins)
           <=> ~(\E i \in Inputs(packet) : \E j \in Inputs(packet) :
                   j < i /\ packet.tx.ins[j] = packet.tx.ins[i])
<1> DEFINE ins == packet.tx.ins
<1>1. Inputs(packet) = 1 .. Len(ins) /\ Len(ins) \in Nat
  BY DEF InputsTyped, Inputs
<1>2. ins \in Surjection(Inputs(packet), ToSet(ins))
  BY <1>1 DEF Surjection, ToSet, InputsTyped, Inputs
<1>3. IsFiniteSet(Inputs(packet)) /\ Cardinality(Inputs(packet)) = Len(ins)
  BY <1>1, FS_Interval
<1>4. Cardinality(ToSet(ins)) = Len(ins) <=> ins \in Injection(Inputs(packet), ToSet(ins))
  BY <1>2, <1>3, FS_Surjection
<1>5. ins \in Injection(Inputs(packet), ToSet(ins))
        <=> \A i, j \in Inputs(packet) : ins[i] = ins[j] => i = j
  BY <1>2 DEF Injection, Surjection, IsInjective
<1>6. (\A i, j \in Inputs(packet) : ins[i] = ins[j] => i = j)
        <=> ~(\E i \in Inputs(packet) : \E j \in Inputs(packet) : j < i /\ ins[j] = ins[i])
  <2>1. \A i, j \in Inputs(packet) : i \in Int /\ j \in Int /\ (i = j \/ i < j \/ j < i)
    BY <1>1
  <2>2. \A i, j \in Inputs(packet) : j < i => i # j
    BY <1>1
  <2> QED
    BY <2>1, <2>2
<1> QED
  BY <1>4, <1>5, <1>6

(* What it is for checkFee to find nothing, once every input is known.     *)
LEMMA NoFeeProblems ==
  ASSUME NEW packet, InputsTyped(packet), OutsTyped(packet),
         InputsKnown(packet), InputSat(packet) > 0
  PROVE  FeeProblems(packet) = {} <=>
           /\ FeeSat(packet) > 0
           /\ \A i \in Inputs(packet) : Sizable(packet.in[i], PrevOut(packet, i).kind)
<1>1. InputSat(packet) \in Int /\ OutputSat(packet) \in Int
  BY SumsTyped
<1>2. FeeSat(packet) > 0 <=> ~(InputSat(packet) <= OutputSat(packet))
  BY <1>1 DEF FeeSat
<1> QED
  BY <1>2 DEF FeeProblems

(* The inputs and the fee pass exactly when distinct witness coins are     *)
(* spent for a fee.                                                        *)
LEMMA SoundInputs ==
  ASSUME NEW p, NEW packet, InputsTyped(packet), OutsTyped(packet), InputSat(packet) > 0
  PROVE  InputProblems(p, packet) = {} /\ FeeProblems(packet) = {}
           <=> SpendsWitnessCoins(p, packet) /\ FeeSat(packet) > 0
<1> DEFINE coin(i) == PrevOut(packet, i)
           segwit(i) == IsSegwitSpend(coin(i).kind, packet.in[i].redeem)
           sizable(i) == Sizable(packet.in[i], coin(i).kind)
<1>1. InputProblems(p, packet) = {} <=>
        /\ packet.tx.ins # <<>>
        /\ Cardinality(ToSet(packet.tx.ins)) = Len(packet.tx.ins)
        /\ \A i \in Inputs(packet) : coin(i) # NoUtxo /\ segwit(i)
        /\ p.allowed = {} \/ ToSet(packet.tx.ins) \subseteq p.allowed
  <2>1. (\A i \in Inputs(packet) : ~(p.allowed # {} /\ packet.tx.ins[i] \notin p.allowed))
          <=> p.allowed = {} \/ ToSet(packet.tx.ins) \subseteq p.allowed
    BY DEF ToSet, Inputs
  <2>2. ASSUME NEW i \in Inputs(packet)
        PROVE  coin(i) # NoUtxo
                 <=> /\ ~(packet.in[i].wutxo = NoUtxo /\ packet.in[i].nutxo = "none")
                     /\ ~(packet.in[i].wutxo = NoUtxo /\ packet.in[i].nutxo \notin {"none", "own"})
    BY SpendsTyped
  <2>3. (\A i \in Inputs(packet) : coin(i) # NoUtxo /\ segwit(i))
          <=> /\ ~(\E i \in Inputs(packet) :
                      packet.in[i].wutxo = NoUtxo /\ packet.in[i].nutxo = "none")
              /\ ~(\E i \in Inputs(packet) :
                      packet.in[i].wutxo = NoUtxo /\ packet.in[i].nutxo \notin {"none", "own"})
              /\ ~(\E i \in Inputs(packet) : coin(i) # NoUtxo /\ ~segwit(i))
    BY <2>2
  <2> QED
    BY <2>1, <2>3, DistinctIns, NoInputProblems
<1>2. \A i \in Inputs(packet) : segwit(i) => coin(i) # NoUtxo
  BY DEF NoUtxo, IsSegwitSpend
<1>3. SpendsWitnessCoins(p, packet) <=>
        InputProblems(p, packet) = {} /\ \A i \in Inputs(packet) : sizable(i)
  BY <1>1, <1>2 DEF SpendsWitnessCoins
<1>4. InputProblems(p, packet) = {} => InputsKnown(packet)
  BY <1>1 DEF InputsKnown
<1>5. InputProblems(p, packet) = {} =>
        (FeeProblems(packet) = {} <=> FeeSat(packet) > 0 /\ \A i \in Inputs(packet) : sizable(i))
  BY <1>4, NoFeeProblems
<1> QED
  BY <1>3, <1>5

(* The verifier as a whole, of any plan that validates and any packet.     *)
LEMMA ExactlyTheSound ==
  ASSUME NEW p, PlanTyped(p), PlanIsUsable(p),
         NEW packet, InputsTyped(packet), OutsTyped(packet), InputSat(packet) > 0
  PROVE  Problems(p, packet) = {} <=>
           /\ Accounted(p, packet)
           /\ SpendsWitnessCoins(p, packet)
           /\ FeeSat(packet) > 0
<1>1. OutputProblems(p, packet) = {} <=> Accounted(p, packet)
  BY PaidInFull, FullIsNoProblem
<1>2. Problems(p, packet) = {} <=>
        /\ OutputProblems(p, packet) = {}
        /\ InputProblems(p, packet) = {} /\ FeeProblems(packet) = {}
  BY DEF Problems
<1> QED
  BY <1>1, <1>2, SoundInputs

----------------------------------------------------------------------------
(* Steps 4 and 5 *)

(* What every step of the window leaves behind: the packet is the          *)
(* wallet's, it is unsigned from Built on, the plan validates from         *)
(* Streams.Plan on, and the verifier has nothing against it from Verify    *)
(* on.                                                                     *)
CInv ==
  /\ base \in Builds
  /\ PlanTyped(plan)
  /\ phase \notin {"plan", "refused"} => \A i \in Inputs(base) : ~IsSigned(base.in[i])
  /\ phase \in {"check", "verified", "merging", "signed"} => PlanIsUsable(plan)
  /\ phase \in {"verified", "merging"} => Problems(plan, base) = {}

(* CInv holds in every state.                                              *)
LEMMA CInvHolds == CSpec => []CInv
<1>1. CInit => CInv
  <2> SUFFICES ASSUME CInit PROVE CInv
    OBVIOUS
  <2>1. PICK p \in Plans, c \in Changes :
          plan = [channels |-> p.channels, topUp |-> p.topUp, allowed |-> p.allowed,
                  change |-> c, fingerprints |-> {}]
    BY DEF CInit, PInit
  <2>2. PlanTyped(plan)
    BY <2>1, PlanAssumption DEF PlanTyped
  <2> QED
    BY <2>2 DEF CInit, PInit, CInv
<1>2. CInv /\ [CNext]_cvars => CInv'
  <2> SUFFICES ASSUME CInv, [CNext]_cvars PROVE CInv'
    OBVIOUS
  <2>1. CASE Built
    BY <2>1 DEF Built, CInv, Refuse, Inputs
  <2>2. CASE AssemblePlan
    <3> DEFINE p == IF plan.change # Unknown THEN plan
                    ELSE [plan EXCEPT !.fingerprints = Fingerprints(base)]
    <3>1. PlanTyped(p)
      BY DEF CInv, PlanTyped
    <3>2. CASE PlanIsUsable(p)
      <4>1. plan' = p /\ phase' = "check" /\ base' = base /\ phase = "build"
        BY <2>2, <3>2 DEF AssemblePlan
      <4> HIDE DEF p
      <4> QED
        BY <3>1, <3>2, <4>1 DEF CInv
    <3>3. CASE ~PlanIsUsable(p)
      <4>1. plan' = plan /\ phase' = "refused" /\ base' = base
        BY <2>2, <3>3 DEF AssemblePlan, Refuse
      <4> QED
        BY <4>1 DEF CInv
    <3> QED
      BY <3>2, <3>3
  <2>3. CASE Verify
    BY <2>3 DEF Verify, CInv
  <2>4. CASE Finalize \/ CDone \/ UNCHANGED cvars
    BY <2>4 DEF Finalize, CDone, CInv, cvars, Refuse
  <2>5. CASE \E d \in Devices : MergePart(d) \/ AcceptRaw(d)
    BY <2>5 DEF MergePart, AcceptRaw, CInv, Refuse
  <2> QED
    BY <2>1, <2>2, <2>3, <2>4, <2>5 DEF CNext, StepsFourAndFive
<1> QED
  BY <1>1, <1>2, PTL DEF CSpec

(* The packet of step 4 is what BuildsAssumption says.                     *)
LEMMA BaseTyped ==
  ASSUME CInv
  PROVE  InputsTyped(base) /\ OutsTyped(base)
BY BuildsAssumption DEF CInv, InputsTyped, OutsTyped

(* Verify (internal/plan) passes exactly the transactions that pay the     *)
(* plan and nobody else, out of distinct witness coins, for a fee: for     *)
(* every plan, every packet and any amounts.                               *)
THEOREM VerifiedIsExact == CSpec => []VerifierIsExact
<1>1. CInv => VerifierIsExact
  <2> SUFFICES ASSUME CInv, phase = "check", InputSat(base) > 0
               PROVE  Problems(plan, base) = {} <=>
                        /\ Accounted(plan, base)
                        /\ SpendsWitnessCoins(plan, base)
                        /\ FeeSat(base) > 0
    BY DEF VerifierIsExact
  <2>1. PlanTyped(plan) /\ PlanIsUsable(plan)
    BY DEF CInv
  <2> QED
    BY <2>1, BaseTyped, ExactlyTheSound
<1> QED
  BY <1>1, CInvHolds, PTL

(* What goes on to psbt_verify carries no signature and pays no stranger.  *)
THEOREM OnlyUnsignedIsVerified == CSpec => []NothingSignedIsVerified
<1>1. CInv => NothingSignedIsVerified
  <2> SUFFICES ASSUME CInv, phase = "verified"
               PROVE  /\ \A i \in Inputs(base) : base.in[i].final = {} /\ base.in[i].sigs = {}
                      /\ \A i \in DOMAIN base.tx.outs :
                           \/ Change(plan, base, i)
                           \/ \E n \in Outputs(plan) : Pays(base, i, n)
    BY DEF NothingSignedIsVerified
  <2>1. \A i \in Inputs(base) : base.in[i].final = {} /\ base.in[i].sigs = {}
    BY DEF CInv, IsSigned
  <2>2. PlanTyped(plan) /\ PlanIsUsable(plan) /\ OutputProblems(plan, base) = {}
    BY DEF CInv, Problems
  <2>3. ASSUME NEW i \in DOMAIN base.tx.outs
        PROVE  Change(plan, base, i) \/ \E n \in Outputs(plan) : Pays(base, i, n)
    <3>1. CASE Recognised(plan, base, i)
      BY <3>1 DEF Recognised, Change
    <3>2. CASE ~Recognised(plan, base, i)
      <4>1. PICK n \in Outputs(plan) : base.tx.outs[i].script = n.script
        BY <2>2, <2>3, <3>2, NoOutputProblems DEF Unnamed
      <4>2. i \in Paying(base, n.script)
        BY <4>1 DEF Paying
      <4>3. ~(IF n.exact THEN base.tx.outs[i].value # n.amount
              ELSE n.amount > 0 /\ base.tx.outs[i].value < n.amount)
        BY <2>2, <4>2, NoOutputProblems
      <4>4. CASE n.kind = "change"
        BY <2>2, <4>1, <4>4, NamedOutputs DEF Change
      <4>5. CASE n.kind # "change"
        <5>1. n.amount > 0 /\ n.amount \in Int /\ base.tx.outs[i].value \in Int
          BY <2>2, <4>5, BaseTyped, NamedOutputs DEF PlanIsUsable, OutsTyped
        <5> QED
          BY <4>1, <4>3, <5>1 DEF Pays
      <4> QED
        BY <4>4, <4>5
    <3> QED
      BY <3>1, <3>2
  <2> QED
    BY <2>1, <2>3
<1> QED
  BY <1>1, CInvHolds, PTL

----------------------------------------------------------------------------
(* What is published *)

(* The packet came out of a merge into one with the transaction that was   *)
(* verified.                                                               *)
Made(packet) ==
  \E dst, part : dst.tx = base.tx /\ packet = Merge(dst, part)

(* The merged packet is always for the verified transaction, and what      *)
(* Finalize publishes passed every check that it makes.                    *)
MInv ==
  /\ CInv
  /\ phase \in {"plan", "build", "check", "verified", "refused", "merging", "signed"}
  /\ acc = base \/ Made(acc)
  /\ phase \in {"merging", "signed"} => Made(acc)
  /\ phase = "signed" =>
       /\ MayFinalize(acc)
       /\ Problems(plan, View(acc)) = {}
       /\ final = View(acc)

(* MInv holds in every state.                                              *)
LEMMA MInvHolds == CSpec => []MInv
<1>1. CInit /\ CInv => MInv
  BY DEF CInit, PInit, MInv
<1>2. MInv /\ CInv' /\ [CNext]_cvars => MInv'
  <2> SUFFICES ASSUME MInv, CInv', [CNext]_cvars PROVE MInv'
    OBVIOUS
  <2>0. ASSUME NEW x PROVE base' = base => Made(x)' = Made(x)
    BY DEF Made
  <2>1. CASE StepsFourAndFive
    BY <2>1 DEF StepsFourAndFive, Built, AssemblePlan, Verify, MInv, Made, Refuse
  <2>2. CASE Finalize
    <3>1. CASE phase' = "signed"
      <4>1. /\ MayFinalize(acc) /\ Problems(plan, View(acc)) = {}
            /\ final' = View(acc) /\ acc' = acc /\ base' = base /\ plan' = plan
        BY <2>2, <3>1 DEF Finalize, Recheck, Refuse
      <4>2. Made(acc)
        BY <2>2 DEF Finalize, MInv
      <4>3. /\ Made(acc)' /\ MayFinalize(acc)'
            /\ (Problems(plan, View(acc)) = {})' /\ (final = View(acc))'
        <5>1. Made(acc')
          BY <4>1, <4>2
        <5>2. MayFinalize(acc') /\ Problems(plan', View(acc')) = {} /\ final' = View(acc')
          BY <4>1
        <5>3. Made(acc)'
          BY <4>1, <5>1 DEF Made
        <5> QED
          BY <5>2, <5>3
      <4> QED
        BY <3>1, <4>3 DEF MInv
    <3>2. CASE phase' = "refused"
      BY <2>2, <3>2 DEF Finalize, MInv, Made
    <3> QED
      BY <2>2, <3>1, <3>2 DEF Finalize, Refuse
  <2>3. CASE CDone \/ UNCHANGED cvars
    BY <2>3 DEF CDone, cvars, MInv, Made
  <2>4. ASSUME NEW d \in Devices, MergePart(d) \/ AcceptRaw(d) PROVE MInv'
    <3>1. acc.tx = base.tx
      BY DEF MInv, Made, Merge
    <3>2. \/ phase' = "refused" /\ acc' = acc
          \/ phase' = "merging" /\ \E part : acc' = Merge(acc, part)
      BY <2>4 DEF MergePart, AcceptRaw, Refuse
    <3>3. base' = base
      BY <2>4 DEF MergePart, AcceptRaw
    <3>4. CASE phase' = "refused" /\ acc' = acc
      BY <3>3, <3>4 DEF MInv, Made
    <3>5. CASE phase' = "merging" /\ \E part : acc' = Merge(acc, part)
      BY <3>1, <3>3, <3>5 DEF MInv, Made
    <3> QED
      BY <3>2, <3>4, <3>5
  <2> QED
    BY <2>1, <2>2, <2>3, <2>4 DEF CNext
<1> QED
  BY <1>1, <1>2, CInvHolds, PTL DEF CSpec

(* viewOf changes the witnesses and the signatures, and nothing that says  *)
(* what is spent and paid.                                                 *)
LEMMA ViewIs ==
  ASSUME NEW packet, Made(packet)
  PROVE  /\ View(packet).tx = base.tx /\ packet.tx = base.tx
         /\ Inputs(View(packet)) = Inputs(packet) /\ View(packet).out = packet.out
         /\ \A i \in Inputs(packet) :
              /\ View(packet).in[i].final = FinalWitness(packet.in[i])
              /\ View(packet).in[i].wutxo = packet.in[i].wutxo
              /\ View(packet).in[i].nutxo = packet.in[i].nutxo
              /\ View(packet).in[i].redeem = packet.in[i].redeem
              /\ PrevOut(View(packet), i) = PrevOut(packet, i)
<1>1. PICK dst, part : dst.tx = base.tx /\ packet = Merge(dst, part)
  BY DEF Made
<1>2. /\ packet = [tx |-> packet.tx, in |-> packet.in, out |-> packet.out]
      /\ packet.tx = base.tx
  BY <1>1 DEF Merge
<1> DEFINE view == [i \in Inputs(packet) |->
                      [packet.in[i] EXCEPT !.final = FinalWitness(packet.in[i]), !.sigs = {}]]
<1>3. View(packet).tx = packet.tx /\ View(packet).in = view /\ View(packet).out = packet.out
  BY <1>2 DEF View
<1>4. \A i \in Inputs(packet) :
        /\ view[i].final = FinalWitness(packet.in[i])
        /\ view[i].wutxo = packet.in[i].wutxo
        /\ view[i].nutxo = packet.in[i].nutxo
        /\ view[i].redeem = packet.in[i].redeem
  <2> SUFFICES ASSUME NEW i \in Inputs(packet)
               PROVE  /\ view[i].final = FinalWitness(packet.in[i])
                      /\ view[i].wutxo = packet.in[i].wutxo
                      /\ view[i].nutxo = packet.in[i].nutxo
                      /\ view[i].redeem = packet.in[i].redeem
    OBVIOUS
  <2>1. packet.in[i] = MergeInput(dst.in[i], part.in[i])
    BY <1>1 DEF Merge, Inputs
  <2> DEFINE r == packet.in[i]
             w == FinalWitness(packet.in[i])
  <2>2. view[i] = [r EXCEPT !.final = w, !.sigs = {}]
    OBVIOUS
  <2> HIDE DEF r, w
  <2>3. r = MergeInput(dst.in[i], part.in[i])
    BY <2>1 DEF r
  <2>4. /\ [r EXCEPT !.final = w, !.sigs = {}].final = w
        /\ [r EXCEPT !.final = w, !.sigs = {}].wutxo = r.wutxo
        /\ [r EXCEPT !.final = w, !.sigs = {}].nutxo = r.nutxo
        /\ [r EXCEPT !.final = w, !.sigs = {}].redeem = r.redeem
    BY <2>3 DEF MergeInput
  <2> QED
    BY <2>2, <2>4 DEF r, w
<1> HIDE DEF view
<1> QED
  BY <1>2, <1>3, <1>4 DEF PrevOut, Inputs

(* What Finalize hands to bitcoind is the verified transaction, accounted  *)
(* for by the plan, with the witnesses its coins take and the fee that was *)
(* reported, whatever the signers sent.                                    *)
THEOREM PublishedIsSound == CSpec => []SignedIsSound
<1>1. MInv => SignedIsSound
  <2> SUFFICES ASSUME MInv, phase = "signed"
               PROVE  /\ final.tx = base.tx
                      /\ Accounted(plan, final)
                      /\ \A i \in Inputs(final) :
                           Cardinality({s \in final.in[i].final : s.val \in {"good", "good again"}})
                             = Takes(final.tx.ins[i])
                      /\ FeeSat(final) = TrueFee(final.tx)
    BY DEF SignedIsSound
  <2>1. /\ Made(acc) /\ MayFinalize(acc) /\ Problems(plan, View(acc)) = {}
        /\ final = View(acc) /\ PlanTyped(plan) /\ PlanIsUsable(plan)
    BY DEF MInv, CInv
  <2>2. /\ final.tx = base.tx /\ acc.tx = base.tx
        /\ Inputs(final) = Inputs(acc)
        /\ \A i \in Inputs(acc) : /\ final.in[i].final = FinalWitness(acc.in[i])
                                  /\ PrevOut(final, i) = PrevOut(acc, i)
    BY <2>1, ViewIs
  <2>3. Accounted(plan, final)
    <3>1. OutsTyped(final)
      BY <2>2, BaseTyped DEF OutsTyped, MInv
    <3>2. OutputProblems(plan, final) = {}
      BY <2>1 DEF Problems
    <3> QED
      BY <2>1, <3>1, <3>2, PaidInFull
  <2>4. ASSUME NEW i \in Inputs(final)
        PROVE  /\ PrevOut(final, i) = Coin[final.tx.ins[i]]
               /\ Cardinality({s \in final.in[i].final : s.val \in {"good", "good again"}})
                    = Takes(final.tx.ins[i])
    <3>1. Executes(acc, i)
      BY <2>1, <2>2 DEF MayFinalize
    <3> DEFINE witness == FinalWitness(acc.in[i])
    <3>2. /\ PrevOut(acc, i) = Coin[acc.tx.ins[i]]
          /\ Cardinality(witness) = Takes(acc.tx.ins[i])
          /\ \A s \in witness : s.val \in {"good", "good again"}
      BY <3>1 DEF Executes
    <3>3. {s \in witness : s.val \in {"good", "good again"}} = witness
      BY <3>2
    <3> QED
      BY <2>2, <3>2, <3>3
  <2>5. FeeSat(final) = TrueFee(final.tx)
    <3>1. [i \in Inputs(final) |-> PrevOut(final, i).value]
            = [i \in DOMAIN final.tx.ins |-> Coin[final.tx.ins[i]].value]
      BY <2>4 DEF Inputs
    <3> QED
      BY <3>1 DEF FeeSat, TrueFee, InputSat, OutputSat
  <2> QED
    BY <2>2, <2>3, <2>4, <2>5
<1> QED
  BY <1>1, MInvHolds, PTL

----------------------------------------------------------------------------
(* The order of the devices *)

(* The packet a device sent, and a field of several packets: the base's if *)
(* it says anything, else whichever packet does.                           *)
Part(k) == got[k].packet

OneOf(b, S, none) ==
  IF b # none THEN b
  ELSE IF \E x \in S : x # none THEN CHOOSE x \in S : x # none ELSE none

(* The outcome of a round in one piece: a merge of a set of packets with   *)
(* no word on their order.                                                 *)
InputOf(K, i) ==
  LET of(f) == {Part(k).in[i][f] : k \in K}
      mine(f) == base.in[i][f] IN
    [final |-> OneOf(mine("final"), of("final"), Absent),
     wutxo |-> OneOf(mine("wutxo"), of("wutxo"), NoUtxo),
     nutxo |-> OneOf(mine("nutxo"), of("nutxo"), "none"),
     redeem |-> OneOf(mine("redeem"), of("redeem"), "none"),
     wscript |-> OneOf(mine("wscript"), of("wscript"), "none"),
     sigs |-> mine("sigs") \cup (UNION of("sigs")),
     derivs |-> mine("derivs") \cup (UNION of("derivs"))]

PacketOf(K) ==
  [tx |-> base.tx,
   in |-> [i \in Inputs(base) |-> InputOf(K, i)],
   out |-> [i \in DOMAIN base.out |-> base.out[i] \cup (UNION {Part(k).out[i] : k \in K})]]

(* Two packets that no order of merging lets through, a set with no such   *)
(* pair, and what becomes of it.                                           *)
Apart(j, k) ==
  /\ \A i \in Inputs(base) : ~InputClash(Part(j).in[i], Part(k).in[i])
  /\ \A i \in DOMAIN base.out : ~KeyClash(Part(j).out[i], Part(k).out[i])

Compatible(K) ==
  \A k \in K : /\ MayMerge(mode, base, Part(k))
               /\ \A j \in K : j # k => Apart(j, k)

Outcome(K) ==
  IF K = {} THEN [merged |-> TRUE, packet |-> base]
  ELSE IF Compatible(K) THEN [merged |-> TRUE, packet |-> PacketOf(K)]
  ELSE [merged |-> FALSE, packet |-> base]

(* A single field of the packets merged so far clashes with one more       *)
(* packet exactly when the base's or some packet's does.                   *)
LEMMA FieldStep ==
  ASSUME NEW b, NEW S, NEW x, NEW none,
         \A y \in S : ~FieldClash(b, y, none),
         \A y, z \in S : ~FieldClash(y, z, none)
  PROVE  /\ FieldClash(OneOf(b, S, none), x, none)
              <=> FieldClash(b, x, none) \/ \E y \in S : FieldClash(y, x, none)
         /\ ~FieldClash(OneOf(b, S, none), x, none)
              => First(OneOf(b, S, none), x, none) = OneOf(b, S \cup {x}, none)
<1> DEFINE o == OneOf(b, S, none)
<1>1. CASE b # none
  BY <1>1 DEF FieldClash, OneOf, First
<1>2. CASE b = none /\ \E y \in S : y # none
  <2>1. o \in S /\ o # none
    BY <1>2 DEF OneOf
  <2>2. \A y \in S : y # none => y = o
    BY <2>1 DEF FieldClash
  <2> HIDE DEF o
  <2>3. FieldClash(o, x, none) <=> \E y \in S : FieldClash(y, x, none)
    BY <2>1, <2>2 DEF FieldClash
  <2>4. ~FieldClash(o, x, none) => OneOf(b, S \cup {x}, none) = o
    <3> SUFFICES ASSUME ~FieldClash(o, x, none) PROVE OneOf(b, S \cup {x}, none) = o
      OBVIOUS
    <3>1. \A y \in S \cup {x} : y # none => y = o
      BY <2>1, <2>2 DEF FieldClash
    <3> QED
      BY <1>2, <2>1, <3>1 DEF OneOf
  <2>5. First(o, x, none) = o
    BY <2>1 DEF First
  <2>6. ~FieldClash(b, x, none)
    BY <1>2 DEF FieldClash
  <2> QED
    BY <2>3, <2>4, <2>5, <2>6 DEF o
<1>3. CASE b = none /\ \A y \in S : y = none
  <2>1. o = none
    BY <1>3 DEF OneOf
  <2>2. OneOf(b, S \cup {x}, none) = x
    BY <1>3 DEF OneOf
  <2> QED
    BY <1>3, <2>1, <2>2 DEF FieldClash, First
<1> QED
  BY <1>1, <1>2, <1>3

(* The same of the fields that are unioned by key.                         *)
LEMMA KeyStep ==
  ASSUME NEW b, NEW S, NEW x
  PROVE  /\ KeyClash(b \cup (UNION S), x)
              <=> KeyClash(b, x) \/ \E y \in S : KeyClash(y, x)
         /\ (b \cup (UNION S)) \cup x = b \cup (UNION (S \cup {x}))
<1>1. KeyClash(b \cup (UNION S), x)
        <=> KeyClash(b, x) \/ \E y \in S : KeyClash(y, x)
  BY DEF KeyClash
<1> QED
  BY <1>1

(* The same of an input.                                                   *)
LEMMA InputStep ==
  ASSUME NEW K, NEW i, NEW k,
         \A j \in K : ~InputClash(base.in[i], Part(j).in[i]),
         \A j, l \in K : j # l => ~InputClash(Part(j).in[i], Part(l).in[i])
  PROVE  /\ InputClash(InputOf(K, i), Part(k).in[i])
              <=> \/ InputClash(base.in[i], Part(k).in[i])
                  \/ \E j \in K : InputClash(Part(j).in[i], Part(k).in[i])
         /\ ~InputClash(InputOf(K, i), Part(k).in[i])
              => MergeInput(InputOf(K, i), Part(k).in[i]) = InputOf(K \cup {k}, i)
<1> DEFINE of(f) == {Part(j).in[i][f] : j \in K}
           one(f, none) == OneOf(base.in[i][f], of(f), none)
           theirs(f) == Part(k).in[i][f]
           o == InputOf(K, i)
           fields == {<<"final", Absent>>, <<"wutxo", NoUtxo>>, <<"nutxo", "none">>,
                      <<"redeem", "none">>, <<"wscript", "none">>}
<1>1. ASSUME NEW f, NEW none, <<f, none>> \in fields
      PROVE  /\ FieldClash(one(f, none), theirs(f), none)
                  <=> \/ FieldClash(base.in[i][f], theirs(f), none)
                      \/ \E j \in K : FieldClash(Part(j).in[i][f], theirs(f), none)
             /\ ~FieldClash(one(f, none), theirs(f), none)
                  => First(one(f, none), theirs(f), none)
                       = OneOf(base.in[i][f], of(f) \cup {theirs(f)}, none)
  <2>1. \A y \in of(f) : ~FieldClash(base.in[i][f], y, none)
    BY <1>1 DEF InputClash
  <2>2. \A j, l \in K : ~FieldClash(Part(j).in[i][f], Part(l).in[i][f], none)
    BY <1>1 DEF InputClash, FieldClash
  <2>3. \A y, z \in of(f) : ~FieldClash(y, z, none)
    BY <2>2
  <2>4. (\E y \in of(f) : FieldClash(y, theirs(f), none))
          <=> \E j \in K : FieldClash(Part(j).in[i][f], theirs(f), none)
    OBVIOUS
  <2> HIDE DEF of, theirs, fields
  <2> QED
    BY <2>1, <2>3, <2>4, FieldStep
<1>2. ASSUME NEW f
      PROVE  /\ KeyClash(base.in[i][f] \cup (UNION of(f)), theirs(f))
                  <=> \/ KeyClash(base.in[i][f], theirs(f))
                      \/ \E j \in K : KeyClash(Part(j).in[i][f], theirs(f))
             /\ (base.in[i][f] \cup (UNION of(f))) \cup theirs(f)
                  = base.in[i][f] \cup (UNION (of(f) \cup {theirs(f)}))
  <2>1. (\E y \in of(f) : KeyClash(y, theirs(f)))
          <=> \E j \in K : KeyClash(Part(j).in[i][f], theirs(f))
    OBVIOUS
  <2> DEFINE b == base.in[i][f]
             S == of(f)
             x == theirs(f)
  <2> HIDE DEF of, theirs, b, S, x
  <2>2. /\ KeyClash(b \cup (UNION S), x)
             <=> KeyClash(b, x) \/ \E y \in S : KeyClash(y, x)
        /\ (b \cup (UNION S)) \cup x = b \cup (UNION (S \cup {x}))
    BY KeyStep, Zenon
  <2> QED
    BY <2>1, <2>2, Zenon DEF b, S, x
<1>3. \A f : {Part(j).in[i][f] : j \in K \cup {k}} = of(f) \cup {theirs(f)}
  OBVIOUS
<1>4. /\ o.final = one("final", Absent) /\ o.wutxo = one("wutxo", NoUtxo)
      /\ o.nutxo = one("nutxo", "none") /\ o.redeem = one("redeem", "none")
      /\ o.wscript = one("wscript", "none")
      /\ o.sigs = base.in[i].sigs \cup (UNION of("sigs"))
      /\ o.derivs = base.in[i].derivs \cup (UNION of("derivs"))
  BY DEF InputOf
<1>5. InputOf(K \cup {k}, i) =
        [final |-> OneOf(base.in[i].final, of("final") \cup {theirs("final")}, Absent),
         wutxo |-> OneOf(base.in[i].wutxo, of("wutxo") \cup {theirs("wutxo")}, NoUtxo),
         nutxo |-> OneOf(base.in[i].nutxo, of("nutxo") \cup {theirs("nutxo")}, "none"),
         redeem |-> OneOf(base.in[i].redeem, of("redeem") \cup {theirs("redeem")}, "none"),
         wscript |-> OneOf(base.in[i].wscript, of("wscript") \cup {theirs("wscript")}, "none"),
         sigs |-> base.in[i].sigs \cup (UNION (of("sigs") \cup {theirs("sigs")})),
         derivs |-> base.in[i].derivs \cup (UNION (of("derivs") \cup {theirs("derivs")}))]
  BY <1>3 DEF InputOf
<1> HIDE DEF of, o, fields
<1>6. /\ <<"final", Absent>> \in fields /\ <<"wutxo", NoUtxo>> \in fields
      /\ <<"nutxo", "none">> \in fields /\ <<"redeem", "none">> \in fields
      /\ <<"wscript", "none">> \in fields
  BY DEF fields
<1> DEFINE x == Part(k).in[i]
           b == base.in[i]
           field(f, none) ==
             /\ FieldClash(o[f], x[f], none)
                  <=> \/ FieldClash(b[f], x[f], none)
                      \/ \E j \in K : FieldClash(Part(j).in[i][f], x[f], none)
             /\ ~FieldClash(o[f], x[f], none)
                  => First(o[f], x[f], none) = OneOf(b[f], of(f) \cup {theirs(f)}, none)
           keyed(f) ==
             /\ KeyClash(o[f], x[f])
                  <=> \/ KeyClash(b[f], x[f])
                      \/ \E j \in K : KeyClash(Part(j).in[i][f], x[f])
             /\ o[f] \cup x[f] = b[f] \cup (UNION (of(f) \cup {theirs(f)}))
<1>7. field("final", Absent)
  BY <1>1, <1>4, <1>6, Zenon
<1>8. field("wutxo", NoUtxo)
  BY <1>1, <1>4, <1>6, Zenon
<1>9. field("nutxo", "none")
  BY <1>1, <1>4, <1>6, Zenon
<1>10. field("redeem", "none")
  BY <1>1, <1>4, <1>6, Zenon
<1>11. field("wscript", "none")
  BY <1>1, <1>4, <1>6, Zenon
<1>12. keyed("sigs")
  BY <1>2, <1>4, Zenon
<1>13. keyed("derivs")
  BY <1>2, <1>4, Zenon
<1>14. InputClash(o, x)
         <=> InputClash(b, x) \/ \E j \in K : InputClash(Part(j).in[i], x)
  <2> HIDE DEF x, b
  <2> QED
    BY <1>7, <1>8, <1>9, <1>10, <1>11, <1>12, <1>13, Zenon DEF InputClash
<1>15. ~InputClash(o, x) => MergeInput(o, x) = InputOf(K \cup {k}, i)
  <2> HIDE DEF x, b
  <2> QED
    BY <1>5, <1>7, <1>8, <1>9, <1>10, <1>11, <1>12, <1>13 DEF InputClash, MergeInput, b
<1> QED
  BY <1>14, <1>15 DEF o

(* Neither of two inputs that clash came first.                            *)
LEMMA ClashIsMutual ==
  \A a, b : InputClash(a, b) <=> InputClash(b, a)
<1>1. \A a, b, none : FieldClash(a, b, none) <=> FieldClash(b, a, none)
  BY DEF FieldClash
<1>2. \A A, B : KeyClash(A, B) <=> KeyClash(B, A)
  BY DEF KeyClash
<1> QED
  BY <1>1, <1>2 DEF InputClash

(* Nor of two packets.                                                     *)
LEMMA ApartIsMutual ==
  \A j, k : Apart(j, k) <=> Apart(k, j)
<1>1. \A A, B : KeyClash(A, B) <=> KeyClash(B, A)
  BY DEF KeyClash
<1> QED
  BY <1>1, ClashIsMutual DEF Apart

(* One packet more goes with a set if it goes with the base and with each  *)
(* of the set.                                                             *)
LEMMA CompatibleStep ==
  ASSUME NEW K, NEW k, k \notin K
  PROVE  Compatible(K \cup {k}) <=>
           /\ Compatible(K)
           /\ MayMerge(mode, base, Part(k))
           /\ \A j \in K : Apart(j, k)
BY ApartIsMutual DEF Compatible

(* One packet more is refused by the packet merged so far exactly when the *)
(* base or one of those merged would refuse it, and is merged into the     *)
(* outcome of the larger set.                                              *)
LEMMA PacketStep ==
  ASSUME NEW K, Compatible(K), NEW k, k \notin K
  PROVE  /\ MayMerge(mode, PacketOf(K), Part(k))
              <=> MayMerge(mode, base, Part(k)) /\ \A j \in K : Apart(j, k)
         /\ MayMerge(mode, PacketOf(K), Part(k))
              => Merge(PacketOf(K), Part(k)) = PacketOf(K \cup {k})
<1> DEFINE P == PacketOf(K)
           part == Part(k)
           theirs(i) == {Part(j).out[i] : j \in K}
<1>1. /\ P.tx = base.tx /\ Inputs(P) = Inputs(base) /\ DOMAIN P.out = DOMAIN base.out
      /\ \A i \in Inputs(base) : P.in[i] = InputOf(K, i)
      /\ \A i \in DOMAIN base.out : P.out[i] = base.out[i] \cup (UNION theirs(i))
  BY DEF PacketOf, Inputs
<1>2. ASSUME NEW i \in Inputs(base)
      PROVE  /\ InputClash(P.in[i], part.in[i])
                  <=> \/ InputClash(base.in[i], part.in[i])
                      \/ \E j \in K : InputClash(Part(j).in[i], part.in[i])
             /\ ~InputClash(P.in[i], part.in[i])
                  => MergeInput(P.in[i], part.in[i]) = InputOf(K \cup {k}, i)
  <2>1. \A j \in K : ~InputClash(base.in[i], Part(j).in[i])
    BY <1>2 DEF Compatible, MayMerge
  <2>2. \A j, l \in K : j # l => ~InputClash(Part(j).in[i], Part(l).in[i])
    BY <1>2 DEF Compatible, Apart
  <2>3. P.in[i] = InputOf(K, i)
    BY <1>1, <1>2
  <2>4. /\ InputClash(InputOf(K, i), Part(k).in[i])
             <=> \/ InputClash(base.in[i], Part(k).in[i])
                 \/ \E j \in K : InputClash(Part(j).in[i], Part(k).in[i])
        /\ ~InputClash(InputOf(K, i), Part(k).in[i])
             => MergeInput(InputOf(K, i), Part(k).in[i]) = InputOf(K \cup {k}, i)
    BY <2>1, <2>2, InputStep
  <2> HIDE DEF P
  <2> QED
    BY <2>3, <2>4
<1>3. ASSUME NEW i \in DOMAIN base.out
      PROVE  /\ KeyClash(P.out[i], part.out[i])
                  <=> \/ KeyClash(base.out[i], part.out[i])
                      \/ \E j \in K : KeyClash(Part(j).out[i], part.out[i])
             /\ P.out[i] \cup part.out[i]
                  = base.out[i] \cup (UNION {Part(j).out[i] : j \in K \cup {k}})
  <2>1. (\E y \in theirs(i) : KeyClash(y, part.out[i]))
          <=> \E j \in K : KeyClash(Part(j).out[i], part.out[i])
    OBVIOUS
  <2>2. {Part(j).out[i] : j \in K \cup {k}} = theirs(i) \cup {part.out[i]}
    OBVIOUS
  <2>3. P.out[i] = base.out[i] \cup (UNION theirs(i))
    BY <1>1, <1>3
  <2> DEFINE b == base.out[i]
             S == theirs(i)
             x == part.out[i]
  <2> HIDE DEF P, theirs, b, S, x
  <2>4. /\ KeyClash(b \cup (UNION S), x)
             <=> KeyClash(b, x) \/ \E y \in S : KeyClash(y, x)
        /\ (b \cup (UNION S)) \cup x = b \cup (UNION (S \cup {x}))
    BY KeyStep, Zenon
  <2> QED
    BY <2>1, <2>2, <2>3, <2>4, Zenon DEF b, S, x
<1> HIDE DEF P, part, theirs
<1>4. MayMerge(mode, P, part) <=> MayMerge(mode, base, part) /\ \A j \in K : Apart(j, k)
  BY <1>1, <1>2, <1>3 DEF MayMerge, Apart, part
<1>5. ASSUME MayMerge(mode, P, part) PROVE Merge(P, part) = PacketOf(K \cup {k})
  <2>1. \A i \in Inputs(base) : MergeInput(P.in[i], part.in[i]) = InputOf(K \cup {k}, i)
    BY <1>1, <1>2, <1>5 DEF MayMerge
  <2> QED
    BY <1>1, <1>3, <2>1 DEF Merge, PacketOf
<1> QED
  BY <1>4, <1>5 DEF P, part

(* The first packet of a round.                                            *)
LEMMA FirstPacket ==
  ASSUME NEW k, MayMerge(mode, base, Part(k))
  PROVE  Merge(base, Part(k)) = PacketOf({k})
<1>1. Compatible({})
  BY DEF Compatible
<1>2. MayMerge(mode, PacketOf({}), Part(k))
  BY <1>1, PacketStep
<1>3. Merge(PacketOf({}), Part(k)) = PacketOf({k})
  BY <1>1, <1>2, PacketStep
<1>4. /\ PacketOf({}).tx = base.tx /\ Inputs(PacketOf({})) = Inputs(base)
      /\ DOMAIN PacketOf({}).out = DOMAIN base.out
      /\ \A i \in DOMAIN base.out : PacketOf({}).out[i] = base.out[i]
      /\ \A i \in Inputs(base) : PacketOf({}).in[i] = InputOf({}, i)
  BY DEF PacketOf, Inputs
<1>5. ASSUME NEW i
      PROVE  MergeInput(InputOf({}, i), Part(k).in[i]) = MergeInput(base.in[i], Part(k).in[i])
  <2>1. \A b, none : OneOf(b, {}, none) = b
    BY DEF OneOf
  <2>2. /\ InputOf({}, i).final = base.in[i].final
        /\ InputOf({}, i).wutxo = base.in[i].wutxo
        /\ InputOf({}, i).nutxo = base.in[i].nutxo
        /\ InputOf({}, i).redeem = base.in[i].redeem
        /\ InputOf({}, i).wscript = base.in[i].wscript
        /\ InputOf({}, i).sigs = base.in[i].sigs
        /\ InputOf({}, i).derivs = base.in[i].derivs
    BY <2>1 DEF InputOf
  <2> QED
    BY <2>2 DEF MergeInput
<1>6. Merge(base, Part(k)) = Merge(PacketOf({}), Part(k))
  BY <1>4, <1>5 DEF Merge
<1> QED
  BY <1>3, <1>6

(* The outcome of a set of packets takes one step of the fold to that of a *)
(* larger one.                                                             *)
LEMMA OutcomeStep ==
  ASSUME NEW K, NEW k, k \notin K
  PROVE  Outcome(K \cup {k}) =
           IF Outcome(K).merged /\ MayMerge(mode, Outcome(K).packet, Part(k))
           THEN [merged |-> TRUE, packet |-> Merge(Outcome(K).packet, Part(k))]
           ELSE [merged |-> FALSE, packet |-> base]
<1>1. K \cup {k} # {}
  OBVIOUS
<1>2. CASE K = {}
  <2>1. Outcome(K).merged = TRUE /\ Outcome(K).packet = base
    BY <1>2 DEF Outcome
  <2>2. Compatible(K \cup {k}) <=> MayMerge(mode, base, Part(k))
    BY <1>2, CompatibleStep DEF Compatible
  <2>3. MayMerge(mode, base, Part(k)) => Merge(base, Part(k)) = PacketOf(K \cup {k})
    BY <1>2, FirstPacket
  <2> QED
    BY <1>1, <2>1, <2>2, <2>3 DEF Outcome
<1>3. CASE K # {} /\ Compatible(K)
  <2>1. Outcome(K).merged = TRUE /\ Outcome(K).packet = PacketOf(K)
    BY <1>3 DEF Outcome
  <2>2. Compatible(K \cup {k}) <=> MayMerge(mode, PacketOf(K), Part(k))
    BY <1>3, CompatibleStep, PacketStep
  <2>3. MayMerge(mode, PacketOf(K), Part(k)) => Merge(PacketOf(K), Part(k)) = PacketOf(K \cup {k})
    BY <1>3, PacketStep
  <2> QED
    BY <1>1, <2>1, <2>2, <2>3 DEF Outcome
<1>4. CASE K # {} /\ ~Compatible(K)
  <2>1. Outcome(K).merged = FALSE
    BY <1>4 DEF Outcome
  <2>2. ~Compatible(K \cup {k})
    BY <1>4, CompatibleStep
  <2> QED
    BY <1>1, <2>1, <2>2 DEF Outcome
<1> QED
  BY <1>2, <1>3, <1>4

(* The fold over a sequence takes its last member out first, and there is  *)
(* one.                                                                    *)
LEMMA GreatestNumber ==
  ASSUME NEW n \in Nat, NEW S \in SUBSET (1 .. n), S # {}
  PROVE  Max(S) \in S
<1> DEFINE T == {n - x : x \in S}
<1>1. \A x \in S : x \in Int /\ n - x \in Nat
  OBVIOUS
<1>2. T \subseteq Nat /\ T # {}
  BY <1>1
<1>3. PICK t \in T : \A u \in T : t <= u
  <2> HIDE DEF T
  <2> QED
    BY <1>2, LeastNumber
<1>4. PICK x \in S : t = n - x
  OBVIOUS
<1>5. ASSUME NEW y \in S PROVE x >= y
  <2>1. n - x <= n - y
    BY <1>3, <1>4
  <2> QED
    BY <1>1, <2>1
<1> QED
  BY <1>5 DEF Max

(* The packets at some of the places of an order, and the fold that        *)
(* InOrder is.                                                             *)
At(order, s) == {order[m] : m \in s}

FoldStep(order, g, s) ==
  IF s = {} THEN [merged |-> TRUE, packet |-> base]
  ELSE IF g[s \ {Max(s)}].merged
          /\ MayMerge(mode, g[s \ {Max(s)}].packet, got[order[Max(s)]].packet)
       THEN [merged |-> TRUE,
             packet |-> Merge(g[s \ {Max(s)}].packet, got[order[Max(s)]].packet)]
       ELSE [merged |-> FALSE, packet |-> base]

(* InOrder by its definition.                                              *)
LEMMA FoldIs ==
  ASSUME NEW order
  PROVE  InOrder(order)
           = (CHOOSE g : g = [s \in SUBSET DOMAIN order |-> FoldStep(order, g, s)])[DOMAIN order]
BY Zenon DEF InOrder, FoldLeft, MapThenFoldSet, FoldStep

(* Whatever the order, the fold arrives at the outcome of the set: on      *)
(* every set of places, by the least one where it would not.               *)
LEMMA InOrderIs ==
  ASSUME NEW order, NEW n \in Nat, DOMAIN order = 1 .. n,
         \A i, j \in 1 .. n : order[i] = order[j] => i = j
  PROVE  InOrder(order) = Outcome(At(order, 1 .. n))
<1> DEFINE D == DOMAIN order
           g == CHOOSE g : g = [s \in SUBSET D |-> FoldStep(order, g, s)]
           h == [s \in SUBSET D |-> Outcome(At(order, s))]
           bad == {m \in Nat : \E s \in SUBSET D : Cardinality(s) = m /\ g[s] # Outcome(At(order, s))}
<1>1. ASSUME NEW s \in SUBSET D, s # {}
      PROVE  /\ Max(s) \in s /\ s \ {Max(s)} \in SUBSET D
             /\ order[Max(s)] \notin At(order, s \ {Max(s)})
             /\ At(order, s) = At(order, s \ {Max(s)}) \cup {order[Max(s)]}
             /\ Cardinality(s) \in Nat /\ Cardinality(s) - 1 \in Nat
             /\ Cardinality(s \ {Max(s)}) = Cardinality(s) - 1
  <2>1. Max(s) \in s
    BY <1>1, GreatestNumber
  <2>2. IsFiniteSet(s)
    BY FS_Interval, FS_Subset
  <2>3. Cardinality(s) \in Nat /\ Cardinality(s) # 0
    BY <1>1, <2>2, FS_CardinalityType, FS_EmptySet
  <2>4. Cardinality(s \ {Max(s)}) = Cardinality(s) - 1
    BY <2>1, <2>2, FS_RemoveElement
  <2> QED
    BY <2>1, <2>3, <2>4 DEF At
<1>2. ASSUME NEW s \in SUBSET D, NEW f,
             s # {} => f[s \ {Max(s)}] = Outcome(At(order, s \ {Max(s)}))
      PROVE  FoldStep(order, f, s) = Outcome(At(order, s))
  <2>1. CASE s = {}
    <3>1. At(order, s) = {}
      BY <2>1 DEF At
    <3> QED
      BY <2>1, <3>1 DEF FoldStep, Outcome
  <2>2. CASE s # {}
    <3> DEFINE k == order[Max(s)]
               K == At(order, s \ {Max(s)})
    <3>1. k \notin K /\ At(order, s) = K \cup {k} /\ f[s \ {Max(s)}] = Outcome(K)
      BY <1>1, <1>2, <2>2
    <3>2. FoldStep(order, f, s) =
            IF Outcome(K).merged /\ MayMerge(mode, Outcome(K).packet, Part(k))
            THEN [merged |-> TRUE, packet |-> Merge(Outcome(K).packet, Part(k))]
            ELSE [merged |-> FALSE, packet |-> base]
      BY <2>2, <3>1 DEF FoldStep, Part
    <3> HIDE DEF k, K
    <3> QED
      BY <3>1, <3>2, OutcomeStep
  <2> QED
    BY <2>1, <2>2
<1>3. h = [s \in SUBSET D |-> FoldStep(order, h, s)]
  <2>1. \A s \in SUBSET D : s # {} => h[s \ {Max(s)}] = Outcome(At(order, s \ {Max(s)}))
    BY <1>1
  <2>2. \A s \in SUBSET D : FoldStep(order, h, s) = Outcome(At(order, s))
    <3> HIDE DEF h
    <3> QED
      BY <1>2, <2>1
  <2>3. h = [s \in SUBSET D |-> Outcome(At(order, s))]
    OBVIOUS
  <2> HIDE DEF h
  <2> QED
    BY <2>2, <2>3
<1>4. g = [s \in SUBSET D |-> FoldStep(order, g, s)]
  <2> HIDE DEF h
  <2> QED
    BY <1>3
<1>5. InOrder(order) = g[D]
  BY FoldIs
<1> HIDE DEF g, h
<1>6. bad = {}
  <2>1. SUFFICES ASSUME bad # {} PROVE FALSE
    OBVIOUS
  <2>2. PICK m \in bad : \A l \in bad : m <= l
    BY <2>1, LeastNumber
  <2>3. PICK s \in SUBSET D : Cardinality(s) = m /\ g[s] # Outcome(At(order, s))
    BY <2>2
  <2>4. g[s] = FoldStep(order, g, s)
    BY <1>4
  <2>5. s # {} /\ g[s \ {Max(s)}] # Outcome(At(order, s \ {Max(s)}))
    BY <1>2, <2>3, <2>4
  <2>6. m - 1 \in bad
    BY <1>1, <2>3, <2>5
  <2> QED
    BY <2>2, <2>6
<1>7. Cardinality(D) \in Nat
  BY FS_Interval, FS_CardinalityType
<1> QED
  BY <1>5, <1>6, <1>7

(* What came back is a sequence.                                           *)
GInv == \E T : got \in Seq(T)

(* GInv holds in every state.                                              *)
LEMMA GInvHolds == CSpec => []GInv
<1>1. CInit => GInv
  <2>1. <<>> \in Seq({})
    OBVIOUS
  <2> QED
    BY <2>1 DEF CInit, GInv
<1>2. GInv /\ [CNext]_cvars => GInv'
  <2> SUFFICES ASSUME GInv, [CNext]_cvars PROVE GInv'
    OBVIOUS
  <2>1. CASE got' = got
    BY <2>1 DEF GInv
  <2>2. CASE \E e : got' = Append(got, e)
    <3>1. PICK T : got \in Seq(T)
      BY DEF GInv
    <3>2. PICK e : got' = Append(got, e)
      BY <2>2
    <3>3. got \in Seq(T \cup {e})
      BY <3>1
    <3>4. got' \in Seq(T \cup {e})
      BY <3>2, <3>3
    <3> QED
      BY <3>4 DEF GInv
  <2>3. ASSUME NEW d \in Devices, MergePart(d) \/ AcceptRaw(d)
        PROVE  \E e : got' = Append(got, e)
    BY <2>3 DEF MergePart, AcceptRaw
  <2>4. StepsFourAndFive \/ Finalize \/ CDone \/ UNCHANGED cvars => got' = got
    BY DEF StepsFourAndFive, Finalize, CDone, cvars
  <2> QED
    BY <2>1, <2>2, <2>3, <2>4 DEF CNext
<1> QED
  BY <1>1, <1>2, PTL DEF CSpec

(* The devices come back in any order, and the order decides neither       *)
(* whether the round is refused nor what it is merged into.                *)
THEOREM AnyOrder == CSpec => []OrderDoesNotMatter
<1>1. GInv => OrderDoesNotMatter
  <2> SUFFICES ASSUME GInv, NEW order \in SetToSeqs(DOMAIN got)
               PROVE  InOrder(order) = InOrder([k \in DOMAIN got |-> k])
    BY DEF OrderDoesNotMatter
  <2> DEFINE n == Len(got)
             asTheyCame == [k \in DOMAIN got |-> k]
  <2>1. n \in Nat /\ DOMAIN got = 1 .. n
    BY DEF GInv
  <2>2. IsFiniteSet(1 .. n) /\ Cardinality(1 .. n) = n
    <3>1. \A m \in Nat : IsFiniteSet(1 .. m) /\ Cardinality(1 .. m) = m
      BY FS_Interval
    <3> QED
      BY <2>1, <3>1
  <2>3. /\ order \in [1 .. n -> 1 .. n]
        /\ \A i, j \in 1 .. n : order[i] = order[j] => i = j
    BY <2>1, <2>2 DEF SetToSeqs
  <2>4. order \in Surjection(1 .. n, 1 .. n)
    BY <2>2, <2>3, FS_Injection DEF Injection, IsInjective
  <2>5. At(order, 1 .. n) = 1 .. n
    <3>1. \A t \in 1 .. n : \E m \in 1 .. n : order[m] = t
      BY <2>4 DEF Surjection
    <3>2. \A m \in 1 .. n : order[m] \in 1 .. n
      BY <2>3
    <3> QED
      BY <3>1, <3>2, Zenon DEF At
  <2>6. At(asTheyCame, 1 .. n) = 1 .. n
    BY <2>1 DEF At
  <2>7. InOrder(order) = Outcome(1 .. n)
    BY <2>1, <2>3, <2>5, InOrderIs
  <2>8. InOrder(asTheyCame) = Outcome(1 .. n)
    BY <2>1, <2>6, InOrderIs
  <2> QED
    BY <2>7, <2>8
<1> QED
  BY <1>1, GInvHolds, PTL

----------------------------------------------------------------------------
(* A faithful round *)

(* A faithful round, taken apart: the signatures a coin takes, once each;  *)
(* a packet that says nothing the base does not say; the signatures on an  *)
(* input; and an input that is signed once.                                *)
Proper(s, i) ==
  /\ IsFiniteSet(s) /\ Cardinality(s) = Takes(base.tx.ins[i])
  /\ OneEach(s) /\ \A x \in s : x.val = "good"

Adds(part, i, f, none) == part.in[i][f] \notin {none, base.in[i][f]}

SaysNothingNew(part) ==
  /\ part.tx = base.tx
  /\ \A i \in Inputs(base) :
       /\ ~Adds(part, i, "wutxo", NoUtxo) /\ ~Adds(part, i, "nutxo", "none")
       /\ ~Adds(part, i, "redeem", "none") /\ ~Adds(part, i, "wscript", "none")
       /\ part.in[i].derivs \subseteq base.in[i].derivs
  /\ \A i \in DOMAIN base.out : part.out[i] \subseteq base.out[i]

SigsOn(i) == UNION {Part(k).in[i].sigs : k \in DOMAIN got}

SignedOnce(i) ==
  \/ /\ \A k \in DOMAIN got : Part(k).in[i].final = Absent
     /\ base.in[i].wutxo # NoUtxo
     /\ Proper(SigsOn(i), i)
  \/ /\ mode = "accept"
     /\ \E w : /\ w # Absent /\ Proper(w, i)
               /\ \E k \in DOMAIN got : Part(k).in[i].final = w
               /\ \A k \in DOMAIN got : Part(k).in[i].final \in {Absent, w}

(* FaithfulRound in those words.                                           *)
LEMMA FaithfulMeans ==
  ASSUME FaithfulRound
  PROVE  /\ \A k \in DOMAIN got : SaysNothingNew(Part(k))
         /\ \A i \in Inputs(base) :
              /\ PrevOut(base, i) = Coin[base.tx.ins[i]]
              /\ Coin[base.tx.ins[i]].kind = "sh" => base.in[i].redeem = Nested[base.tx.ins[i]]
              /\ SignedOnce(i)
<1> DEFINE parts == {got[k].packet : k \in DOMAIN got}
           finals(i) == {part.in[i].final : part \in parts} \ {Absent}
           sigs(i) == UNION {part.in[i].sigs : part \in parts}
<1>1. /\ \A part \in parts : SaysNothingNew(part)
      /\ \A i \in Inputs(base) :
           /\ PrevOut(base, i) = Coin[base.tx.ins[i]]
           /\ Coin[base.tx.ins[i]].kind = "sh" => base.in[i].redeem = Nested[base.tx.ins[i]]
           /\ \/ finals(i) = {} /\ base.in[i].wutxo # NoUtxo /\ Proper(sigs(i), i)
              \/ mode = "accept" /\ \E w \in finals(i) : finals(i) = {w} /\ Proper(w, i)
  BY DEF FaithfulRound, SaysNothingNew, Adds, Proper
<1>2. \A k \in DOMAIN got : Part(k) \in parts
  BY DEF Part
<1>3. ASSUME NEW i \in Inputs(base) PROVE SignedOnce(i)
  <2>1. sigs(i) = SigsOn(i)
    BY DEF SigsOn, Part
  <2>2. \A x : x \in finals(i) <=> x # Absent /\ \E k \in DOMAIN got : Part(k).in[i].final = x
    BY DEF Part
  <2>3. CASE finals(i) = {} /\ base.in[i].wutxo # NoUtxo /\ Proper(sigs(i), i)
    <3>1. \A k \in DOMAIN got : Part(k).in[i].final = Absent
      BY <2>2, <2>3
    <3> QED
      BY <2>1, <2>3, <3>1 DEF SignedOnce
  <2>4. CASE mode = "accept" /\ \E w \in finals(i) : finals(i) = {w} /\ Proper(w, i)
    <3>1. PICK w \in finals(i) : finals(i) = {w} /\ Proper(w, i)
      BY <2>4
    <3> HIDE DEF finals
    <3>2. w # Absent /\ \E k \in DOMAIN got : Part(k).in[i].final = w
      BY <2>2, <3>1
    <3>3. \A k \in DOMAIN got : Part(k).in[i].final \in {Absent, w}
      BY <2>2, <3>1
    <3> QED
      BY <2>4, <3>1, <3>2, <3>3 DEF SignedOnce
  <2> QED
    BY <1>1, <1>3, <2>3, <2>4
<1> QED
  BY <1>1, <1>2, <1>3

(* Every coin takes a signature.                                           *)
LEMMA TakesSome == \A c : Takes(c) \in Nat \ {0}
BY RoundAssumption DEF Takes

(* So the signatures of a coin are there, and no key among them signed     *)
(* twice.                                                                  *)
LEMMA ProperIsThere ==
  ASSUME NEW s, NEW i, Proper(s, i)
  PROVE  /\ s # Absent
         /\ Cardinality({x.key : x \in s}) = Cardinality(s)
<1> DEFINE key == [x \in s |-> x.key]
           keys == {x.key : x \in s}
<1>1. key \in Surjection(s, keys)
  BY DEF Surjection
<1>2. key \in Injection(s, keys)
  BY <1>1 DEF Injection, IsInjective, Surjection, Proper, OneEach
<1>3. Cardinality(s) = Cardinality(keys)
  BY <1>1, <1>2, FS_Surjection DEF Proper
<1>4. s # {}
  <2>1. Cardinality(s) # 0
    BY TakesSome DEF Proper
  <2> QED
    BY <2>1, FS_EmptySet
<1> QED
  BY <1>3, <1>4 DEF Absent

(* What the verifier has established of the packet by the time it is       *)
(* signed.                                                                 *)
SoundBase ==
  /\ Problems(plan, base) = {}
  /\ Inputs(base) # {}
  /\ \A i \in Inputs(base) :
       /\ base.in[i].final = Absent /\ base.in[i].sigs = {}
       /\ OneEach(base.in[i].derivs)
       /\ PrevOut(base, i) # NoUtxo
       /\ Sizable(base.in[i], PrevOut(base, i).kind)
  /\ DOMAIN base.out = DOMAIN base.tx.outs
  /\ \A i \in DOMAIN base.out : OneEach(base.out[i])

(* And it has, from Verify on.                                             *)
LEMMA VerifiedBase ==
  ASSUME CInv, phase \in {"verified", "merging"}
  PROVE  SoundBase
<1>1. Problems(plan, base) = {}
  BY DEF CInv
<1>2. base.tx.ins # <<>> /\ \A i \in Inputs(base) : PrevOut(base, i) # NoUtxo
  <2>1. InputProblems(plan, base) = {}
    BY <1>1 DEF Problems
  <2> QED
    BY <2>1, NoInputProblems, BaseTyped, SpendsTyped
<1>3. Inputs(base) # {}
  <2>1. base.tx.ins \in Seq(DOMAIN Coin)
    BY BaseTyped DEF InputsTyped
  <2>2. Len(base.tx.ins) \in Nat \ {0}
    BY <1>2, <2>1
  <2>3. 1 \in DOMAIN base.tx.ins
    BY <2>1, <2>2
  <2> QED
    BY <2>3 DEF Inputs
<1>4. \A i \in Inputs(base) : Sizable(base.in[i], PrevOut(base, i).kind)
  <2>1. FeeProblems(base) = {}
    BY <1>1 DEF Problems
  <2>2. InputsKnown(base)
    BY <1>2 DEF InputsKnown
  <2> QED
    BY <2>1, <2>2 DEF FeeProblems
<1>5. \A i \in Inputs(base) : base.in[i].final = Absent /\ base.in[i].sigs = {}
  BY DEF CInv, IsSigned, Absent
<1>6. /\ \A i \in Inputs(base) : OneEach(base.in[i].derivs)
      /\ DOMAIN base.out = DOMAIN base.tx.outs
      /\ \A i \in DOMAIN base.out : OneEach(base.out[i])
  BY BuildsAssumption DEF CInv, Inputs
<1> QED
  BY <1>1, <1>2, <1>3, <1>4, <1>5, <1>6 DEF SoundBase

(* Two parts of a map with one entry for a key do not clash.               *)
LEMMA NoClashWithin ==
  ASSUME NEW S, OneEach(S), NEW A \in SUBSET S, NEW B \in SUBSET S
  PROVE  ~KeyClash(A, B)
BY DEF OneEach, KeyClash

(* Nor do two packets that say nothing or what the base says.              *)
LEMMA SameIsNoClash ==
  \A b, none, x, y : x \in {none, b} /\ y \in {none, b} => ~FieldClash(x, y, none)
BY DEF FieldClash

(* The packets of a faithful round go together: merge refuses none.        *)
LEMMA FaithfulIsCompatible ==
  ASSUME SoundBase, mode = "accept" => \A j, k \in DOMAIN got : j = k,
         FaithfulRound
  PROVE  Compatible(DOMAIN got)
<1> USE DEF SoundBase
<1>1. ASSUME NEW k \in DOMAIN got, NEW i \in Inputs(base)
      PROVE  /\ Part(k).in[i].wutxo \in {NoUtxo, base.in[i].wutxo}
             /\ Part(k).in[i].nutxo \in {"none", base.in[i].nutxo}
             /\ Part(k).in[i].redeem \in {"none", base.in[i].redeem}
             /\ Part(k).in[i].wscript \in {"none", base.in[i].wscript}
             /\ Part(k).in[i].derivs \in SUBSET base.in[i].derivs
  BY <1>1, FaithfulMeans DEF SaysNothingNew, Adds
<1>2. ASSUME NEW k \in DOMAIN got
      PROVE  MayMerge(mode, base, Part(k))
  <2>1. Part(k).tx = base.tx
    BY <1>2, FaithfulMeans DEF SaysNothingNew
  <2>2. ASSUME NEW i \in Inputs(base)
        PROVE  /\ mode = "complete" => Part(k).in[i].final = Absent
               /\ ~InputClash(base.in[i], Part(k).in[i])
    <3>1. mode = "complete" => Part(k).in[i].final = Absent
      BY <1>2, <2>2, FaithfulMeans DEF SignedOnce
    <3>2. ~FieldClash(base.in[i].final, Part(k).in[i].final, Absent)
      BY <2>2 DEF FieldClash
    <3>3. /\ ~FieldClash(base.in[i].wutxo, Part(k).in[i].wutxo, NoUtxo)
          /\ ~FieldClash(base.in[i].nutxo, Part(k).in[i].nutxo, "none")
          /\ ~FieldClash(base.in[i].redeem, Part(k).in[i].redeem, "none")
          /\ ~FieldClash(base.in[i].wscript, Part(k).in[i].wscript, "none")
      BY <1>1, <1>2, <2>2, SameIsNoClash
    <3>4. ~KeyClash(base.in[i].sigs, Part(k).in[i].sigs)
      BY <2>2 DEF KeyClash
    <3>5. ~KeyClash(base.in[i].derivs, Part(k).in[i].derivs)
      BY <1>1, <1>2, <2>2, NoClashWithin
    <3> QED
      BY <3>1, <3>2, <3>3, <3>4, <3>5 DEF InputClash
  <2>3. \A i \in DOMAIN base.out : ~KeyClash(base.out[i], Part(k).out[i])
    BY <1>2, FaithfulMeans, NoClashWithin DEF SaysNothingNew
  <2> QED
    BY <2>1, <2>2, <2>3 DEF MayMerge
<1>3. ASSUME NEW j \in DOMAIN got, NEW k \in DOMAIN got, j # k
      PROVE  Apart(j, k)
  <2>1. mode # "accept"
    BY <1>3
  <2>2. ASSUME NEW i \in Inputs(base)
        PROVE  ~InputClash(Part(j).in[i], Part(k).in[i])
    <3>1. /\ Part(j).in[i].final = Absent /\ Part(k).in[i].final = Absent
          /\ OneEach(SigsOn(i))
      BY <1>3, <2>1, <2>2, FaithfulMeans DEF SignedOnce, Proper
    <3>2. ~FieldClash(Part(j).in[i].final, Part(k).in[i].final, Absent)
      BY <3>1 DEF FieldClash
    <3>3. /\ ~FieldClash(Part(j).in[i].wutxo, Part(k).in[i].wutxo, NoUtxo)
          /\ ~FieldClash(Part(j).in[i].nutxo, Part(k).in[i].nutxo, "none")
          /\ ~FieldClash(Part(j).in[i].redeem, Part(k).in[i].redeem, "none")
          /\ ~FieldClash(Part(j).in[i].wscript, Part(k).in[i].wscript, "none")
      BY <1>1, <1>3, <2>2, SameIsNoClash
    <3>4. ~KeyClash(Part(j).in[i].sigs, Part(k).in[i].sigs)
      BY <1>3, <3>1, NoClashWithin DEF SigsOn
    <3>5. ~KeyClash(Part(j).in[i].derivs, Part(k).in[i].derivs)
      BY <1>1, <1>3, <2>2, NoClashWithin
    <3> QED
      BY <3>2, <3>3, <3>4, <3>5 DEF InputClash
  <2>3. \A i \in DOMAIN base.out : ~KeyClash(Part(j).out[i], Part(k).out[i])
    BY <1>3, FaithfulMeans, NoClashWithin DEF SaysNothingNew
  <2> QED
    BY <2>2, <2>3 DEF Apart
<1> QED
  BY <1>2, <1>3 DEF Compatible

(* A field that nobody adds to is the base's, and one that somebody does   *)
(* is theirs.                                                              *)
LEMMA OneOfIs ==
  \A b, S, none :
    /\ (\A x \in S : x \in {none, b}) => OneOf(b, S, none) = b
    /\ \A w \in S : b = none /\ w # none /\ (\A x \in S : x \in {none, w}) => OneOf(b, S, none) = w
<1>1. ASSUME NEW b, NEW S, NEW none, \A x \in S : x \in {none, b}
      PROVE  OneOf(b, S, none) = b
  BY <1>1 DEF OneOf
<1>2. ASSUME NEW b, NEW S, NEW none, NEW w \in S, b = none, w # none,
             \A x \in S : x \in {none, w}
      PROVE  OneOf(b, S, none) = w
  <2> DEFINE c == CHOOSE x \in S : x # none
  <2>1. c \in S /\ c # none
    BY <1>2
  <2> HIDE DEF c
  <2>2. c = w
    BY <1>2, <2>1
  <2> QED
    BY <1>2, <2>2 DEF OneOf, c
<1> QED
  BY <1>1, <1>2

(* An input after a faithful round: what the base says of it, with the     *)
(* signatures it takes or with one complete witness.                       *)
LEMMA FaithfulInput ==
  ASSUME SoundBase, FaithfulRound,
         mode = "accept" => \A j, k \in DOMAIN got : j = k,
         NEW i \in Inputs(base)
  PROVE  LET in == InputOf(DOMAIN got, i) IN
           /\ in.wutxo = base.in[i].wutxo /\ in.nutxo = base.in[i].nutxo
           /\ in.redeem = base.in[i].redeem /\ in.wscript = base.in[i].wscript
           /\ \/ /\ in.final = Absent /\ in.wutxo # NoUtxo /\ Proper(in.sigs, i)
              \/ Proper(in.final, i)
<1> DEFINE of(f) == {Part(k).in[i][f] : k \in DOMAIN got}
           in == InputOf(DOMAIN got, i)
<1>1. /\ in.final = OneOf(base.in[i].final, of("final"), Absent)
      /\ in.wutxo = OneOf(base.in[i].wutxo, of("wutxo"), NoUtxo)
      /\ in.nutxo = OneOf(base.in[i].nutxo, of("nutxo"), "none")
      /\ in.redeem = OneOf(base.in[i].redeem, of("redeem"), "none")
      /\ in.wscript = OneOf(base.in[i].wscript, of("wscript"), "none")
      /\ in.sigs = base.in[i].sigs \cup (UNION of("sigs"))
  BY DEF InputOf
<1>2. /\ \A x \in of("wutxo") : x \in {NoUtxo, base.in[i].wutxo}
      /\ \A x \in of("nutxo") : x \in {"none", base.in[i].nutxo}
      /\ \A x \in of("redeem") : x \in {"none", base.in[i].redeem}
      /\ \A x \in of("wscript") : x \in {"none", base.in[i].wscript}
  BY FaithfulMeans DEF SaysNothingNew, Adds
<1>3. base.in[i].final = Absent /\ base.in[i].sigs = {}
  BY DEF SoundBase
<1>4. SignedOnce(i)
  BY FaithfulMeans
<1>5. of("sigs") = {Part(k).in[i].sigs : k \in DOMAIN got}
  OBVIOUS
<1>6. \A x : x \in of("final") <=> \E k \in DOMAIN got : Part(k).in[i].final = x
  OBVIOUS
<1> HIDE DEF of, in
<1>7. /\ in.wutxo = base.in[i].wutxo /\ in.nutxo = base.in[i].nutxo
      /\ in.redeem = base.in[i].redeem /\ in.wscript = base.in[i].wscript
  BY <1>1, <1>2, OneOfIs
<1>8. CASE /\ \A k \in DOMAIN got : Part(k).in[i].final = Absent
           /\ base.in[i].wutxo # NoUtxo
           /\ Proper(SigsOn(i), i)
  <2>1. in.final = Absent
    BY <1>1, <1>3, <1>6, <1>8, OneOfIs
  <2>2. in.sigs = SigsOn(i)
    BY <1>1, <1>3, <1>5 DEF SigsOn
  <2> QED
    BY <1>7, <1>8, <2>1, <2>2 DEF in
<1>9. CASE \E w : /\ w # Absent /\ Proper(w, i)
                  /\ \E k \in DOMAIN got : Part(k).in[i].final = w
                  /\ \A k \in DOMAIN got : Part(k).in[i].final \in {Absent, w}
  <2>1. PICK w : /\ w # Absent /\ Proper(w, i)
                 /\ \E k \in DOMAIN got : Part(k).in[i].final = w
                 /\ \A k \in DOMAIN got : Part(k).in[i].final \in {Absent, w}
    BY <1>9
  <2>2. in.final = w
    BY <1>1, <1>3, <1>6, <2>1, OneOfIs
  <2> QED
    BY <1>7, <2>1, <2>2 DEF in
<1> QED
  BY <1>4, <1>8, <1>9 DEF SignedOnce

(* Finalize has no objection to it: the counts are right, the witnesses    *)
(* are made, and the scripts run.                                          *)
LEMMA FaithfulIsFinal ==
  ASSUME SoundBase, FaithfulRound,
         mode = "accept" => \A j, k \in DOMAIN got : j = k,
         acc = PacketOf(DOMAIN got)
  PROVE  MayFinalize(acc)
<1>1. acc.tx = base.tx /\ Inputs(acc) = Inputs(base)
  BY DEF PacketOf, Inputs
<1>2. ASSUME NEW i \in Inputs(base)
      PROVE  /\ CountIsRight(acc.in[i])
             /\ FinalWitness(acc.in[i]) # Absent
             /\ Executes(acc, i)
  <2> DEFINE in == acc.in[i]
             coin == base.tx.ins[i]
             own == base.in[i]
  <2>1. /\ in.wutxo = own.wutxo /\ in.nutxo = own.nutxo
        /\ in.redeem = own.redeem /\ in.wscript = own.wscript
        /\ \/ in.final = Absent /\ in.wutxo # NoUtxo /\ Proper(in.sigs, i)
           \/ Proper(in.final, i)
    <3>1. in = InputOf(DOMAIN got, i)
      BY <1>2 DEF PacketOf
    <3> HIDE DEF in
    <3> QED
      BY <1>2, <3>1, FaithfulInput DEF own
  <2>2. /\ PrevOut(base, i) = Coin[coin]
        /\ Coin[coin].kind = "sh" => own.redeem = Nested[coin]
        /\ Sizable(own, Coin[coin].kind)
        /\ own.final = Absent
    BY <1>2, FaithfulMeans DEF SoundBase
  <2>3. PrevOut(acc, i) = Coin[coin]
    BY <1>1, <2>1, <2>2 DEF PrevOut
  <2> HIDE DEF in, own, coin
  <2>4. SpentKind(in, Coin[coin]) = IF Coin[coin].kind = "sh" THEN Nested[coin] ELSE Coin[coin].kind
    BY <2>1, <2>2 DEF SpentKind
  <2>5. in.wutxo # NoUtxo => in.wutxo = Coin[coin]
    BY <2>1, <2>2 DEF PrevOut, own, coin
  <2>6. Takes(coin) = IF SpentKind(in, Coin[coin]) = "wsh" THEN Threshold ELSE 1
    BY <2>4 DEF Takes
  <2>7. in.wutxo # NoUtxo /\ SpentKind(in, in.wutxo) = "wsh" => in.wscript = "multisig"
    <3> SUFFICES ASSUME in.wutxo # NoUtxo, SpentKind(in, in.wutxo) = "wsh"
                 PROVE  in.wscript = "multisig"
      OBVIOUS
    <3>1. SpentKind(in, Coin[coin]) = "wsh"
      BY <2>5
    <3>2. (IF Coin[coin].kind = "sh" THEN own.redeem ELSE Coin[coin].kind) = "wsh"
      BY <2>1, <3>1 DEF SpentKind
    <3>3. own.wscript = "multisig"
      BY <2>2, <3>2 DEF Sizable, Absent
    <3> QED
      BY <2>1, <3>3
  <2>8. CASE in.final = Absent /\ in.wutxo # NoUtxo /\ Proper(in.sigs, i)
    <3>1. Cardinality(in.sigs) = Takes(coin)
      BY <2>8 DEF Proper, coin
    <3>2. FinalWitness(in) = in.sigs
      BY <2>5, <2>6, <2>8, <3>1 DEF FinalWitness
    <3>3. CountIsRight(in)
      BY <2>5, <2>6, <2>7, <3>1 DEF CountIsRight
    <3>4. Executes(acc, i)
      BY <1>1, <2>3, <2>8, <3>2, ProperIsThere DEF Executes, Proper, in, coin
    <3> QED
      BY <2>8, <3>2, <3>3, <3>4, ProperIsThere DEF in
  <2>9. CASE Proper(in.final, i)
    <3>1. in.final # Absent
      BY <2>9, ProperIsThere
    <3>2. FinalWitness(in) = in.final
      BY <3>1 DEF FinalWitness
    <3>3. CountIsRight(in)
      BY <3>1 DEF CountIsRight
    <3>4. Executes(acc, i)
      BY <1>1, <2>3, <2>9, <3>2, ProperIsThere DEF Executes, Proper, in, coin
    <3> QED
      BY <3>1, <3>2, <3>3, <3>4 DEF in
  <2> QED
    BY <2>1, <2>8, <2>9
<1> QED
  BY <1>1, <1>2 DEF MayFinalize

(* Nor has the second look of the verifier: the view after finalizing is   *)
(* as good as the base was.                                                *)
LEMMA FaithfulIsStillThePlan ==
  ASSUME SoundBase, Made(acc), FaithfulRound,
         mode = "accept" => \A j, k \in DOMAIN got : j = k,
         acc = PacketOf(DOMAIN got)
  PROVE  Problems(plan, View(acc)) = {}
<1> DEFINE V == View(acc)
<1>2. MayFinalize(acc)
  BY FaithfulIsFinal
<1>3. /\ acc.tx = base.tx /\ Inputs(acc) = Inputs(base)
      /\ \A i \in Inputs(base) : acc.in[i] = InputOf(DOMAIN got, i)
      /\ DOMAIN acc.out = DOMAIN base.out
      /\ \A i \in DOMAIN base.out :
           acc.out[i] = base.out[i] \cup (UNION {Part(k).out[i] : k \in DOMAIN got})
  BY DEF PacketOf, Inputs
<1>4. /\ V.tx = base.tx /\ Inputs(V) = Inputs(base) /\ V.out = acc.out
      /\ \A i \in Inputs(base) :
           /\ V.in[i].final # Absent
           /\ V.in[i].wutxo = acc.in[i].wutxo
           /\ V.in[i].nutxo = acc.in[i].nutxo
           /\ V.in[i].redeem = acc.in[i].redeem
  BY <1>2, <1>3, ViewIs DEF MayFinalize
<1> HIDE DEF V
<1>5. \A i \in Inputs(base) :
        /\ V.in[i].wutxo = base.in[i].wutxo
        /\ V.in[i].nutxo = base.in[i].nutxo
        /\ V.in[i].redeem = base.in[i].redeem
        /\ PrevOut(V, i) = PrevOut(base, i)
  <2> SUFFICES ASSUME NEW i \in Inputs(base)
               PROVE  /\ V.in[i].wutxo = base.in[i].wutxo
                      /\ V.in[i].nutxo = base.in[i].nutxo
                      /\ V.in[i].redeem = base.in[i].redeem
                      /\ PrevOut(V, i) = PrevOut(base, i)
    OBVIOUS
  <2> DEFINE in == InputOf(DOMAIN got, i)
  <2>1. in.wutxo = base.in[i].wutxo /\ in.nutxo = base.in[i].nutxo /\ in.redeem = base.in[i].redeem
    BY FaithfulInput
  <2>2. acc.in[i] = in
    BY <1>3
  <2> HIDE DEF in
  <2>3. /\ V.in[i].wutxo = base.in[i].wutxo
        /\ V.in[i].nutxo = base.in[i].nutxo
        /\ V.in[i].redeem = base.in[i].redeem
    BY <1>4, <2>1, <2>2
  <2> QED
    BY <1>4, <2>3 DEF PrevOut
<1>6. /\ DOMAIN base.out = DOMAIN base.tx.outs
      /\ \A i \in DOMAIN base.tx.outs : V.out[i] = base.out[i]
  <2>1. \A k \in DOMAIN got, i \in DOMAIN base.out : Part(k).out[i] \subseteq base.out[i]
    BY FaithfulMeans DEF SaysNothingNew
  <2>2. ASSUME NEW i \in DOMAIN base.out PROVE acc.out[i] = base.out[i]
    <3> DEFINE theirs == {Part(k).out[i] : k \in DOMAIN got}
    <3>1. \A x \in theirs : x \subseteq base.out[i]
      BY <2>1, <2>2
    <3>2. acc.out[i] = base.out[i] \cup (UNION theirs)
      BY <1>3, <2>2
    <3> HIDE DEF theirs
    <3> QED
      BY <3>1, <3>2
  <2> QED
    BY <1>4, <2>2 DEF SoundBase
<1>7. Problems(plan, base) = {}
  BY DEF SoundBase
<1>8. InputProblems(plan, V) = {}
  <2>1. InputProblems(plan, base) = {}
    BY <1>7 DEF Problems
  <2> QED
    BY <1>4, <1>5, <2>1, NoInputProblems
<1>9. OutputProblems(plan, V) = {}
  <2>1. OutputProblems(plan, base) = {}
    BY <1>7 DEF Problems
  <2>2. \A i \in DOMAIN base.tx.outs : Recognised(plan, V, i) <=> Recognised(plan, base, i)
    BY <1>4, <1>6 DEF Recognised
  <2>3. Unnamed(plan, V) = Unnamed(plan, base)
    BY <1>4, <2>2 DEF Unnamed
  <2>4. ChangeOutputs(plan, V) = ChangeOutputs(plan, base)
    BY <1>4, <2>2 DEF ChangeOutputs
  <2>5. \A s : Paying(V, s) = Paying(base, s)
    BY <1>4 DEF Paying
  <2> QED
    BY <1>4, <2>1, <2>3, <2>4, <2>5, NoOutputProblems
<1>10. FeeProblems(V) = {}
  <2>1. FeeProblems(base) = {}
    BY <1>7 DEF Problems
  <2>2. InputsKnown(V) <=> InputsKnown(base)
    BY <1>4, <1>5 DEF InputsKnown
  <2>3. InputSat(V) = InputSat(base)
    <3>1. [i \in Inputs(V) |-> PrevOut(V, i).value] = [i \in Inputs(base) |-> PrevOut(base, i).value]
      BY <1>4, <1>5
    <3> QED
      BY <3>1 DEF InputSat
  <2>4. OutputSat(V) = OutputSat(base)
    BY <1>4 DEF OutputSat
  <2>5. \A i \in Inputs(V) : Sizable(V.in[i], PrevOut(V, i).kind)
    BY <1>4 DEF Sizable, Absent
  <2>6. InputsKnown(base) => ~(InputSat(base) > 0 /\ InputSat(base) <= OutputSat(base))
    BY <2>1 DEF FeeProblems
  <2> QED
    BY <2>2, <2>3, <2>4, <2>5, <2>6 DEF FeeProblems
<1> QED
  BY <1>8, <1>9, <1>10 DEF Problems, V

----------------------------------------------------------------------------
(* The round, step by step *)

(* Nobody has signed anything yet.                                         *)
NothingSigned(packet) ==
  \A i \in Inputs(base) : packet.in[i].final = Absent /\ packet.in[i].sigs = {}

(* The round: the packets merged so far have the outcome that is in acc, a *)
(* round with no signer has no signature, and one that was refused was not *)
(* faithful.                                                               *)
RInv ==
  /\ MInv /\ GInv
  /\ phase \in {"plan", "build", "check", "verified"} => got = <<>> /\ acc = base
  /\ phase = "merging" => got # <<>>
  /\ mode = "accept" => Len(got) \in {0, 1}
  /\ phase # "refused" => Outcome(DOMAIN got) = [merged |-> TRUE, packet |-> acc]
  /\ phase \in {"verified", "merging"} /\ signers = {} =>
       NothingSigned(acc) /\ \A k \in DOMAIN got : NothingSigned(Part(k))
  /\ FaithfulRoundIsSigned

(* OutcomeStep of the state a step leads to.                               *)
LEMMA OutcomesNext ==
  (\A K, k : k \notin K =>
     Outcome(K \cup {k}) =
           IF Outcome(K).merged /\ MayMerge(mode, Outcome(K).packet, Part(k))
           THEN [merged |-> TRUE, packet |-> Merge(Outcome(K).packet, Part(k))]
           ELSE [merged |-> FALSE, packet |-> base])'
<1>1. \A K, k : k \notin K =>
        Outcome(K \cup {k}) =
              IF Outcome(K).merged /\ MayMerge(mode, Outcome(K).packet, Part(k))
              THEN [merged |-> TRUE, packet |-> Merge(Outcome(K).packet, Part(k))]
              ELSE [merged |-> FALSE, packet |-> base]
  BY OutcomeStep
<1> QED
  BY <1>1, PTL

(* A packet more leaves the outcome of the others alone.                   *)
LEMMA OutcomeKept ==
  ASSUME NEW K, base' = base, mode' = mode, \A k \in K : got'[k] = got[k]
  PROVE  Outcome(K)' = Outcome(K)
<1>1. \A k \in K : Part(k)' = Part(k)
  BY DEF Part
<1>2. Compatible(K)' <=> Compatible(K)
  BY <1>1 DEF Compatible, Apart
<1>3. ASSUME NEW i PROVE InputOf(K, i)' = InputOf(K, i)
  <2>1. \A f : {Part(k)'.in[i][f] : k \in K} = {Part(k).in[i][f] : k \in K}
    BY <1>1
  <2> QED
    BY <2>1 DEF InputOf
<1>4. \A i : {Part(k)'.out[i] : k \in K} = {Part(k).out[i] : k \in K}
  BY <1>1
<1>5. PacketOf(K)' = PacketOf(K)
  BY <1>3, <1>4 DEF PacketOf
<1> QED
  BY <1>2, <1>5 DEF Outcome

(* FaithfulIsCompatible of the state a step leads to.                      *)
LEMMA CompatibleNext ==
  (SoundBase /\ (mode = "accept" => \A j, k \in DOMAIN got : j = k) /\ FaithfulRound
     => Compatible(DOMAIN got))'
<1>1. SoundBase /\ (mode = "accept" => \A j, k \in DOMAIN got : j = k) /\ FaithfulRound
        => Compatible(DOMAIN got)
  BY FaithfulIsCompatible
<1> QED
  BY <1>1, PTL

(* FaithfulMeans of the state a step leads to.                             *)
LEMMA FaithfulNext ==
  (FaithfulRound => /\ \A k \in DOMAIN got : SaysNothingNew(Part(k))
                    /\ \A i \in Inputs(base) : SignedOnce(i))'
<1>1. FaithfulRound => /\ \A k \in DOMAIN got : SaysNothingNew(Part(k))
                       /\ \A i \in Inputs(base) : SignedOnce(i)
  BY FaithfulMeans
<1> QED
  BY <1>1, PTL

(* No coin is spent by no signature.                                       *)
LEMMA NothingProper == \A i : ~Proper({}, i)
BY ProperIsThere DEF Absent

(* Nor in the state a step leads to.                                       *)
LEMMA NothingProperNext == (\A i : ~Proper({}, i))'
BY NothingProper, PTL

(* In a faithful round somebody signed something.                          *)
LEMMA SomebodySigned ==
  ASSUME SoundBase, FaithfulRound, \A k \in DOMAIN got : NothingSigned(Part(k))
  PROVE  FALSE
<1>1. PICK i \in Inputs(base) : TRUE
  BY DEF SoundBase
<1>2. SignedOnce(i)
  BY FaithfulMeans
<1>3. \A k \in DOMAIN got : Part(k).in[i].final = Absent /\ Part(k).in[i].sigs = {}
  BY DEF NothingSigned
<1>4. Proper(SigsOn(i), i)
  BY <1>2, <1>3 DEF SignedOnce
<1>5. SigsOn(i) = {}
  BY <1>3 DEF SigsOn
<1> QED
  BY <1>4, <1>5, NothingProper

(* Accept takes one answer.                                                *)
LEMMA OnePart ==
  ASSUME GInv, mode = "accept" => Len(got) \in {0, 1}
  PROVE  mode = "accept" => \A j, k \in DOMAIN got : j = k
BY DEF GInv

(* A witness that is there is measured, so the view of a packet that has   *)
(* all of them is as large as the transaction extracted from it.           *)
LEMMA ViewMeasures ==
  ASSUME NEW packet, Made(packet),
         \A i \in Inputs(packet) : FinalWitness(packet.in[i]) # Absent
  PROVE  EstimatedSize(View(packet)) = Vsize(packet)
<1> DEFINE est == [i \in Inputs(View(packet)) |->
                     SpendSize(View(packet).in[i], PrevOut(View(packet), i))]
           act == [i \in Inputs(packet) |-> Cardinality(FinalWitness(packet.in[i]))]
<1>1. Inputs(View(packet)) = Inputs(packet)
  BY ViewIs
<1>2. ASSUME NEW i \in Inputs(packet) PROVE est[i] = act[i]
  <2>1. View(packet).in[i].final = FinalWitness(packet.in[i])
    BY ViewIs
  <2>2. SpendSize(View(packet).in[i], PrevOut(View(packet), i))
          = Cardinality(FinalWitness(packet.in[i]))
    BY <2>1, Zenon DEF SpendSize
  <2> QED
    BY <1>1, <2>2
<1>3. est = act
  BY <1>1, <1>2
<1> QED
  BY <1>3 DEF EstimatedSize, Vsize

(* What Finalize refuses was not a faithful round.                         *)
LEMMA FinalizeIsFaithful ==
  ASSUME RInv, Finalize, phase' = "refused"
  PROVE  ~FaithfulRound
<1>1. SUFFICES ASSUME FaithfulRound PROVE FALSE
  OBVIOUS
<1>2. phase = "merging" /\ SoundBase /\ Made(acc) /\ GInv
  BY VerifiedBase DEF Finalize, RInv, MInv
<1>3. Outcome(DOMAIN got) = [merged |-> TRUE, packet |-> acc] /\ DOMAIN got # {}
  <2>1. got # <<>> /\ phase # "refused"
    BY <1>2 DEF RInv
  <2>2. PICK T : got \in Seq(T)
    BY <1>2 DEF GInv
  <2>3. Len(got) \in Nat \ {0}
    BY <2>1, <2>2
  <2>4. 1 \in DOMAIN got
    BY <2>2, <2>3
  <2> QED
    BY <2>1, <2>4 DEF RInv
<1>4. acc = PacketOf(DOMAIN got)
  BY <1>3 DEF Outcome
<1>5. mode = "accept" => \A j, k \in DOMAIN got : j = k
  BY OnePart DEF RInv
<1>6. MayFinalize(acc) /\ Problems(plan, View(acc)) = {}
  BY <1>1, <1>2, <1>4, <1>5, FaithfulIsFinal, FaithfulIsStillThePlan
<1>7. Recheck(acc)
  BY <1>2, <1>6, ViewMeasures DEF MayFinalize, Recheck
<1>8. signers # {}
  BY <1>1, <1>2, SomebodySigned DEF RInv
<1> QED
  BY <1>6, <1>7, <1>8 DEF Finalize

(* One packet more, at the end.                                            *)
LEMMA OneMore ==
  ASSUME GInv, NEW e, got' = Append(got, e)
  PROVE  \E n \in Nat :
           /\ Len(got) = n /\ DOMAIN got = 1 .. n
           /\ Len(got') = n + 1 /\ DOMAIN got' = (1 .. n) \cup {n + 1}
           /\ n + 1 \notin 1 .. n
           /\ \A k \in 1 .. n : got'[k] = got[k]
           /\ got'[n + 1] = e
           /\ got' # <<>>
<1>1. PICK T : got \in Seq(T)
  BY DEF GInv
<1>2. got \in Seq(T \cup {e}) /\ e \in T \cup {e}
  BY <1>1
<1>3. /\ Len(got) \in Nat /\ DOMAIN got = 1 .. Len(got)
      /\ Len(got') = Len(got) + 1 /\ DOMAIN got' = 1 .. Len(got) + 1
      /\ \A k \in 1 .. Len(got) : got'[k] = got[k]
      /\ got'[Len(got) + 1] = e
      /\ got' # <<>>
  BY <1>2
<1>4. 1 .. Len(got) + 1 = (1 .. Len(got)) \cup {Len(got) + 1} /\ Len(got) + 1 \notin 1 .. Len(got)
  BY <1>3
<1> QED
  BY <1>3, <1>4

(* The outcome with one packet more is what merging it makes of the packet *)
(* merged so far.                                                          *)
LEMMA MergedSoFar ==
  ASSUME RInv, phase \in {"verified", "merging"}, base' = base, mode' = mode,
         NEW part, NEW d, got' = Append(got, [device |-> d, packet |-> part])
  PROVE  Outcome(DOMAIN got)' = IF MayMerge(mode, acc, part)
                                THEN [merged |-> TRUE, packet |-> Merge(acc, part)]
                                ELSE [merged |-> FALSE, packet |-> base]
<1> DEFINE e == [device |-> d, packet |-> part]
<1>1. PICK n \in Nat :
        /\ Len(got) = n /\ DOMAIN got = 1 .. n
        /\ Len(got') = n + 1 /\ DOMAIN got' = (1 .. n) \cup {n + 1}
        /\ n + 1 \notin 1 .. n
        /\ \A k \in 1 .. n : got'[k] = got[k]
        /\ got'[n + 1] = e
        /\ got' # <<>>
  <2>1. GInv /\ got' = Append(got, e)
    BY DEF RInv
  <2> HIDE DEF e
  <2> QED
    BY <2>1, OneMore
<1>2. Outcome(1 .. n) = [merged |-> TRUE, packet |-> acc]
  BY <1>1 DEF RInv
<1>3. Outcome(1 .. n)' = Outcome(1 .. n)
  BY <1>1, OutcomeKept
<1>4. Part(n + 1)' = part
  BY <1>1 DEF Part
<1>5. Outcome((1 .. n) \cup {n + 1})' =
        IF Outcome(1 .. n)'.merged /\ MayMerge(mode', Outcome(1 .. n)'.packet, Part(n + 1)')
        THEN [merged |-> TRUE, packet |-> Merge(Outcome(1 .. n)'.packet, Part(n + 1)')]
        ELSE [merged |-> FALSE, packet |-> base']
  BY <1>1, OutcomesNext
<1>6. Outcome(DOMAIN got)' = Outcome((1 .. n) \cup {n + 1})'
  BY <1>1
<1>7. Outcome(1 .. n)'.merged = TRUE /\ Outcome(1 .. n)'.packet = acc
  BY <1>2, <1>3
<1>8. /\ MayMerge(mode', Outcome(1 .. n)'.packet, Part(n + 1)') <=> MayMerge(mode, acc, part)
      /\ Merge(Outcome(1 .. n)'.packet, Part(n + 1)') = Merge(acc, part)
  BY <1>4, <1>7
<1> QED
  BY <1>5, <1>6, <1>7, <1>8

(* What an answer leaves as it was.                                        *)
LEMMA RoundKept ==
  ASSUME RInv, phase \in {"verified", "merging"}, UNCHANGED <<plan, base, mode>>,
         mode = "accept" => got = <<>>,
         NEW part, NEW d, got' = Append(got, [device |-> d, packet |-> part])
  PROVE  /\ SoundBase'
         /\ (mode = "accept" => \A j, k \in DOMAIN got : j = k)'
         /\ (mode = "accept" => Len(got) \in {0, 1})'
         /\ got' # <<>> /\ DOMAIN got' # {}
         /\ \E n \in DOMAIN got' : Part(n)' = part
         /\ (\A k \in DOMAIN got : NothingSigned(Part(k))) /\ NothingSigned(part)
              => (\A k \in DOMAIN got : NothingSigned(Part(k)))'
<1> DEFINE e == [device |-> d, packet |-> part]
<1>1. SoundBase
  BY VerifiedBase DEF RInv, MInv
<1>2. SoundBase'
  BY <1>1 DEF SoundBase
<1>3. PICK n \in Nat :
        /\ Len(got) = n /\ DOMAIN got = 1 .. n
        /\ Len(got') = n + 1 /\ DOMAIN got' = (1 .. n) \cup {n + 1}
        /\ n + 1 \notin 1 .. n
        /\ \A k \in 1 .. n : got'[k] = got[k]
        /\ got'[n + 1] = e
        /\ got' # <<>>
  <2>1. GInv /\ got' = Append(got, e)
    BY DEF RInv
  <2> HIDE DEF e
  <2> QED
    BY <2>1, OneMore
<1>4. mode = "accept" => n = 0
  BY <1>3
<1>5. (mode = "accept" => Len(got) \in {0, 1})'
  BY <1>3, <1>4
<1>6. (mode = "accept" => \A j, k \in DOMAIN got : j = k)'
  BY <1>3, <1>4
<1>7. /\ \A k \in 1 .. n : Part(k)' = Part(k)
      /\ Part(n + 1)' = part
  BY <1>3 DEF Part
<1>8. (\A k \in DOMAIN got : NothingSigned(Part(k))) /\ NothingSigned(part)
        => (\A k \in DOMAIN got : NothingSigned(Part(k)))'
  BY <1>3, <1>7 DEF NothingSigned
<1> QED
  BY <1>2, <1>3, <1>5, <1>6, <1>7, <1>8

(* Merging what nobody signed makes nothing signed.                        *)
LEMMA MergeKeepsNothing ==
  ASSUME NothingSigned(acc), NEW part, NothingSigned(part), acc.tx = base.tx
  PROVE  NothingSigned(Merge(acc, part))
<1>1. Inputs(acc) = Inputs(base)
  BY DEF Inputs
<1>2. \A i \in Inputs(base) : Merge(acc, part).in[i] = MergeInput(acc.in[i], part.in[i])
  BY <1>1 DEF Merge
<1>3. \A a, b : a.final = Absent /\ b.final = Absent /\ a.sigs = {} /\ b.sigs = {}
                => MergeInput(a, b).final = Absent /\ MergeInput(a, b).sigs = {}
  BY DEF MergeInput, First
<1> QED
  BY <1>2, <1>3 DEF NothingSigned

(* RInv survives a packet that is merged.                                  *)
LEMMA AnswerMerged ==
  ASSUME RInv, phase \in {"verified", "merging"}, UNCHANGED <<plan, base, mode>>,
         mode = "accept" => got = <<>>,
         NEW part, NEW d, got' = Append(got, [device |-> d, packet |-> part]),
         MayMerge(mode, acc, part), acc' = Merge(acc, part), phase' = "merging",
         signers' = {} => signers = {} /\ ~Contributes(acc, part),
         MInv', GInv'
  PROVE  RInv'
<1>1. /\ got' # <<>>
      /\ (mode = "accept" => Len(got) \in {0, 1})'
      /\ (\A k \in DOMAIN got : NothingSigned(Part(k))) /\ NothingSigned(part)
              => (\A k \in DOMAIN got : NothingSigned(Part(k)))'
  BY RoundKept
<1>2. (Outcome(DOMAIN got) = [merged |-> TRUE, packet |-> acc])'
  BY MergedSoFar
<1>3. ASSUME signers' = {}
      PROVE  (NothingSigned(acc) /\ \A k \in DOMAIN got : NothingSigned(Part(k)))'
  <2>1. NothingSigned(acc) /\ \A k \in DOMAIN got : NothingSigned(Part(k))
    BY <1>3 DEF RInv
  <2>2. acc.tx = base.tx /\ Inputs(acc) = Inputs(base)
    BY DEF RInv, MInv, Made, Merge, Inputs
  <2>3. NothingSigned(part)
    BY <1>3, <2>1, <2>2 DEF Contributes, NothingSigned
  <2>4. NothingSigned(Merge(acc, part))
    BY <2>1, <2>2, <2>3, MergeKeepsNothing
  <2>5. NothingSigned(acc)'
    BY <2>4 DEF NothingSigned
  <2> QED
    BY <1>1, <2>1, <2>3, <2>5
<1> QED
  BY <1>1, <1>2, <1>3 DEF RInv, FaithfulRoundIsSigned

(* RInv survives a refusal of a round that was not faithful.               *)
LEMMA AnswerRefused ==
  ASSUME RInv, phase \in {"verified", "merging"}, UNCHANGED <<plan, base, mode>>,
         mode = "accept" => got = <<>>,
         NEW part, NEW d, got' = Append(got, [device |-> d, packet |-> part]),
         phase' = "refused", ~FaithfulRound',
         MInv', GInv'
  PROVE  RInv'
<1>1. (mode = "accept" => Len(got) \in {0, 1})'
  BY RoundKept
<1> QED
  BY <1>1 DEF RInv, FaithfulRoundIsSigned

(* A round with a packet that merge refuses was not faithful.              *)
LEMMA NotMergeable ==
  ASSUME RInv, phase \in {"verified", "merging"}, UNCHANGED <<plan, base, mode>>,
         mode = "accept" => got = <<>>,
         NEW part, NEW d, got' = Append(got, [device |-> d, packet |-> part]),
         ~MayMerge(mode, acc, part)
  PROVE  ~FaithfulRound'
<1>1. SUFFICES ASSUME FaithfulRound' PROVE FALSE
  OBVIOUS
<1>2. /\ SoundBase' /\ DOMAIN got' # {}
      /\ (mode = "accept" => \A j, k \in DOMAIN got : j = k)'
  BY RoundKept
<1>3. Compatible(DOMAIN got)'
  BY <1>1, <1>2, CompatibleNext
<1>4. Outcome(DOMAIN got)'.merged = TRUE
  BY <1>2, <1>3 DEF Outcome
<1>5. Outcome(DOMAIN got)' = [merged |-> FALSE, packet |-> base]
  BY MergedSoFar
<1> QED
  BY <1>4, <1>5

(* Nor was one with a raw transaction that is another one or lacks a       *)
(* witness.                                                                *)
LEMMA RawRefused ==
  ASSUME RInv, phase = "verified", UNCHANGED <<plan, base, mode>>, mode = "accept",
         NEW raw, NEW d, got' = Append(got, [device |-> d, packet |-> Lifted(raw)]),
         ~(raw.tx = base.tx /\ \A i \in Inputs(raw) : raw.in[i].final # Absent)
  PROVE  ~FaithfulRound'
<1>1. SUFFICES ASSUME FaithfulRound' PROVE FALSE
  OBVIOUS
<1>2. got = <<>>
  BY DEF RInv
<1>3. PICK n \in DOMAIN got' : Part(n)' = Lifted(raw)
  BY <1>2, RoundKept
<1>4. /\ SaysNothingNew(Part(n))' /\ \A i \in Inputs(base)' : SignedOnce(i)'
      /\ (\A j, k \in DOMAIN got : j = k)'
  BY <1>1, <1>2, <1>3, FaithfulNext, RoundKept
<1>5. raw.tx = base.tx
  BY <1>3, <1>4 DEF SaysNothingNew, Lifted
<1>6. ASSUME NEW i \in Inputs(base), raw.in[i].final = Absent PROVE FALSE
  <2>1. Part(n)'.in[i].final = Absent /\ Part(n)'.in[i].sigs = {}
    BY <1>3, <1>5, <1>6 DEF Lifted, Inputs
  <2>2. \A k \in DOMAIN got' : k = n
    BY <1>3, <1>4
  <2>3. SignedOnce(i)'
    BY <1>4, <1>6
  <2>4. Proper(SigsOn(i), i)'
    BY <2>1, <2>2, <2>3 DEF SignedOnce
  <2>5. SigsOn(i)' = {}
    BY <2>1, <2>2 DEF SigsOn
  <2>6. ~Proper({}, i)'
    BY NothingProperNext
  <2> QED
    BY <2>4, <2>5, <2>6
<1> QED
  BY <1>5, <1>6 DEF Inputs

(* A raw transaction that is let through would be by merge.                *)
LEMMA RawMerges ==
  ASSUME SoundBase, NEW raw, raw.tx = base.tx, mode = "accept"
  PROVE  MayMerge(mode, base, Lifted(raw))
<1>1. Lifted(raw).tx = base.tx
  BY DEF Lifted
<1>2. ASSUME NEW i \in Inputs(base) PROVE ~InputClash(base.in[i], Lifted(raw).in[i])
  <2>1. Lifted(raw).in[i] = [wutxo |-> NoUtxo, nutxo |-> "none", redeem |-> "none",
                             wscript |-> "none", derivs |-> {}, sigs |-> {},
                             final |-> raw.in[i].final]
    BY <1>2 DEF Lifted, Inputs
  <2>2. base.in[i].final = Absent
    BY <1>2 DEF SoundBase
  <2> QED
    BY <2>1, <2>2 DEF InputClash, FieldClash, KeyClash
<1>3. DOMAIN base.out = DOMAIN base.tx.outs
  BY DEF SoundBase
<1>4. \A i \in DOMAIN base.out : ~KeyClash(base.out[i], Lifted(raw).out[i])
  BY <1>3 DEF KeyClash, Lifted
<1> QED
  BY <1>1, <1>2, <1>4 DEF MayMerge

(* A round stays faithful while nothing more comes back.                   *)
LEMMA FaithfulKept ==
  ASSUME base' = base, mode' = mode, got' = got
  PROVE  FaithfulRound' <=> FaithfulRound
BY SMT DEF FaithfulRound, Inputs, PrevOut, Takes, OneEach

(* RInv holds in every state.                                              *)
LEMMA RInvHolds == CSpec => []RInv
<1>1. CInit /\ MInv /\ GInv => RInv
  <2> SUFFICES ASSUME CInit, MInv, GInv PROVE RInv
    OBVIOUS
  <2>1. got = <<>> /\ acc = base /\ phase = "plan"
    BY DEF CInit, PInit
  <2>2. DOMAIN got = {} /\ Len(got) = 0
    BY <2>1
  <2>3. Outcome(DOMAIN got) = [merged |-> TRUE, packet |-> acc]
    BY <2>1, <2>2 DEF Outcome
  <2> QED
    BY <2>1, <2>2, <2>3 DEF RInv, FaithfulRoundIsSigned
<1>2. RInv /\ MInv' /\ GInv' /\ [CNext]_cvars => RInv'
  <2> SUFFICES ASSUME RInv, MInv', GInv', [CNext]_cvars PROVE RInv'
    OBVIOUS
  <2>0. ASSUME UNCHANGED <<base, mode, got>> PROVE Outcome(DOMAIN got)' = Outcome(DOMAIN got)
    <3>1. PICK K : K = DOMAIN got
      OBVIOUS
    <3>2. Outcome(K)' = Outcome(K)
      BY <2>0, OutcomeKept
    <3> QED
      BY <2>0, <3>1, <3>2
  <2>1. CASE StepsFourAndFive
    <3>1. /\ UNCHANGED <<base, mode, got, acc, signers>>
          /\ phase \in {"plan", "build", "check"}
          /\ phase' \in {"build", "check", "verified", "refused"}
      BY <2>1 DEF StepsFourAndFive, Built, AssemblePlan, Verify, Refuse
    <3>2. got = <<>> /\ acc = base
      BY <3>1 DEF RInv
    <3>3. (Outcome(DOMAIN got) = [merged |-> TRUE, packet |-> acc])'
      BY <2>0, <3>1 DEF RInv
    <3>4. phase' = "verified" => NothingSigned(acc)'
      BY <3>1, <3>2 DEF MInv, CInv, IsSigned, NothingSigned, Absent
    <3>5. DOMAIN got' = {}
      BY <3>1, <3>2
    <3> QED
      BY <3>1, <3>2, <3>3, <3>4, <3>5 DEF RInv, FaithfulRoundIsSigned
  <2>2. CASE Finalize
    <3>1. UNCHANGED <<base, mode, got, acc, signers>> /\ phase' \in {"signed", "refused"}
      BY <2>2 DEF Finalize, Refuse
    <3>2. phase' = "refused" => ~FaithfulRound'
      <4>1. phase' = "refused" => ~FaithfulRound
        BY <2>2, FinalizeIsFaithful
      <4> QED
        BY <3>1, <4>1, FaithfulKept
    <3>3. phase' = "signed" => (Outcome(DOMAIN got) = [merged |-> TRUE, packet |-> acc])'
      BY <2>0, <2>2, <3>1 DEF RInv, Finalize
    <3> QED
      BY <3>1, <3>2, <3>3 DEF RInv, FaithfulRoundIsSigned
  <2>3. CASE CDone \/ UNCHANGED cvars
    <3>1. UNCHANGED <<base, mode, got, acc, signers, phase>>
      BY <2>3 DEF CDone, cvars
    <3>2. FaithfulRoundIsSigned'
      BY <3>1, FaithfulKept DEF RInv, FaithfulRoundIsSigned
    <3>3. NothingSigned(acc) => NothingSigned(acc)'
      BY <3>1 DEF NothingSigned
    <3>4. (\A k \in DOMAIN got : NothingSigned(Part(k)))
            => (\A k \in DOMAIN got : NothingSigned(Part(k)))'
      BY <3>1 DEF NothingSigned, Part
    <3>5. phase' # "refused" => (Outcome(DOMAIN got) = [merged |-> TRUE, packet |-> acc])'
      BY <2>0, <3>1 DEF RInv
    <3> QED
      BY <3>1, <3>2, <3>3, <3>4, <3>5 DEF RInv
  <2>4. ASSUME NEW d \in Devices, MergePart(d) PROVE RInv'
    <3>1. /\ phase \in {"verified", "merging"} /\ UNCHANGED <<plan, base, mode>>
          /\ mode = "accept" => got = <<>>
      BY <2>4 DEF MergePart
    <3>2. PICK part :
            /\ got' = Append(got, [device |-> d, packet |-> part])
            /\ IF MayMerge(mode, acc, part)
               THEN /\ acc' = Merge(acc, part)
                    /\ signers' = IF Contributes(acc, part) THEN signers \cup {d} ELSE signers
                    /\ phase' = "merging"
               ELSE phase' = "refused"
      BY <2>4 DEF MergePart, Refuse
    <3>3. CASE MayMerge(mode, acc, part)
      <4>1. signers' = {} => signers = {} /\ ~Contributes(acc, part)
        BY <3>2, <3>3
      <4> QED
        BY <3>1, <3>2, <3>3, <4>1, AnswerMerged
    <3>4. CASE ~MayMerge(mode, acc, part)
      BY <3>1, <3>2, <3>4, AnswerRefused, NotMergeable
    <3> QED
      BY <3>3, <3>4
  <2>5. ASSUME NEW d \in Devices, AcceptRaw(d) PROVE RInv'
    <3>1. /\ phase = "verified" /\ mode = "accept" /\ UNCHANGED <<plan, base, mode>>
          /\ got = <<>> /\ acc = base
      BY <2>5 DEF AcceptRaw, RInv
    <3>2. PICK raw :
            /\ got' = Append(got, [device |-> d, packet |-> Lifted(raw)])
            /\ IF raw.tx = base.tx /\ \A i \in Inputs(raw) : raw.in[i].final # Absent
               THEN acc' = Merge(acc, Lifted(raw)) /\ signers' = {d} /\ phase' = "merging"
               ELSE phase' = "refused"
      BY <2>5 DEF AcceptRaw, Refuse
    <3>3. CASE raw.tx = base.tx /\ \A i \in Inputs(raw) : raw.in[i].final # Absent
      <4>1. SoundBase
        BY <3>1, VerifiedBase DEF RInv, MInv
      <4>2. MayMerge(mode, acc, Lifted(raw))
        BY <3>1, <3>3, <4>1, RawMerges
      <4>3. signers' # {}
        BY <3>2, <3>3
      <4> QED
        BY <3>1, <3>2, <3>3, <4>2, <4>3, AnswerMerged
    <3>4. CASE ~(raw.tx = base.tx /\ \A i \in Inputs(raw) : raw.in[i].final # Absent)
      <4>1. ~FaithfulRound' /\ phase' = "refused"
        BY <3>1, <3>2, <3>4, RawRefused
      <4> QED
        BY <3>1, <3>2, <4>1, AnswerRefused
    <3> QED
      BY <3>3, <3>4
  <2> QED
    BY <2>1, <2>2, <2>3, <2>4, <2>5 DEF CNext
<1> QED
  BY <1>1, <1>2, MInvHolds, GInvHolds, PTL DEF CSpec

(* A round in which everybody signed the verified transaction and said     *)
(* nothing untrue of it is never refused: merge, Finalize and the second   *)
(* look at the plan all let it through.                                    *)
THEOREM FaithfulRoundsAreSigned == CSpec => []FaithfulRoundIsSigned
<1>1. RInv => FaithfulRoundIsSigned
  BY DEF RInv
<1> QED
  BY <1>1, RInvHolds, PTL
=============================================================================
