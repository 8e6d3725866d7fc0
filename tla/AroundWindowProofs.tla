------------------------- MODULE AroundWindowProofs -------------------------
(***************************************************************************)
(* What the armed window relies on: the gate of the peer checks, the       *)
(* reserve and the wallet's files, each for every value of its constants,  *)
(* and the four parts side by side (of the journal, JournalProofs).        *)
(***************************************************************************)
EXTENDS AroundWindow, JournalProofs, FiniteSetTheorems, TLAPS

-----------------------------------------------------------------------------
(***************************************************************************)
(* The gate between probing and arming, for any batch, any peers and any   *)
(* values of LND's two timers.                                             *)
(***************************************************************************)

(* Probes are made in order, each once. *)
Ordered ==
  /\ stage \in {"list", "check", "usable"} => holds = {}
  /\ stage = "probe" => holds \subseteq 1..i - 1
  /\ stage = "answer" => holds \subseteq 1..i

(* A sweep comes before the bound. *)
Swept == \A k \in holds : heldFor[k] < PeerBound

GateInv == Ordered /\ Swept /\ AssumedOutlastsHeld /\ GateIsSound

LEMMA LenIsNat == Len(Wants) \in Nat
BY PreflightAssumption

LEMMA LessType ==
  \A t \in Nat : Less(t) \in Nat /\ Less(t) <= t /\ t <= Less(t) + 1
BY DEF Less

LEMMA BoundsAreNat == HoldUpperBound \in Nat /\ PeerBound = HoldUpperBound
BY PreflightAssumption DEF HoldUpperBound, PeerBound

(***************************************************************************)
(* Type correctness: no hold is counted beyond the bound, and no sleep of  *)
(* waitForPeers is longer than its limit.                                  *)
(***************************************************************************)
THEOREM PreflightTypes == PreflightSpec => []PreflightTypeOK
<1> USE PreflightAssumption, LenIsNat
<1>1. PreflightInit => PreflightTypeOK
  BY DEF PreflightInit, PreflightTypeOK, HoldUpperBound, PeerBound, Probes
<1>2. PreflightTypeOK /\ [PreflightNext]_pvars => PreflightTypeOK'
  <2> SUFFICES ASSUME PreflightTypeOK, [PreflightNext]_pvars PROVE PreflightTypeOK'
    OBVIOUS
  <2> USE DEF PreflightTypeOK, Probes
  <2>1. CASE ListPeers
    BY <2>1 DEF ListPeers, peerSide
  <2>2. CASE CheckPeer
    <3>1. Wants[i] \in Peers
      BY <2>2 DEF CheckPeer
    <3>2. /\ facts' \in [Probes -> {"none", "already", "connected",
                                    "not_tried", "unreachable"}]
          /\ link' \in SUBSET Peers
      BY <2>2, <3>1 DEF CheckPeer, Record
    <3>3. stage' \in {"check", "usable"} /\ i' \in 1..Len(Wants) + 1
      BY <2>2 DEF CheckPeer, NextWant
    <3> QED BY <2>2, <3>2, <3>3 DEF CheckPeer
  <2>3. CASE AllUsable
    BY <2>3 DEF AllUsable, Fail, peerSide
  <2>4. CASE ProbeAccepted
    BY <2>4 DEF ProbeAccepted, PeerBound
  <2>5. CASE ProbeRefused
    BY <2>5 DEF ProbeRefused, NextWant, peerSide
  <2>6. CASE ProbeAnswered
    BY <2>6 DEF ProbeAnswered, HoldUpperBound, peerSide
  <2>7. CASE ProbeFails
    BY <2>7 DEF ProbeFails, peerSide
  <2>8. CASE CheckGate
    BY <2>8 DEF CheckGate, peerSide
  <2>9. CASE Measure
    <3>1. \A k \in Probes : NapFor(left[k]) \in 0..NapLimit
      BY DEF NapFor, HoldUpperBound
    <3> QED BY <2>9, <3>1 DEF Measure, Fail, peerSide
  <2>10. CASE Wake \/ NapInterrupted
    BY <2>10 DEF Wake, NapInterrupted, Fail, peerSide
  <2>11. CASE Elapse
    <3>1. nap' \in 0..NapLimit
      BY <2>11, LessType DEF Elapse
    <3>2. left' \in [Probes -> 0..HoldUpperBound]
      <4>1. ASSUME NEW k \in Probes PROVE Less(left[k]) \in 0..HoldUpperBound
        <5>1. left[k] \in Nat /\ left[k] <= HoldUpperBound
          BY BoundsAreNat
        <5>2. Less(left[k]) \in Nat /\ Less(left[k]) <= left[k]
          BY <5>1, LessType
        <5> HIDE DEF PreflightTypeOK
        <5> QED BY <5>1, <5>2, BoundsAreNat
      <4> QED BY <2>11, <4>1 DEF Elapse
    <3>3. heldFor' \in [Probes -> 0..PeerBound]
      BY <2>11 DEF Elapse, PeerBound
    <3> QED BY <2>11, <3>1, <3>2, <3>3 DEF Elapse
  <2>12. ASSUME NEW k \in Probes, PeerSweeps(k) PROVE PreflightTypeOK'
    BY <2>12 DEF PeerSweeps
  <2>13. ASSUME NEW p \in Peers, LinkDrops(p) PROVE PreflightTypeOK'
    BY <2>13 DEF LinkDrops
  <2>14. CASE UNCHANGED pvars
    BY <2>14 DEF pvars
  <2> QED
    BY <2>1, <2>2, <2>3, <2>4, <2>5, <2>6, <2>7, <2>8, <2>9, <2>10, <2>11,
       <2>12, <2>13, <2>14 DEF PreflightNext, Prepare, Done
<1> QED BY <1>1, <1>2, PTL DEF PreflightSpec

LEMMA GateInvInit == PreflightInit => GateInv
BY DEF PreflightInit, GateInv, Ordered, Swept, AssumedOutlastsHeld, GateIsSound

LEMMA GateInvStep ==
  PreflightTypeOK /\ GateInv /\ [PreflightNext]_pvars => GateInv'
<1> SUFFICES ASSUME PreflightTypeOK, GateInv, [PreflightNext]_pvars PROVE GateInv'
  OBVIOUS
<1> USE PreflightAssumption, LenIsNat
    DEF PreflightTypeOK, Probes, GateInv, Ordered, Swept, AssumedOutlastsHeld, GateIsSound
<1>1. CASE ListPeers \/ AllUsable \/ NapInterrupted
  BY <1>1 DEF ListPeers, AllUsable, NapInterrupted, Fail, peerSide
<1>2. CASE CheckPeer
  BY <1>2 DEF CheckPeer, NextWant
<1>3. CASE ProbeAccepted
  BY <1>3 DEF ProbeAccepted, PeerBound
<1>4. CASE ProbeRefused
  BY <1>4 DEF ProbeRefused, NextWant, peerSide
<1>5. CASE ProbeAnswered
  BY <1>5 DEF ProbeAnswered, peerSide, HoldUpperBound, PeerBound
<1>6. CASE ProbeFails
  BY <1>6 DEF ProbeFails, peerSide
<1>7. CASE CheckGate
  <2>1. ReadyToArm => holds \subseteq lost
    BY <1>7 DEF CheckGate, ReadyToArm, Held, PeerBound, HoldUpperBound
  <2> QED BY <1>7, <2>1 DEF CheckGate, peerSide
<1>8. CASE Measure \/ Wake
  BY <1>8 DEF Measure, Wake, Fail, peerSide
<1>9. CASE Elapse
  <2>1. \A k \in holds : /\ heldFor'[k] = heldFor[k] + 1
                         /\ left'[k] = Less(left[k])
                         /\ heldFor'[k] < PeerBound
    BY <1>9 DEF Elapse
  <2>2. ASSUME NEW k \in holds
        PROVE  left[k] \in Nat /\ left[k] <= Less(left[k]) + 1
    <3>1. left[k] \in Nat
      BY BoundsAreNat
    <3> QED BY <3>1, LessType
  <2>3. \A k \in holds : Less(left[k]) \in Nat
    BY <2>2, LessType
  <2>4. AssumedOutlastsHeld'
    <3>1. stage' = stage /\ i' = i /\ holds' = holds /\ lost' = lost
      BY <1>9 DEF Elapse
    <3>2. \A k \in holds : heldFor[k] \in Nat
      BY BoundsAreNat
    <3>3. ASSUME NEW k \in holds \ lost, stage # "answer" \/ k # i
          PROVE  heldFor'[k] + left'[k] >= PeerBound
      <4>1. heldFor[k] + left[k] >= PeerBound
        BY <3>3
      <4> QED BY <2>1, <2>2, <2>3, <3>2, <4>1, BoundsAreNat
    <3> QED BY <3>1, <3>3
  <2> QED BY <1>9, <2>1, <2>4 DEF Elapse, Stopped
<1>10. ASSUME NEW k \in Probes, PeerSweeps(k) PROVE GateInv'
  BY <1>10 DEF PeerSweeps
<1>11. CASE UNCHANGED pvars \/ \E p \in Peers : LinkDrops(p)
  BY <1>11 DEF pvars, LinkDrops
<1> QED
  BY <1>1, <1>2, <1>3, <1>4, <1>5, <1>6, <1>7, <1>8, <1>9, <1>10, <1>11
     DEF PreflightNext, Prepare, Done

(***************************************************************************)
(* When the gate says so, no peer holds a slot that a probe of ours took:  *)
(* a probe is counted as held for as long as its peer may hold it.  The    *)
(* one exception is a probe whose answer was lost after the peer accepted. *)
(***************************************************************************)
THEOREM GateHolds == PreflightSpec => [](GateIsSound /\ AssumedOutlastsHeld)
<1>1. PreflightTypeOK /\ GateInv /\ [PreflightNext]_pvars => GateInv'
  BY GateInvStep
<1> QED BY <1>1, PreflightTypes, GateInvInit, PTL DEF PreflightSpec, GateInv

-----------------------------------------------------------------------------
(***************************************************************************)
(* The anchor reserve for any batch, any node and any of LND's amounts.    *)
(* One argument serves all three: between a verify and the reads it is     *)
(* judged by, the batch itself adds at most its other announced members to *)
(* the channels LND counts.                                                *)
(***************************************************************************)

Announced == Cardinality(public)

(* The larger figure of a finding: what one top-up has to cover. *)
Need(f) == Larger(f.atVerify, f.afterBatch)

Reading  == {"balance", "now", "at_verify", "after"}
PaidFor  == {"open", "verify", "verified"}

-----------------------------------------------------------------------------
(* Arithmetic and counting. *)

LEMMA TimesIsMonotone ==
  ASSUME NEW k \in Nat, NEW a \in Nat, NEW b \in Nat, a <= b
  PROVE  k * a \in Nat /\ k * b \in Nat /\ k * a <= k * b
<1>1. PICK e \in Nat : b = a + e
  BY b - a \in Nat, b = a + (b - a)
<1>2. k * b = k * a + k * e
  BY <1>1
<1>3. k * a \in Nat /\ k * e \in Nat /\ k * b \in Nat
  OBVIOUS
<1> QED BY <1>2, <1>3

LEMMA ReserveIsMonotone ==
  ASSUME NEW a \in Nat, NEW b \in Nat, a <= b
  PROVE  /\ RequiredReserve(a) \in Figures
         /\ RequiredReserve(a) <= RequiredReserve(b)
<1>1. /\ Smaller(a, CapChannels) \in Nat /\ Smaller(b, CapChannels) \in Nat
      /\ Smaller(a, CapChannels) <= Smaller(b, CapChannels)
      /\ Smaller(a, CapChannels) <= CapChannels
  BY ReserveAssumption DEF Smaller
<1>2. /\ PerChannel * Smaller(a, CapChannels) \in Nat
      /\ PerChannel * Smaller(b, CapChannels) \in Nat
      /\ PerChannel * Smaller(a, CapChannels) <= PerChannel * Smaller(b, CapChannels)
  BY <1>1, TimesIsMonotone, ReserveAssumption
<1>3. /\ PerChannel * CapChannels \in Nat
      /\ PerChannel * Smaller(a, CapChannels) <= PerChannel * CapChannels
  BY <1>1, TimesIsMonotone, ReserveAssumption
<1> QED BY <1>2, <1>3 DEF RequiredReserve, Figures

LEMMA MembersAreCounted ==
  /\ IsFiniteSet(Members) /\ Cardinality(Members) = Size
  /\ \A S \in SUBSET Members :
       IsFiniteSet(S) /\ Cardinality(S) \in 0..Size
<1>1. IsFiniteSet(Members) /\ Cardinality(Members) = Size
  BY FS_Interval, ReserveAssumption DEF Members
<1>2. ASSUME NEW S \in SUBSET Members
      PROVE  IsFiniteSet(S) /\ Cardinality(S) \in 0..Size
  BY <1>1, FS_Subset, FS_CardinalityType, ReserveAssumption
<1> QED BY <1>1, <1>2

LEMMA BatchType ==
  ASSUME NEW S \in SUBSET Members
  PROVE  Batch(S) \in BatchSizes /\ Batch(S).public = Cardinality(S)
BY MembersAreCounted, ReserveAssumption DEF Batch, BatchSizes

(* The members of the batch LND counts when it judges a further one. *)
LEMMA OthersAreFewer ==
  ASSUME NEW S \in SUBSET Members, NEW T \in SUBSET Members, NEW n \in S, n \notin T
  PROVE  Cardinality(T \cap S) + 1 <= Cardinality(S)
<1>1. IsFiniteSet(S) /\ Cardinality(S) \in Nat
  BY MembersAreCounted
<1>2. IsFiniteSet(S \ {n}) /\ Cardinality(S \ {n}) = Cardinality(S) - 1
  BY <1>1, FS_RemoveElement
<1>3. T \cap S \subseteq S \ {n}
  OBVIOUS
<1>4. Cardinality(T \cap S) <= Cardinality(S \ {n}) /\ Cardinality(T \cap S) \in Nat
  BY <1>2, <1>3, FS_Subset, FS_CardinalityType
<1> QED BY <1>1, <1>2, <1>4

-----------------------------------------------------------------------------
(***************************************************************************)
(* Type correctness: every figure, and the top-up computed from them, lies *)
(* between nothing and LND's own ceiling (plan.ReserveTopUp).              *)
(***************************************************************************)
LEMMA CountedIsNat ==
  ReserveTypeOK => /\ existing \in Nat /\ Counted \in Nat /\ Announced \in 0..Size
            /\ Counted + 1 \in Nat /\ existing + Announced \in Nat
            /\ Counted + finding.batch.public \in Nat
<1> SUFFICES ASSUME ReserveTypeOK
             PROVE  existing \in Nat /\ Counted \in Nat /\ Announced \in 0..Size
                    /\ finding.batch.public \in Nat
  OBVIOUS
<1>1. completed \cap public \in SUBSET Members /\ public \in SUBSET Members
  BY DEF ReserveTypeOK
<1>2. Cardinality(completed \cap public) \in Nat /\ Announced \in 0..Size
  BY <1>1, MembersAreCounted DEF Announced
<1> QED BY <1>2, ReserveAssumption DEF ReserveTypeOK, Counted, BatchSizes

LEMMA TopUpType ==
  ReserveTypeOK => ReserveTopUp(finding) \in Figures
<1>1. PerChannel * CapChannels \in Nat
  BY ReserveAssumption
<1> HIDE DEF Figures
<1>2. SUFFICES ASSUME ReserveTypeOK PROVE ReserveTopUp(finding) \in Figures
  OBVIOUS
<1>3. /\ finding.available \in Nat
      /\ finding.atVerify \in Figures /\ finding.afterBatch \in Figures
  BY <1>2, ReserveAssumption DEF ReserveTypeOK
<1>4. \A f \in Figures, h \in Nat : Shortfall(f, h) \in Figures
  BY <1>1 DEF Figures, Shortfall, Larger
<1>5. 0 \in Figures
  BY <1>1 DEF Figures
<1>6. \A a, b \in Figures : Larger(a, b) \in Figures
  BY DEF Larger
<1> QED BY <1>3, <1>4, <1>5, <1>6 DEF ReserveTopUp

THEOREM ReserveTypes == ReserveSpec => []ReserveTypeOK
<1> USE ReserveAssumption
<1>1. ReserveInit => ReserveTypeOK
  <2> SUFFICES ASSUME ReserveInit PROVE ReserveTypeOK
    OBVIOUS
  <2>1. Batch(public) \in BatchSizes
    BY BatchType DEF ReserveInit
  <2>2. 0 \in Figures
    BY DEF Figures
  <2>3. drifted \in BOOLEAN
    BY DEF ReserveInit
  <2>4. Members \subseteq Members /\ {} \subseteq Members /\ 1 \in 1..Size + 1
    OBVIOUS
  <2> QED BY <2>1, <2>2, <2>3, <2>4 DEF ReserveInit, ReserveTypeOK
<1>2. ReserveTypeOK /\ [ReserveNext]_rvars => ReserveTypeOK'
  <2> SUFFICES ASSUME ReserveTypeOK, [ReserveNext]_rvars PROVE ReserveTypeOK'
    OBVIOUS
  <2>1. /\ \A n \in Nat : RequiredReserve(n) \in Figures
        /\ Counted \in Nat /\ Counted + 1 \in Nat
        /\ Counted + finding.batch.public \in Nat
    BY CountedIsNat, ReserveIsMonotone
  <2>2. AfterBatch(finding) \in Figures
    BY <2>1 DEF AfterBatch, ReserveTypeOK
  <2> HIDE DEF Figures
  <2>3. CASE ReadAvailable
    BY <2>3 DEF ReadAvailable, ReserveTypeOK, node
  <2>4. CASE ReadNow
    BY <2>4, <2>1 DEF ReadNow, ReserveTypeOK, node
  <2>5. CASE ReadAtVerify
    BY <2>5, <2>1 DEF ReadAtVerify, ReserveTypeOK, node
  <2>6. CASE ReadAfterBatch
    BY <2>6, <2>2 DEF ReadAfterBatch, ReserveTypeOK, node
  <2>7. CASE CannotAsk \/ NoAddress \/ StreamsOpen
    BY <2>7 DEF CannotAsk, NoAddress, StreamsOpen, ReserveTypeOK, node
  <2>8. CASE PlanTopUp
    BY <2>8, TopUpType DEF PlanTopUp, ReserveTypeOK, node
  <2>9. CASE PsbtVerify
    <3>1. next \in Members /\ next + 1 \in 1..Size + 1
      BY <2>9 DEF PsbtVerify, Members
    <3>2. next' \in 1..Size + 1 /\ refused' \subseteq Members
      BY <2>9, <3>1 DEF PsbtVerify, ReserveTypeOK
    <3>3. phase' \in {"verify", "verified", "failed"}
      BY <2>9 DEF PsbtVerify
    <3> QED BY <2>9, <3>2, <3>3 DEF PsbtVerify, ReserveTypeOK, node
  <2>10. ASSUME NEW c \in Members, CompleteReservation(c) PROVE ReserveTypeOK'
    BY <2>10 DEF CompleteReservation, ReserveTypeOK
  <2>11. CASE Relief
    BY <2>11 DEF Relief, ReserveTypeOK
  <2>12. CASE Drift
    BY <2>12 DEF Drift, ReserveTypeOK
  <2>13. CASE ReserveOver \/ UNCHANGED rvars
    BY <2>13 DEF ReserveOver, rvars, ReserveTypeOK
  <2> QED BY <2>3, <2>4, <2>5, <2>6, <2>7, <2>8, <2>9, <2>10, <2>11, <2>12, <2>13
             DEF ReserveNext
<1> QED BY <1>1, <1>2, PTL DEF ReserveSpec

-----------------------------------------------------------------------------
(* What a refusal needs to be explained: the finding is about this batch,  *)
(* the top-up paid is the finding's, and a verified member is one already  *)
(* asked for.                                                              *)
PaidInv ==
  /\ finding.batch = Batch(public)
  /\ \A c \in completed : c < next
  /\ phase \in Reading \cup {"top_up", "open"} => next = 1
  /\ phase \in PaidFor => topUp = ReserveTopUp(finding)
  /\ refused # {} => phase = "failed"
  /\ RefusalMeansDrift

LEMMA TopUpCovers ==
  ReserveTypeOK /\ PaidInv /\ phase \in PaidFor /\ public # {}
    => finding.available + topUp >= Need(finding)
<1> SUFFICES ASSUME ReserveTypeOK, PaidInv, phase \in PaidFor, public # {}
             PROVE  finding.available + topUp >= Need(finding)
  OBVIOUS
<1>1. public \in SUBSET Members /\ IsFiniteSet(public)
  BY MembersAreCounted DEF ReserveTypeOK
<1>2. Cardinality(public) # 0
  BY <1>1, FS_EmptySet
<1>3. Verdict(finding) # "not_applicable"
  BY <1>1, <1>2, BatchType DEF PaidInv, Verdict
<1>4. topUp = Larger(Shortfall(finding.atVerify, finding.available),
                     Shortfall(finding.afterBatch, finding.available))
  BY <1>3 DEF PaidInv, ReserveTopUp
<1>5. finding.available \in Nat /\ finding.atVerify \in Nat /\ finding.afterBatch \in Nat
  BY DEF ReserveTypeOK, Figures
<1> QED BY <1>4, <1>5 DEF Need, Larger, Shortfall

(* One refused psbt_verify, judged by the channels LND counts at it. *)
LEMMA RefusalIsExplained ==
  ASSUME ReserveTypeOK, PaidInv, phase = "verify", next \in public, ~Covered
  PROVE  \/ balance < finding.available
         \/ RequiredReserve(existing + finding.batch.public) > Need(finding)
<1>1. completed \in SUBSET Members /\ public \in SUBSET Members /\ next \notin completed
  BY DEF ReserveTypeOK, PaidInv, Members
<1>2. Cardinality(completed \cap public) + 1 <= Announced
  BY <1>1, OthersAreFewer DEF Announced
<1>3. Cardinality(completed \cap public) \in Nat
  BY <1>1, MembersAreCounted
<1>4. finding.batch.public = Announced
  BY <1>1, BatchType DEF PaidInv, Announced
<1>5. /\ existing \in Nat /\ Announced \in Nat /\ balance \in Nat /\ topUp \in Nat
      /\ finding.available \in Nat
  BY CountedIsNat, ReserveAssumption DEF ReserveTypeOK, Figures
<1>6. Counted + 1 <= existing + Announced
  BY <1>2, <1>3, <1>5 DEF Counted
<1>7. /\ RequiredReserve(Counted + 1) \in Nat
      /\ RequiredReserve(existing + Announced) \in Nat
      /\ RequiredReserve(Counted + 1) <= RequiredReserve(existing + Announced)
  BY <1>6, CountedIsNat, ReserveIsMonotone DEF Figures
<1>8. finding.available + topUp >= Need(finding)
  BY TopUpCovers DEF PaidFor
<1>9. balance + topUp < RequiredReserve(Counted + 1)
  BY <1>5, <1>7 DEF Covered
<1>10. Need(finding) \in Nat
  BY DEF Need, Larger, ReserveTypeOK, Figures
<1> QED BY <1>4, <1>5, <1>7, <1>8, <1>9, <1>10

LEMMA PaidInvStep == ReserveTypeOK /\ PaidInv /\ [ReserveNext]_rvars => PaidInv'
<1> SUFFICES ASSUME ReserveTypeOK, PaidInv, [ReserveNext]_rvars PROVE PaidInv'
  OBVIOUS
<1> USE DEF PaidInv, RefusalMeansDrift, Reading, PaidFor, node
<1>1. CASE ReadAvailable \/ ReadNow \/ ReadAtVerify \/ ReadAfterBatch
  BY <1>1 DEF ReadAvailable, ReadNow, ReadAtVerify, ReadAfterBatch, ReserveTypeOK
<1>2. CASE CannotAsk \/ NoAddress \/ StreamsOpen
  BY <1>2 DEF CannotAsk, NoAddress, StreamsOpen
<1>3. CASE PlanTopUp
  BY <1>3 DEF PlanTopUp
<1>4. CASE PsbtVerify
  <2>1. CASE next \in public /\ ~Covered
    <3>1. /\ \/ balance < finding.available
             \/ RequiredReserve(existing + finding.batch.public) > Need(finding)
          /\ UNCHANGED <<balance, finding, existing, public, completed, topUp, next>>
      BY <1>4, <2>1, RefusalIsExplained DEF PsbtVerify
    <3> QED BY <1>4, <2>1, <3>1 DEF PsbtVerify, Need
  <2>2. CASE ~(next \in public /\ ~Covered)
    BY <1>4, <2>2 DEF PsbtVerify, ReserveTypeOK, Members
  <2> QED BY <2>1, <2>2
<1>5. ASSUME NEW c \in Members, CompleteReservation(c) PROVE PaidInv'
  BY <1>5 DEF CompleteReservation
<1>6. CASE Relief \/ Drift
  BY <1>6 DEF Relief, Drift
<1>7. CASE ReserveOver \/ UNCHANGED rvars
  BY <1>7 DEF ReserveOver, rvars
<1> QED BY <1>1, <1>2, <1>3, <1>4, <1>5, <1>6, <1>7 DEF ReserveNext

(***************************************************************************)
(* A psbt_verify is refused for the reserve only if somebody else spent    *)
(* the coins the pre-flight read or raised what the node needs: the        *)
(* batch's own channels, becoming pending one after another under it,      *)
(* never are the reason.                                                   *)
(***************************************************************************)
THEOREM RefusalIsOthers == ReserveSpec => []RefusalMeansDrift
<1>1. ReserveInit => PaidInv
  BY DEF ReserveInit, PaidInv, Reading, PaidFor, RefusalMeansDrift
<1> QED BY <1>1, ReserveTypes, PaidInvStep, PTL DEF ReserveSpec, PaidInv

-----------------------------------------------------------------------------
(* With nobody else at the wallet a figure, once read, stays large enough. *)
CoverInv ==
  /\ phase \in {"now", "at_verify", "after", "top_up"} \cup PaidFor
       => finding.available <= balance
  /\ phase \in {"after", "top_up"} \cup PaidFor
       => RequiredReserve(existing + 1) <= finding.atVerify
  /\ phase \in {"top_up"} \cup PaidFor /\ public # {}
       => RequiredReserve(existing + Announced) <= Need(finding)
  /\ refused = {}

Undisturbed == ~drifted => CoverInv

(* While nothing is verified, LND counts only what was there before. *)
LEMMA NothingYet == ReserveTypeOK /\ PaidInv /\ next = 1 => completed = {} /\ Counted = existing
<1> SUFFICES ASSUME ReserveTypeOK, PaidInv, next = 1 PROVE completed = {} /\ Counted = existing
  OBVIOUS
<1>1. completed = {}
  BY DEF ReserveTypeOK, PaidInv, Members
<1>2. Cardinality(completed \cap public) = 0
  BY <1>1, FS_EmptySet
<1> QED BY <1>1, <1>2 DEF Counted, ReserveTypeOK

LEMMA CoverInvStep ==
  ReserveTypeOK /\ PaidInv /\ Undisturbed /\ [ReserveNext]_rvars => Undisturbed'
<1> SUFFICES ASSUME ReserveTypeOK, PaidInv, Undisturbed, [ReserveNext]_rvars, ~drifted'
             PROVE  CoverInv'
  BY DEF Undisturbed
<1>a. ~drifted /\ ~Drift
  BY DEF ReserveNext, ReadAvailable, ReadNow, ReadAtVerify, ReadAfterBatch, CannotAsk,
         PlanTopUp, NoAddress, StreamsOpen, PsbtVerify, CompleteReservation, Relief,
         Drift, ReserveOver, rvars, node
<1>b. CoverInv
  BY <1>a DEF Undisturbed
<1> USE <1>b
<1>0. /\ existing \in Nat /\ Announced \in Nat /\ balance \in Nat
      /\ \A n \in Nat : RequiredReserve(n) \in Nat
      /\ \A a, b \in Nat : a <= b => RequiredReserve(a) <= RequiredReserve(b)
  BY CountedIsNat, ReserveIsMonotone, ReserveAssumption DEF ReserveTypeOK, Figures
<1>1. CASE ReadAvailable \/ ReadNow
  BY <1>1, <1>0 DEF ReadAvailable, ReadNow, CoverInv, PaidFor,
                    node, ReserveTypeOK
<1>2. CASE ReadAtVerify
  <2>1. Counted = existing
    BY <1>2, NothingYet DEF ReadAtVerify, PaidInv, Reading
  <2> QED BY <1>2, <1>0, <2>1 DEF ReadAtVerify, CoverInv,
             PaidFor, node, ReserveTypeOK
<1>3. CASE ReadAfterBatch
  <2>1. Counted = existing
    BY <1>3, NothingYet DEF ReadAfterBatch, PaidInv, Reading
  <2>2. finding.batch.public = Announced
    BY BatchType DEF PaidInv, ReserveTypeOK, Announced
  <2>3. public # {} => Announced # 0
    BY FS_EmptySet, MembersAreCounted DEF ReserveTypeOK, Announced
  <2>4. public # {} => AfterBatch(finding) >= RequiredReserve(existing + Announced)
    BY <1>3, <1>0, <2>1, <2>2, <2>3 DEF ReadAfterBatch, AfterBatch, CoverInv
  <2>5. /\ finding'.afterBatch = AfterBatch(finding)
        /\ finding'.atVerify = finding.atVerify
        /\ finding'.available = finding.available
    BY <1>3 DEF ReadAfterBatch, ReserveTypeOK
  <2>6. AfterBatch(finding) \in Nat /\ finding.atVerify \in Nat
    BY <1>0, <2>1, <2>2, CountedIsNat DEF AfterBatch, ReserveTypeOK, Figures
  <2>7. Need(finding') >= AfterBatch(finding)
    BY <2>5, <2>6 DEF Need, Larger
  <2>8. public # {} => RequiredReserve(existing + Announced) <= Need(finding')
    BY <1>0, <2>4, <2>5, <2>6 DEF Need, Larger
  <2>9. UNCHANGED <<public, existing, balance, refused>> /\ phase' = "top_up" /\ phase = "after"
    BY <1>3 DEF ReadAfterBatch, node
  <2> QED BY <2>5, <2>8, <2>9 DEF CoverInv, PaidFor, Announced
<1>4. CASE CannotAsk \/ NoAddress \/ StreamsOpen \/ PlanTopUp \/ PsbtVerify
  <2>1. PsbtVerify => ~(next \in public /\ ~Covered)
    <3>1. SUFFICES ASSUME PsbtVerify, next \in public, ~Covered PROVE FALSE
      OBVIOUS
    <3>2. /\ finding.available <= balance
          /\ RequiredReserve(existing + Announced) <= Need(finding)
      BY <3>1 DEF PsbtVerify, CoverInv, PaidFor
    <3>3. finding.batch.public = Announced
      BY BatchType DEF PaidInv, ReserveTypeOK, Announced
    <3>4. finding.available \in Nat /\ Need(finding) \in Nat
      BY ReserveAssumption DEF ReserveTypeOK, Figures, Need, Larger
    <3> QED BY <1>0, <3>1, <3>2, <3>3, <3>4, RefusalIsExplained DEF PsbtVerify
  <2> QED BY <1>4, <2>1 DEF CannotAsk, NoAddress, StreamsOpen, PlanTopUp, PsbtVerify,
             CoverInv, PaidFor, Announced, Need, node
<1>5. ASSUME NEW c \in Members, CompleteReservation(c) PROVE CoverInv'
  BY <1>5 DEF CompleteReservation, CoverInv, PaidFor, Announced, Need
<1>6. CASE Relief
  <2>1. /\ balance' \in Nat /\ balance' >= balance
        /\ existing' \in Nat /\ existing' <= existing
        /\ UNCHANGED <<phase, public, finding, refused>>
    BY <1>6, <1>0 DEF Relief
  <2>2. /\ RequiredReserve(existing' + 1) <= RequiredReserve(existing + 1)
        /\ RequiredReserve(existing' + Announced) <= RequiredReserve(existing + Announced)
        /\ RequiredReserve(existing' + 1) \in Nat
        /\ RequiredReserve(existing' + Announced) \in Nat
        /\ RequiredReserve(existing + 1) \in Nat
        /\ RequiredReserve(existing + Announced) \in Nat
    BY <1>0, <2>1
  <2>3. finding.available \in Nat /\ finding.atVerify \in Nat /\ Need(finding) \in Nat
    BY ReserveAssumption DEF ReserveTypeOK, Figures, Need, Larger
  <2>4. Announced' = Announced /\ Need(finding)' = Need(finding)
    BY <2>1 DEF Announced, Need
  <2>5. /\ RequiredReserve(existing + 1)' = RequiredReserve(existing' + 1)
        /\ RequiredReserve(existing + Announced)' = RequiredReserve(existing' + Announced)
    BY <2>4 DEF RequiredReserve
  <2> QED BY <1>0, <2>1, <2>2, <2>3, <2>4, <2>5 DEF CoverInv, PaidFor
<1>7. CASE UNCHANGED rvars \/ ReserveOver
  BY <1>7 DEF rvars, ReserveOver, CoverInv, PaidFor, Announced, Need
<1> QED BY <1>a, <1>1, <1>2, <1>3, <1>4, <1>5, <1>6, <1>7 DEF ReserveNext

LEMMA CoveredAfterwards ==
  ReserveTypeOK /\ PaidInv /\ Undisturbed => NodeIsWholeAfterwards
<1> SUFFICES ASSUME ReserveTypeOK, PaidInv, CoverInv, phase = "verified", public # {}
             PROVE  balance + topUp >= RequiredReserve(existing + Announced)
  BY DEF NodeIsWholeAfterwards, Announced, Undisturbed
<1>1. finding.available + topUp >= Need(finding)
  BY TopUpCovers DEF PaidFor
<1>2. /\ finding.available <= balance
      /\ RequiredReserve(existing + Announced) <= Need(finding)
  BY DEF CoverInv, PaidFor
<1>3. /\ finding.available \in Nat /\ Need(finding) \in Nat
      /\ balance \in Nat /\ topUp \in Nat
      /\ RequiredReserve(existing + Announced) \in Nat
  BY CountedIsNat, ReserveIsMonotone, ReserveAssumption
     DEF ReserveTypeOK, Figures, Need, Larger
<1> QED BY <1>1, <1>2, <1>3

(***************************************************************************)
(* With nobody else at the wallet the finding's two figures and one output *)
(* are enough: no announced channel of the batch is refused, and once all  *)
(* are verified the node can pay for all of them.                          *)
(***************************************************************************)
THEOREM ReserveSuffices ==
  ReserveSpec => [](VerifyIsNeverRefused /\ NodeIsWholeAfterwards)
<1>1. ReserveInit => PaidInv /\ Undisturbed
  BY DEF ReserveInit, PaidInv, Undisturbed, CoverInv, Reading, PaidFor, RefusalMeansDrift
<1>2. ReserveTypeOK /\ PaidInv /\ Undisturbed /\ [ReserveNext]_rvars => Undisturbed'
  BY CoverInvStep
<1>3. Undisturbed => VerifyIsNeverRefused
  BY DEF Undisturbed, CoverInv, VerifyIsNeverRefused
<1> QED BY <1>1, <1>2, <1>3, ReserveTypes, PaidInvStep, CoveredAfterwards, PTL DEF ReserveSpec

(***************************************************************************)
(* The second figure by itself: after the batch the node holds what LND    *)
(* reserves for every announced member (plan.ReserveTopUp).                *)
(***************************************************************************)
THEOREM TopUpCoversTheBatch == ReserveSpec => []NodeIsWholeAfterwards
BY ReserveSuffices, PTL

-----------------------------------------------------------------------------
(***************************************************************************)
(* The file transport for files of any length, any number of saves and     *)
(* whatever earlier attempts have left: what the poller returns, whoever   *)
(* else writes in the directory meanwhile.                                 *)
(***************************************************************************)

(* A save under way has its file, and the poller looks at a watched path. *)
Linked == /\ save.linked => save.path \in Paths /\ Exists(save.path)
          /\ save # NoSave => save.path \in Paths
InRange == pc = "build" => look.index = 1

FileInv == FileTypeOK /\ Linked /\ InRange

LEMMA WatchedPaths ==
  /\ Len(SignedPaths) = 2 /\ SignedPaths[1] = SignedPath /\ SignedPaths[2] = "txn"
  /\ ToClear = {SignedPath, "txn"}
BY DEF SignedPaths, ToClear, ToSet

LEMMA LookingType ==
  FileInv => /\ pc = "build" => Looking = Unsigned /\ Len(Watched) = 1
             /\ pc = "sign" => Looking \in {SignedPath, "txn"} /\ Len(Watched) = 2
BY WatchedPaths DEF FileInv, FileTypeOK, InRange, Looking, Watched

LookType == [index : 1..2, step : {"stat", "read", "again", "tick"},
             before : 0..Whole, body : Files]

(* Where the poller goes when a path had nothing for it. *)
At(k, s) == [index |-> k, step |-> s, before |-> 0, body |-> Absent]

LEMMA AbsentType == Absent \in Files /\ Absent.size = 0
BY DEF Files, Absent

LEMMA AtType ==
  \A k \in 1..2, s \in {"stat", "read", "again", "tick"} :
    At(k, s) \in LookType /\ At(k, s).index = k
BY AbsentType, FileWalletAssumption DEF LookType, At

LEMMA IdleIsAt ==
  /\ Idle = At(1, "stat")
  /\ \A k \in 1..2 : [Idle EXCEPT !.index = k] = At(k, "stat")
  /\ [Idle EXCEPT !.step = "tick"] = At(1, "tick")
BY DEF Idle, At

(* The poller moves on to the next path, or waits for its ticker. *)
LEMMA LookedAwayType ==
  FileInv /\ pc \in {"build", "sign"} /\ LookedAway
    => look' = At(1, "tick") \/ (pc = "sign" /\ look' = At(2, "stat"))
<1> SUFFICES ASSUME FileInv, pc \in {"build", "sign"}, LookedAway
             PROVE  look' = At(1, "tick") \/ (pc = "sign" /\ look' = At(2, "stat"))
  OBVIOUS
<1>1. look.index \in 1..2
  BY DEF FileInv, FileTypeOK
<1>2. CASE look.index < Len(Watched)
  <2>1. pc = "sign" /\ look.index = 1
    <3>1. CASE pc = "build"
      <4>1. Len(Watched) = 1
        BY <3>1, LookingType
      <4>2. look.index < 1
        BY <1>2, <4>1
      <4> QED BY <1>1, <4>2
    <3>2. CASE pc = "sign"
      <4>1. Len(Watched) = 2
        BY <3>2, LookingType
      <4>2. look.index < 2
        BY <1>2, <4>1
      <4> QED BY <1>1, <3>2, <4>2
    <3> QED BY <3>1, <3>2
  <2> QED BY <1>2, <2>1, IdleIsAt DEF LookedAway
<1>3. CASE ~(look.index < Len(Watched))
  BY <1>3, IdleIsAt DEF LookedAway
<1> QED BY <1>2, <1>3

LEMMA FileInvInit == FileInit => FileInv
<1> SUFFICES ASSUME FileInit PROVE FileInv
  OBVIOUS
<1>1. file \in [Paths -> Files]
  BY FileWalletAssumption DEF FileInit, Files, Epochs
<1> QED BY <1>1, FileWalletAssumption
        DEF FileInit, FileInv, FileTypeOK, Linked, InRange, Idle, NoSave, Absent, Files

LEMMA FileInvStep == FileInv /\ [FileNext]_fvars => FileInv'
<1> SUFFICES ASSUME FileInv, [FileNext]_fvars PROVE FileInv'
  OBVIOUS
<1> USE FileWalletAssumption DEF FileInv, Linked, InRange, wallet
<1>1. CASE NewFileWallet \/ WriteRecipients \/ Armed \/ Ask \/ Tick \/ WaitInterrupted
           \/ ClearFails \/ Decode
  BY <1>1 DEF NewFileWallet, WriteRecipients, Armed, Ask, Tick, WaitInterrupted,
              ClearFails, Decode, FileTypeOK, Idle, Absent, Files, Exists
<1>2. CASE Stat \/ ReadFile \/ StatAgain
  <2>1. /\ UNCHANGED <<pc, file, csv, cleared, save, saves>>
        /\ moved' \in {"still", moved}
        /\ answer' \in {answer, look.body}
    BY <1>2 DEF Stat, ReadFile, StatAgain
  <2>2. pc \in {"build", "sign"} /\ Looking \in Paths
    BY <1>2, LookingType DEF Stat, ReadFile, StatAgain, Polling, Paths, Unsigned, SignedPath
  <2>3. file[Looking] \in Files /\ file[Looking].size \in 0..Whole
    BY <2>2 DEF FileTypeOK, Files, Absent
  <2>4. look' \in LookType /\ (pc = "build" => look'.index = 1)
    <3>1. CASE LookedAway
      BY <2>2, <3>1, LookedAwayType, AtType
    <3>2. CASE Stat /\ ~LookedAway
      <4>1. look' = [look EXCEPT !.step = "read", !.before = file[Looking].size]
        BY <3>2 DEF Stat
      <4>2. look \in LookType /\ (pc = "build" => look.index = 1)
        BY DEF FileTypeOK, LookType
      <4> QED BY <2>3, <4>1, <4>2 DEF LookType
    <3>3. CASE ReadFile /\ ~LookedAway
      <4>1. look' = [look EXCEPT !.step = "again", !.body = file[Looking]]
        BY <3>3 DEF ReadFile
      <4>2. look \in LookType /\ (pc = "build" => look.index = 1)
        BY DEF FileTypeOK, LookType
      <4> QED BY <2>3, <4>1, <4>2 DEF LookType
    <3>4. CASE StatAgain /\ ~LookedAway
      BY <3>4, IdleIsAt, AtType DEF StatAgain
    <3> QED BY <1>2, <3>1, <3>2, <3>3, <3>4
  <2> QED BY <2>1, <2>4 DEF FileTypeOK, Exists, LookType
<1>3. ASSUME NEW p \in Paths, ClearPath(p) PROVE FileInv'
  <2>1. file' \in [Paths -> Files]
    BY <1>3, AbsentType DEF ClearPath, FileTypeOK
  <2>2. save' \in [path : Paths \cup {"none"}, linked : BOOLEAN]
    BY <1>3 DEF ClearPath, FileTypeOK
  <2>3. Linked'
    BY <1>3 DEF ClearPath, FileTypeOK, Exists, NoSave
  <2> QED BY <1>3, <2>1, <2>2, <2>3 DEF ClearPath, FileTypeOK
<1>4. ASSUME NEW p \in Paths, NEW kind \in Kinds, SaveBegins(p, kind) PROVE FileInv'
  <2>1. file' \in [Paths -> Files]
    BY <1>4 DEF SaveBegins, FileTypeOK, Files, Epoch, Epochs
  <2>2. Exists(p)'
    BY <1>4 DEF SaveBegins, Exists, Absent, Kinds, FileTypeOK
  <2> QED BY <1>4, <2>1, <2>2 DEF SaveBegins, FileTypeOK
<1>5. CASE SaveWrites
  <2>1. save.path \in Paths /\ file[save.path] \in [kind : Kinds, size : 0..Whole, epoch : Epochs]
    BY <1>5 DEF SaveWrites, FileTypeOK, Files, Exists
  <2>2. /\ file' = [file EXCEPT ![save.path] = [file[save.path] EXCEPT !.size = @ + 1]]
        /\ file[save.path].size + 1 \in 0..Whole
    BY <1>5, <2>1 DEF SaveWrites
  <2>3. file'[save.path] \in [kind : Kinds, size : 0..Whole, epoch : Epochs]
    BY <2>1, <2>2 DEF FileTypeOK
  <2>4. file' \in [Paths -> Files]
    BY <2>1, <2>2, <2>3 DEF FileTypeOK, Files
  <2>5. Exists(save.path)'
    BY <1>5, <2>3 DEF SaveWrites, Exists, Absent, Kinds
  <2> QED BY <1>5, <2>4, <2>5 DEF SaveWrites, FileTypeOK
<1>6. CASE SaveEnds
  BY <1>6 DEF SaveEnds, NoSave, FileTypeOK, Exists
<1>7. CASE WalletOver \/ UNCHANGED fvars
  BY <1>7 DEF WalletOver, fvars, FileTypeOK, Exists
<1> QED BY <1>1, <1>2, <1>3, <1>4, <1>5, <1>6, <1>7 DEF FileNext, Poller

(***************************************************************************)
(* Type correctness: a save that has begun always has a file to write to   *)
(* or knows that it is gone, and the poller never looks past its paths.    *)
(***************************************************************************)
THEOREM FileTypes == FileSpec => [](FileTypeOK /\ Linked)
<1>1. FileInv => FileTypeOK /\ Linked
  BY DEF FileInv
<1> QED BY <1>1, FileInvInit, FileInvStep, PTL DEF FileSpec

-----------------------------------------------------------------------------
(* Everything under a name the run reads was created after what made it    *)
(* the run's to read: the refusal of a file that is already there, and the *)
(* removal of the names Signed watches.                                    *)
Fresh(f, epoch) == f # Absent => f.epoch >= epoch

FreshInv ==
  /\ pc \in {"opening", "build"} => Fresh(file[Unsigned], 1)
  /\ pc = "clear" => \A p \in cleared : Fresh(file[p], 2)
  /\ pc = "sign"  => \A p \in ToClear : Fresh(file[p], 2)
  /\ pc = "build" => Fresh(look.body, 1)
  /\ pc = "sign"  => Fresh(look.body, 2)
  /\ pc \in {"new", "opening", "clear"} => answer = Absent
  /\ pc \notin {"clear", "sign", "signed", "failed"} => cleared = {}
  /\ pc \in {"build", "sign"} /\ look.step = "stat" => look.body = Absent
  /\ NothingStaleIsRead

LEMMA FreshInvStep == FileInv /\ FreshInv /\ [FileNext]_fvars => FreshInv'
<1> SUFFICES ASSUME FileInv, FreshInv, [FileNext]_fvars PROVE FreshInv'
  OBVIOUS
<1> USE DEF FreshInv, NothingStaleIsRead, wallet
<1>1. CASE NewFileWallet \/ WriteRecipients \/ Armed \/ Tick \/ WaitInterrupted
           \/ ClearFails \/ SaveEnds
  BY <1>1 DEF NewFileWallet, WriteRecipients, Armed, Tick, WaitInterrupted, ClearFails,
              SaveEnds, Idle, Fresh, Exists, Polling
<1>2. CASE Ask
  BY <1>2 DEF Ask, Idle, Fresh
<1>3. CASE Decode
  <2>1. \/ pc = "build" /\ pc' \in {"failed", "built"}
        \/ pc = "sign" /\ pc' \in {"failed", "signed"}
    BY <1>3 DEF Decode
  <2>2. UNCHANGED <<file, look, answer, cleared>>
    BY <1>3 DEF Decode
  <2>3. CASE pc = "build"
    BY <2>1, <2>2, <2>3 DEF Fresh
  <2>4. CASE pc = "sign"
    BY <2>1, <2>2, <2>4 DEF Fresh, FileInv, FileTypeOK, Files, Epochs, Absent
  <2> QED BY <2>1, <2>3, <2>4
<1>4. CASE Stat \/ ReadFile \/ StatAgain
  <2>1. /\ pc = "build" => Looking = Unsigned
        /\ pc = "sign" => Looking \in ToClear
    BY LookingType, WatchedPaths
  <2>2. LookedAway => look'.body = Absent
    BY <1>4, LookedAwayType DEF At, Polling, Stat, ReadFile, StatAgain
  <2>3. CASE Stat
    BY <2>2, <2>3 DEF Stat, Fresh, FileInv, FileTypeOK
  <2>4. CASE ReadFile
    BY <2>1, <2>2, <2>4 DEF ReadFile, Fresh, FileInv, FileTypeOK
  <2>5. CASE StatAgain
    BY <2>2, <2>5, IdleIsAt DEF StatAgain, Fresh, At, Polling
  <2> QED BY <1>4, <2>3, <2>4, <2>5
<1>5. ASSUME NEW p \in Paths, ClearPath(p) PROVE FreshInv'
  BY <1>5 DEF ClearPath, Fresh, FileInv, FileTypeOK
<1>6. ASSUME NEW p \in Paths, NEW kind \in Kinds, SaveBegins(p, kind) PROVE FreshInv'
  BY <1>6 DEF SaveBegins, Fresh, FileInv, FileTypeOK, Epoch
<1>7. CASE SaveWrites
  <2>1. \A p \in Paths : file'[p] # Absent => file[p] # Absent /\ file'[p].epoch = file[p].epoch
    BY <1>7 DEF SaveWrites, FileInv, FileTypeOK, Linked, Exists, Files, Absent
  <2>2. ToClear \subseteq Paths /\ Unsigned \in Paths /\ cleared \subseteq Paths
    BY WatchedPaths DEF Paths, Unsigned, SignedPath, FileInv, FileTypeOK
  <2> QED BY <1>7, <2>1, <2>2 DEF SaveWrites, Fresh
<1>8. CASE WalletOver \/ UNCHANGED fvars
  BY <1>8 DEF WalletOver, fvars
<1> QED BY <1>1, <1>2, <1>3, <1>4, <1>5, <1>6, <1>7, <1>8 DEF FileNext, Poller

(***************************************************************************)
(* No file of an earlier attempt is ever taken for an answer of this one,  *)
(* whatever was left, and whatever is saved, removed or rewritten while    *)
(* the poller looks.                                                       *)
(***************************************************************************)
THEOREM NothingStale == FileSpec => []NothingStaleIsRead
<1>1. FileInit => FreshInv
  BY DEF FileInit, FreshInv, NothingStaleIsRead, Idle, Absent
<1>2. FreshInv => NothingStaleIsRead
  BY DEF FreshInv
<1> QED BY <1>1, <1>2, FileInvInit, FileInvStep, FreshInvStep, PTL DEF FileSpec

-----------------------------------------------------------------------------
(* While the poller has a first stat in hand, what happened to the path    *)
(* since says how long the file is.                                        *)
StillInv ==
  pc \in {"build", "sign"} /\ look.step \in {"read", "again"} =>
    /\ answer = Absent
    /\ moved = "still" => file[Looking].size = look.before
    /\ moved = "grew"  => file[Looking].size > look.before

LEMMA StillInvStep == FileInv /\ StillInv /\ [FileNext]_fvars => StillInv'
<1> SUFFICES ASSUME FileInv, StillInv, [FileNext]_fvars PROVE StillInv'
  OBVIOUS
<1> USE DEF StillInv, wallet
<1>0. pc \in {"build", "sign"} => Looking \in Paths
  BY LookingType DEF Paths, Unsigned, SignedPath
<1>1. CASE NewFileWallet \/ WriteRecipients \/ Armed \/ Ask \/ Tick \/ WaitInterrupted
           \/ ClearFails \/ Decode \/ StatAgain
  <2>1. CASE StatAgain
    <3>1. look' = Idle \/ LookedAway
      BY <2>1 DEF StatAgain
    <3>2. pc \in {"build", "sign"}
      BY <2>1 DEF StatAgain, Polling
    <3> QED BY <3>1, <3>2, LookedAwayType DEF Idle, At
  <2> QED BY <1>1, <2>1 DEF NewFileWallet, WriteRecipients, Armed, Ask, Tick,
             WaitInterrupted, ClearFails, Decode, Idle
<1>2. CASE Stat \/ ReadFile
  <2>1. pc \in {"build", "sign"} /\ answer = Absent /\ UNCHANGED <<pc, file, answer>>
    BY <1>2 DEF Stat, ReadFile, Polling
  <2>2. CASE LookedAway
    BY <2>1, <2>2, LookedAwayType DEF At
  <2>3. CASE ~LookedAway
    <3>1. /\ look'.index = look.index
          /\ Stat => look'.before = file[Looking].size /\ moved' = "still"
          /\ ReadFile => look'.before = look.before /\ look.step = "read" /\ moved' = moved
      BY <1>2, <2>3 DEF Stat, ReadFile, FileInv, FileTypeOK
    <3>2. Looking' = Looking /\ (file[Looking])' = file[Looking]
      BY <2>1, <3>1 DEF Looking, Watched
    <3> QED BY <1>2, <2>1, <3>1, <3>2
  <2> QED BY <2>2, <2>3
<1>3. ASSUME NEW p \in Paths, ClearPath(p) PROVE StillInv'
  BY <1>3 DEF ClearPath
<1>4. ASSUME NEW p \in Paths, NEW kind \in Kinds, SaveBegins(p, kind) PROVE StillInv'
  <2>1. UNCHANGED <<pc, look, answer>> /\ Looking' = Looking
    BY <1>4 DEF SaveBegins, Looking, Watched
  <2>2. CASE Polling /\ p = Looking
    BY <1>4, <2>1, <2>2 DEF SaveBegins
  <2>3. CASE Polling /\ p # Looking
    <3>1. moved' = moved /\ (file[Looking])' = file[Looking]
      BY <1>4, <1>0, <2>1, <2>3 DEF SaveBegins, FileInv, FileTypeOK, Polling
    <3> QED BY <2>1, <3>1
  <2>4. CASE ~Polling
    BY <1>4, <2>1, <2>4 DEF Polling, SaveBegins
  <2> QED BY <2>2, <2>3, <2>4
<1>5. CASE SaveWrites
  <2>1. UNCHANGED <<pc, look, answer, save>> /\ Looking' = Looking
    BY <1>5 DEF SaveWrites, Looking, Watched
  <2>2. CASE Polling /\ save.path = Looking
    <3>1. file[Looking].size \in Nat /\ look.before \in Nat
      BY <1>0, <2>2, FileWalletAssumption DEF Polling, FileInv, FileTypeOK, Files, Absent
    <3>2. (file[Looking])'.size = file[Looking].size + 1
      BY <1>5, <1>0, <2>1, <2>2 DEF SaveWrites, Polling, FileInv, FileTypeOK, Files, Linked, Exists
    <3>3. moved' = (IF moved = "still" THEN "grew" ELSE moved)
      BY <1>5, <2>2 DEF SaveWrites
    <3> QED BY <2>1, <3>1, <3>2, <3>3
  <2>3. CASE Polling /\ save.path # Looking
    <3>1. moved' = moved /\ (file[Looking])' = file[Looking]
      BY <1>5, <1>0, <2>1, <2>3 DEF SaveWrites, FileInv, FileTypeOK, Polling
    <3> QED BY <2>1, <3>1
  <2>4. CASE ~Polling
    BY <2>1, <2>4 DEF Polling
  <2> QED BY <2>2, <2>3, <2>4
<1>6. CASE SaveEnds \/ WalletOver \/ UNCHANGED fvars
  BY <1>6 DEF SaveEnds, WalletOver, fvars, Looking, Watched
<1> QED BY <1>1, <1>2, <1>3, <1>4, <1>5, <1>6 DEF FileNext, Poller

(***************************************************************************)
(* What is read of a file that is still being written is read only if the  *)
(* writer did not add to it between the first stat and the last.  It may   *)
(* have begun again in between: a file truncated and brought back to the   *)
(* same size is not told from one that stood still.                        *)
(***************************************************************************)
THEOREM PrefixStoodStill == FileSpec => PrefixSatStill
<1>1. FileInit => StillInv
  BY DEF FileInit, StillInv, Idle
<1>2. FileInv /\ StillInv /\ [FileNext]_fvars
        => [answer' # answer /\ answer' # Absent /\ answer'.size < Whole
              => moved # "grew"]_fvars
  <2> SUFFICES ASSUME FileInv, StillInv, FileNext, answer' # answer, answer' # Absent
               PROVE  moved # "grew"
    OBVIOUS
  <2>1. StatAgain /\ answer' = look.body
    BY DEF FileNext, Poller, NewFileWallet, WriteRecipients, Armed, Ask, Stat, ReadFile,
           StatAgain, Tick, Decode, ClearPath, WaitInterrupted, ClearFails, SaveBegins,
           SaveWrites, SaveEnds, WalletOver, fvars, wallet
  <2>2. file[Looking].size = look.before /\ look.step = "again" /\ pc \in {"build", "sign"}
    BY <2>1 DEF StatAgain, IsWhole, Polling
  <2>3. look.before \in Nat
    BY FileWalletAssumption DEF FileInv, FileTypeOK
  <2> QED BY <2>2, <2>3 DEF StillInv
<1> QED BY <1>1, <1>2, FileInvInit, FileInvStep, StillInvStep,
           PTL DEF FileSpec, PrefixSatStill

-----------------------------------------------------------------------------
(* The four side by side *)

(***************************************************************************)
(* A step of one part leaves the others where they are, so each part keeps *)
(* its own specification.                                                  *)
(***************************************************************************)
LEMMA PartsKeepTheirSpecs ==
  Spec => JSpec /\ PreflightSpec /\ ReserveSpec /\ FileSpec
<1>1. Init => JInit /\ PreflightInit /\ ReserveInit /\ FileInit
  BY DEF Init
<1>2. [Next]_vars => /\ [JNext]_jvars
                     /\ [PreflightNext]_pvars
                     /\ [ReserveNext]_rvars
                     /\ [FileNext]_fvars
  BY DEF Next, vars
<1> QED
  BY <1>1, <1>2, PTL DEF Spec, JSpec, PreflightSpec, ReserveSpec, FileSpec

(***************************************************************************)
(* The types of the journal, the peer checks, the reserve and the file     *)
(* transport, for any callers, peers, batch, amounts and files.            *)
(***************************************************************************)
THEOREM AroundWindowTypes == Spec => []TypeOK
BY PartsKeepTheirSpecs, JournalTypes, PreflightTypes, ReserveTypes, FileTypes,
   PTL DEF TypeOK
=============================================================================
