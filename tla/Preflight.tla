------------------------------ MODULE Preflight ------------------------------
(***************************************************************************)
(* The peers before the window (run.prepare over internal/peers): check    *)
(* every peer, probe each with a funding stream that is thrown away, and   *)
(* wait until the peers have forgotten the probes.                         *)
(*                                                                         *)
(* A peer that accepts a probe holds a reservation for it, which a cancel  *)
(* on our side does not release; with one held it refuses the next stream. *)
(* The code cannot see that and counts: left[k] is the time until          *)
(* HoldsUntil of probe k, heldFor[k] the time the peer has really held it. *)
(***************************************************************************)

EXTENDS Integers, Sequences

CONSTANTS Peers,
          Wants,        \* the peer of each channel of the batch, in order
          Hosts,        \* the peers the batch file gives a host for
          Reservation,  \* ReservationTimeout
          Sweep,        \* SweeperInterval
          NapLimit      \* the longest sleep of waitForPeers

ASSUME PreflightAssumption ==
  /\ Wants \in Seq(Peers)
  /\ Reservation \in Nat \ {0} /\ Sweep \in Nat \ {0} /\ NapLimit \in Nat \ {0}

Probes == 1..Len(Wants)

(* Mutant of HoldUpperBound: the sweeper's own interval is forgotten. *)
TimeoutOnly == Reservation

HoldUpperBound == Reservation + Sweep

(* How long a peer running LND can really hold a reservation, external. *)
PeerBound == Reservation + Sweep

VARIABLES
  stage,        \* where prepare is
  i,         \* the want it is at
  facts,     \* Facts.Connection, per want
  snapshot,  \* what ListPeers answered
  left,      \* time until HoldsUntil, 0 if zero or past, per probe
  nap,       \* what is left of waitForPeers' sleep
  why,       \* why prepare gave up
  link,      \* the peers LND is connected to
  holds,     \* the probes whose reservation the peer still holds
  heldFor,   \* and for how long it has
  lost       \* history: the accepted probes whose answer never came

pvars == <<stage, i, facts, snapshot, left, nap, why, link, holds, heldFor, lost>>
peerSide == <<link, holds, heldFor>>

PreflightTypeOK ==
  /\ stage \in {"list", "check", "usable", "probe", "answer", "gate", "measure",
             "nap", "ready", "failed"}
  /\ i \in 1..Len(Wants) + 1
  /\ facts \in [Probes -> {"none", "already", "connected", "not_tried", "unreachable"}]
  /\ snapshot \in SUBSET Peers /\ link \in SUBSET Peers
  /\ left \in [Probes -> 0..HoldUpperBound]
  /\ nap \in 0..NapLimit
  /\ why \in {"none", "unusable", "interrupted", "stillHolding"}
  /\ holds \in SUBSET Probes
  /\ heldFor \in [Probes -> 0..PeerBound]
  /\ lost \in SUBSET Probes

PreflightInit ==
  /\ stage = "list" /\ i = 1 /\ nap = 0 /\ why = "none"
  /\ facts = [k \in Probes |-> "none"]
  /\ snapshot = {} /\ link \in SUBSET Peers
  /\ left = [k \in Probes |-> 0]
  /\ holds = {} /\ heldFor = [k \in Probes |-> 0] /\ lost = {}

Fail(reason) == stage' = "failed" /\ why' = reason

----------------------------------------------------------------------------
(* peers.Check *)

ListPeers ==
  /\ stage = "list"
  /\ snapshot' = link /\ stage' = "check"
  /\ UNCHANGED <<i, facts, left, nap, why, peerSide, lost>>

NextWant(after) ==
  IF i < Len(Wants) THEN stage' = stage /\ i' = i + 1 ELSE stage' = after /\ i' = 1

Record(connection) == facts' = [facts EXCEPT ![i] = connection]

(* The connection is taken from the snapshot, asked of ConnectPeer, or not   *)
(* tried.                                                                    *)
CheckPeer ==
  /\ stage = "check" /\ i \in Probes
  /\ LET p == Wants[i] IN
       \/ p \in snapshot /\ Record("already") /\ UNCHANGED link
       \/ p \notin snapshot /\ p \notin Hosts /\ Record("not_tried") /\ UNCHANGED link
       \/ /\ p \notin snapshot /\ p \in Hosts
          /\ \/ p \in link /\ Record("already") /\ UNCHANGED link
             \/ p \notin link /\ Record("connected") /\ link' = link \cup {p}
             \/ p \notin link /\ Record("unreachable") /\ UNCHANGED link
  /\ NextWant("usable")
  /\ UNCHANGED <<snapshot, left, nap, why, holds, heldFor, lost>>

Usable(k) == facts[k] \in {"already", "connected"}

(* A batch with an unusable peer stops before anything is asked of anyone. *)
AllUsable ==
  /\ stage = "usable"
  /\ IF \A k \in Probes : Usable(k)
     THEN stage' = "probe" /\ UNCHANGED why ELSE Fail("unusable")
  /\ UNCHANGED <<i, facts, snapshot, left, nap, peerSide, lost>>

----------------------------------------------------------------------------
(* peers.Do and DoAll *)

(* The peer's own count: one pending channel from us is all it takes. *)
SlotTaken(p) == \E k \in holds : Wants[k] = p

ProbeAccepted ==
  /\ stage = "probe" /\ i \in Probes
  /\ Wants[i] \in link /\ ~SlotTaken(Wants[i])
  /\ holds' = holds \cup {i} /\ heldFor' = [heldFor EXCEPT ![i] = 0]
  /\ stage' = "answer"
  /\ UNCHANGED <<i, facts, snapshot, left, nap, why, link, lost>>

(* Refused by the peer, or by LND because the peer is gone: nothing is held, *)
(* HoldsUntil stays zero, and the next want is probed all the same.          *)
ProbeRefused ==
  /\ stage = "probe" /\ i \in Probes
  /\ NextWant("gate")
  /\ UNCHANGED <<facts, snapshot, left, nap, why, peerSide, lost>>

(* psbt_fund arrived.  The shim is cancelled, which the peer never hears of. *)
ProbeAnswered ==
  /\ stage = "answer" /\ i \in holds
  /\ left' = [left EXCEPT ![i] = HoldUpperBound]
  /\ IF i < Len(Wants) THEN stage' = "probe" /\ i' = i + 1 ELSE stage' = "gate" /\ i' = 1
  /\ UNCHANGED <<facts, snapshot, nap, why, peerSide, lost>>

(* Any error of arm.Open is read as a refusal: a stream that broke after the *)
(* peer accepted, an unreadable psbt_fund, or a peer that has timed out.     *)
ProbeFails ==
  /\ stage = "answer"
  /\ lost' = IF i \in holds THEN lost \cup {i} ELSE lost
  /\ IF i < Len(Wants) THEN stage' = "probe" /\ i' = i + 1 ELSE stage' = "gate" /\ i' = 1
  /\ UNCHANGED <<facts, snapshot, left, nap, why, peerSide>>

----------------------------------------------------------------------------
(* run.waitForPeers *)

Held(k) == left[k] > 0

ReadyToArm == \A k \in Probes : ~Held(k)

CheckGate ==
  /\ stage = "gate"
  /\ stage' = IF ReadyToArm THEN "ready" ELSE "measure"
  /\ UNCHANGED <<i, facts, snapshot, left, nap, why, peerSide, lost>>

(* Mutant of NapFor: it sleeps through to the end. *)
WholeWait(longest) == longest

NapFor(longest) == IF longest < NapLimit THEN longest ELSE NapLimit

(* The clock is read again to see how long to wait. *)
Measure ==
  /\ stage = "measure"
  /\ IF \A k \in Probes : ~Held(k)
     THEN Fail("stillHolding") /\ UNCHANGED nap
     ELSE /\ \E k \in Probes :
               /\ \A j \in Probes : left[j] <= left[k]
               /\ nap' = NapFor(left[k])
          /\ stage' = "nap" /\ UNCHANGED why
  /\ UNCHANGED <<i, facts, snapshot, left, peerSide, lost>>

Wake ==
  /\ stage = "nap" /\ nap = 0
  /\ stage' = "gate"
  /\ UNCHANGED <<i, facts, snapshot, left, nap, why, peerSide, lost>>

NapInterrupted ==
  /\ stage = "nap"
  /\ Fail("interrupted")
  /\ UNCHANGED <<i, facts, snapshot, left, nap, peerSide, lost>>

----------------------------------------------------------------------------
(* The peers and time, external *)

Stopped == stage \in {"ready", "failed"}

(* A sweep drops a reservation that is old enough. *)
PeerSweeps(k) ==
  /\ k \in holds /\ heldFor[k] >= Reservation
  /\ holds' = holds \ {k}
  /\ UNCHANGED <<stage, i, facts, snapshot, left, nap, why, link, heldFor, lost>>

LinkDrops(p) ==
  /\ ~Stopped /\ p \in link
  /\ link' = link \ {p}
  /\ UNCHANGED <<stage, i, facts, snapshot, left, nap, why, holds, heldFor, lost>>

Less(t) == IF t > 0 THEN t - 1 ELSE 0

(* A unit of time passes; no reservation outlives PeerBound. *)
Elapse ==
  /\ ~Stopped
  /\ holds # {} \/ nap > 0 \/ \E k \in Probes : left[k] > 0
  /\ \A k \in holds : heldFor[k] + 1 < PeerBound
  /\ heldFor' = [k \in Probes |-> IF k \in holds THEN heldFor[k] + 1 ELSE heldFor[k]]
  /\ left' = [k \in Probes |-> Less(left[k])]
  /\ nap' = Less(nap)
  /\ UNCHANGED <<stage, i, facts, snapshot, why, link, holds, lost>>

Done == Stopped /\ UNCHANGED pvars

Prepare ==
  \/ ListPeers \/ CheckPeer \/ AllUsable
  \/ ProbeAccepted \/ ProbeRefused \/ ProbeAnswered \/ ProbeFails
  \/ CheckGate \/ Measure \/ Wake

PreflightNext ==
  \/ Prepare \/ NapInterrupted \/ Elapse \/ Done
  \/ \E k \in Probes : PeerSweeps(k)
  \/ \E p \in Peers : LinkDrops(p)

PreflightSpec == PreflightInit /\ [][PreflightNext]_pvars

----------------------------------------------------------------------------
(***************************************************************************)
(* The gate between probing and arming: when the batch may arm, no peer    *)
(* holds a slot that one of our own probes took, unless the answer to that *)
(* probe was lost on its way: it passes for a refusal.                     *)
(***************************************************************************)
GateIsSound == stage = "ready" => holds \subseteq lost

(***************************************************************************)
(* What the gate rests on: from the answer of a probe on, its peer forgets *)
(* it no later than the program does.                                      *)
(***************************************************************************)
AssumedOutlastsHeld ==
  \A k \in holds \ lost :
    stage # "answer" \/ k # i => heldFor[k] + left[k] >= PeerBound
=============================================================================
