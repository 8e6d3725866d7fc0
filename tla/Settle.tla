------------------------------- MODULE Settle -------------------------------
(***************************************************************************)
(* Phase 2 (internal/settle): from the publish to open and policied.       *)
(* Settle repeats a pass (Tick) that lists the open channels, lists the    *)
(* pending ones, may ask a Chain how deep the transaction is, and then     *)
(* calls UpdateChannelPolicy for every member that is neither policied nor *)
(* given up.  The node moves between any two of these.                     *)
(*                                                                         *)
(* Time is kept in timers that saturate where no comparison can see the    *)
(* difference (Window): passAge is the time since the pass began, age[c]   *)
(* the time since RefusedSince, and late[c] whether that was the whole     *)
(* window when the pass began.  One unit is the polling interval.          *)
(***************************************************************************)

EXTENDS Naturals

CONSTANTS Members,   \* the channels of the published batch
          Window,    \* RetryWindow, in polling intervals
          MaxDepth,  \* the deepest confirmation count of interest
          HasChain   \* whether Options.Chain is set (only the harness does)

ASSUME SettleAssumption == /\ Window \in Nat
                           /\ MaxDepth \in Nat \ {0}
                           /\ HasChain \in BOOLEAN

VARIABLES
  (* the node, external *)
  depth,      \* confirmations of the funding transaction
  minDepth,   \* what each peer asked for (NumConfsRequired)
  figures,    \* the policy's: "fit" the channel, "outside" the bounds it
              \*   negotiated, or "invalid" by Validate's own rules
  blind,      \* the members whose failures LND names by the bytes of the
              \*   txid alone; none with a stock LND, which fills txid_str
  chan,       \* "pending", "open" (no edge in the graph yet), "edge", "closed"
  policied,   \* the members that carry the intended policy in LND
  (* the pass *)
  pc,         \* "open", "pending", "confs", "apply", "wait" or "ended"
  todo,       \* the members this pass has not come to
  cur,        \* the States being assembled
  last,       \* the States of the last completed pass
  hasLast,    \* whether there is one
  ended,      \* how Settle returned: "no", "finished", "stuck", "stopped"
  (* time *)
  passAge, age, late,
  tickDue,    \* the ticker's channel holds a tick
  quiet       \* history: time since LND last said anything but "unexplained"

node == <<depth, minDepth, figures, blind, chan, policied>>
clocks == <<passAge, age, late, tickDue, quiet>>
vars == <<depth, minDepth, figures, blind, chan, policied, pc, todo, cur, last,
          hasLast, ended, passAge, age, late, tickDue, quiet>>

Figures == {"fit", "outside", "invalid"}

Outcomes == {"none", "applied", "pending", "not_found", "unexplained", "invalid"}

States == [open : BOOLEAN, peerDepth : 0..MaxDepth, observed : 0..MaxDepth,
           policy : Outcomes, refused : BOOLEAN, exhausted : BOOLEAN]

STypeOK ==
  /\ depth \in 0..MaxDepth
  /\ minDepth \in [Members -> 1..MaxDepth]
  /\ figures \in [Members -> Figures] /\ blind \in SUBSET Members
  /\ chan \in [Members -> {"pending", "open", "edge", "closed"}]
  /\ policied \in SUBSET Members
  /\ pc \in {"open", "pending", "confs", "apply", "wait", "ended"}
  /\ todo \in SUBSET Members
  /\ cur \in [Members -> States] /\ last \in [Members -> States]
  /\ hasLast \in BOOLEAN
  /\ ended \in {"no", "finished", "stuck", "stopped"}
  /\ passAge \in 0..Window
  /\ age \in [Members -> 0..Window] /\ late \in [Members -> BOOLEAN]
  /\ quiet \in [Members -> 0..Window]
  /\ tickDue \in BOOLEAN

----------------------------------------------------------------------------
(* What a peer running stock LND will ask for: the report prints it beside  *)
(* the peer's own figure, and the loop never reads it.                      *)

MaxFundingAmount == 16777215

ExpectedDepth(amountSat) ==
  LET conf == (6 * amountSat) \div MaxFundingAmount
  IN CASE amountSat > MaxFundingAmount -> 6
       [] amountSat <= MaxFundingAmount /\ conf < 1 -> 1
       [] OTHER -> conf

----------------------------------------------------------------------------
(* Reading a State *)

Terminal(s) == s.policy = "invalid"
Unexplained(s) == s.policy = "unexplained"
Settled(s) == s.open /\ s.policy = "applied"
Stuck(s) == Terminal(s) \/ (Unexplained(s) /\ s.exhausted)
Skipped(s) == s.policy = "applied" \/ Stuck(s)

(* Mutant of Finished: the first stuck member ends the watch (issue #6). *)
AnyStuck(states) ==
  \/ \A c \in Members : Settled(states[c])
  \/ \E c \in Members : Stuck(states[c])

Finished(states) == \A c \in Members : Settled(states[c]) \/ Stuck(states[c])

Fresh == [open |-> FALSE, peerDepth |-> 0, observed |-> 0, policy |-> "none",
          refused |-> FALSE, exhausted |-> FALSE]

Init ==
  /\ depth = 0
  /\ minDepth \in [Members -> 1..MaxDepth]
  /\ figures \in [Members -> Figures] /\ blind \in SUBSET Members
  /\ chan = [c \in Members |-> "pending"]
  /\ policied = {}
  /\ pc = "open" /\ todo = Members
  /\ cur = [c \in Members |-> Fresh] /\ last = cur /\ hasLast = FALSE
  /\ ended = "no"
  /\ passAge = 0 /\ tickDue = FALSE
  /\ age = [c \in Members |-> 0] /\ quiet = age
  /\ late = [c \in Members |-> FALSE]

----------------------------------------------------------------------------
(* One pass *)

(* Tick starts from the States of the pass before it. *)
StartPass ==
  /\ pc = "wait" /\ tickDue
  /\ tickDue' = FALSE
  /\ late' = [c \in Members |-> age[c] >= Window]
  /\ pc' = "open" /\ todo' = Members /\ cur' = last
  /\ UNCHANGED <<node, last, hasLast, ended, passAge, age, quiet>>

ReadOpen ==
  /\ pc = "open"
  /\ cur' = [c \in Members |-> [cur[c] EXCEPT !.open = chan[c] \in {"open", "edge"}]]
  /\ pc' = "pending"
  /\ UNCHANGED <<node, todo, last, hasLast, ended, clocks>>

(* confirmations_until_active: what the peer asked for until the transaction *)
(* confirms, a countdown afterwards.                                         *)
UntilActive(c) ==
  IF depth = 0 THEN minDepth[c]
  ELSE IF depth < minDepth[c] THEN minDepth[c] - depth ELSE 0

(* Mutant of PeerDepthRead: the countdown is taken for the peer's figure. *)
CountdownRead(c) ==
  IF chan[c] = "pending" /\ cur[c].peerDepth = 0 THEN UntilActive(c)
  ELSE cur[c].peerDepth

PeerDepthRead(c) ==
  IF chan[c] = "pending" /\ cur[c].peerDepth = 0 /\ depth = 0
  THEN UntilActive(c) ELSE cur[c].peerDepth

ReadPending ==
  /\ pc = "pending"
  /\ cur' = [c \in Members |-> [cur[c] EXCEPT !.peerDepth = PeerDepthRead(c)]]
  /\ pc' = "confs"
  /\ UNCHANGED <<node, todo, last, hasLast, ended, clocks>>

ObservedRead(c, n) ==
  IF cur[c].open /\ cur[c].observed = 0 THEN n ELSE cur[c].observed

(* The two lists were read before the depth is. *)
ReadConfs ==
  /\ pc = "confs"
  /\ LET confs == IF HasChain THEN depth ELSE 0
     IN cur' = [c \in Members |-> [cur[c] EXCEPT !.observed = ObservedRead(c, confs)]]
  /\ pc' = "apply"
  /\ UNCHANGED <<node, todo, last, hasLast, ended, clocks>>

(* Policied, or given up: no call is made for it. *)
SkipMember(c) ==
  /\ pc = "apply" /\ c \in todo
  /\ Skipped(cur[c])
  /\ todo' = todo \ {c}
  /\ UNCHANGED <<node, pc, cur, last, hasLast, ended, clocks>>

(* Mutant of ClearsClock: the case is missing, any refusal keeps it running. *)
NeverCleared(answer) == FALSE

(* Anything that names what it is waiting for clears the clock. *)
ClearsClock(answer) == answer # "unexplained"

(* What a pass makes of one answer.  overdue says that the window had run   *)
(* out when the pass began; it counts from the second such refusal on.      *)
Answered(s, answer, overdue) ==
  [s EXCEPT !.policy = answer,
            !.refused = ~ClearsClock(answer),
            !.exhausted = ~ClearsClock(answer) /\ s.refused /\ overdue]

Since(c, answer) ==
  IF ClearsClock(answer) THEN 0 ELSE IF cur[c].refused THEN age[c] ELSE passAge

(* What LND makes of an UpdateChannelPolicy that names one channel. *)
LndAnswers(c) ==
  CASE chan[c] = "pending" -> {"pending"}
    [] chan[c] = "edge" /\ figures[c] = "fit" -> {"applied", "unexplained"}
    [] chan[c] = "edge" /\ figures[c] # "fit" -> {"invalid", "unexplained"}
    [] OTHER -> {"not_found", "unexplained"}

(* How it says so: a successful response, with a refusal among its           *)
(* failed_updates.  An entry may name no channel, the channel's point with   *)
(* or without the txid in words, or another channel's.                       *)
Entries(c, reason) ==
  {[point |-> p, reason |-> reason] :
     p \in IF c \in blind THEN {"bytes"} ELSE {"own", "absent"}}

Elsewhere == [point |-> "other", reason |-> "pending"]

FailedUpdates(c, answer) ==
  IF answer = "applied" THEN {<<>>, <<Elsewhere>>}
  ELSE {<<f>> : f \in Entries(c, answer)}
         \cup {<<Elsewhere, f>> : f \in Entries(c, answer)}

(* Mutant of Ours: an entry that names no channel is somebody else's. *)
NamesUs(f) == f.point = "own"

(* The point in words is compared with the channel's, and the words of a     *)
(* point without txid_str are "" (outpointString); no point at all is ours,  *)
(* the request having named exactly one channel.                             *)
Ours(f) == f.point \in {"absent", "own"}

(* Mutant of Outcome: only the error is read, not failed_updates. *)
NilIsApplied(failed) == "applied"

(* Mutant of Outcome: LND's catch-all is kept as a reason of its own. *)
ReasonKept(failed) ==
  IF \E i \in DOMAIN failed : Ours(failed[i])
  THEN LET reason == failed[CHOOSE i \in DOMAIN failed : Ours(failed[i])].reason
       IN IF reason = "unexplained" THEN "unknown" ELSE reason
  ELSE "applied"

(* The first of our failures, or none of ours. *)
Outcome(failed) ==
  IF \E i \in DOMAIN failed : Ours(failed[i])
  THEN failed[CHOOSE i \in DOMAIN failed :
                Ours(failed[i]) /\ \A j \in 1..i-1 : ~Ours(failed[j])].reason
  ELSE "applied"

(* One member's state and clock after an outcome. *)
Notes(c, outcome) ==
  /\ cur' = [cur EXCEPT ![c] = Answered(@, outcome, late[c])]
  /\ age' = [age EXCEPT ![c] = Since(c, outcome)]

(* Validate refuses the figures, and no call is made. *)
RefusedHere(c) ==
  /\ figures[c] = "invalid"
  /\ Notes(c, "invalid")
  /\ quiet' = [quiet EXCEPT ![c] = 0]
  /\ UNCHANGED policied

CallsLnd(c) ==
  /\ figures[c] # "invalid"
  /\ \E answer \in LndAnswers(c) :
       /\ \E failed \in FailedUpdates(c, answer) : Notes(c, Outcome(failed))
       /\ policied' = IF answer = "applied" THEN policied \cup {c} ELSE policied
       /\ quiet' = [quiet EXCEPT ![c] = IF answer = "unexplained" THEN @ ELSE 0]

ApplyPolicy(c) ==
  /\ pc = "apply" /\ c \in todo
  /\ ~Skipped(cur[c])
  /\ RefusedHere(c) \/ CallsLnd(c)
  /\ todo' = todo \ {c}
  /\ UNCHANGED <<depth, minDepth, figures, blind, chan, pc, last, hasLast, ended,
                 passAge, late, tickDue>>

(* Settle looks at the pass: it returns, or waits for the ticker. *)
EndPass ==
  /\ pc = "apply" /\ todo = {}
  /\ last' = cur /\ hasLast' = TRUE
  /\ IF Finished(cur)
     THEN /\ pc' = "ended"
          /\ ended' = IF \E c \in Members : Stuck(cur[c]) THEN "stuck" ELSE "finished"
     ELSE pc' = "wait" /\ ended' = "no"
  /\ passAge' = 0
  /\ UNCHANGED <<node, todo, cur, age, late, tickDue, quiet>>

(* A call failed, or the context ended during one: the pass is discarded.    *)
(* LND may have carried out the update whose answer was lost.                *)
PassFails ==
  /\ pc \in {"open", "pending", "confs", "apply"}
  /\ policied' \in {policied} \cup
       {policied \cup {c} : c \in {d \in todo : pc = "apply"
                                     /\ "applied" \in LndAnswers(d) /\ ~Skipped(cur[d])}}
  /\ pc' = "ended" /\ ended' = "stopped"
  /\ UNCHANGED <<depth, minDepth, figures, blind, chan, todo, cur, last, hasLast, clocks>>

(* The context ends between two passes. *)
ContextEnds ==
  /\ pc = "wait"
  /\ pc' = "ended" /\ ended' = "stopped"
  /\ UNCHANGED <<node, todo, cur, last, hasLast, clocks>>

----------------------------------------------------------------------------
(* The node and time, external *)

NodeStep(newDepth, newChan) ==
  /\ depth' = newDepth /\ chan' = newChan
  /\ UNCHANGED <<minDepth, figures, blind, policied, pc, todo, cur, last, hasLast,
                 ended, clocks>>

Block == pc # "ended" /\ depth < MaxDepth /\ NodeStep(depth + 1, chan)

ChannelOpens(c) ==
  /\ pc # "ended" /\ chan[c] = "pending" /\ depth >= minDepth[c]
  /\ NodeStep(depth, [chan EXCEPT ![c] = "open"])

EdgeAppears(c) ==
  /\ pc # "ended" /\ chan[c] = "open"
  /\ NodeStep(depth, [chan EXCEPT ![c] = "edge"])

ChannelCloses(c) ==
  /\ pc # "ended" /\ chan[c] \in {"open", "edge"}
  /\ NodeStep(depth, [chan EXCEPT ![c] = "closed"])

Later(t) == IF t < Window THEN t + 1 ELSE t

Elapse ==
  /\ pc # "ended"
  /\ passAge' = IF pc = "wait" THEN 0 ELSE Later(passAge)
  /\ age' = [c \in Members |-> IF cur[c].refused THEN Later(age[c]) ELSE age[c]]
  /\ quiet' = [c \in Members |-> Later(quiet[c])]
  /\ tickDue' = TRUE
  /\ UNCHANGED <<node, pc, todo, cur, last, hasLast, ended, late>>

Done == pc = "ended" /\ UNCHANGED vars

Pass ==
  \/ StartPass \/ ReadOpen \/ ReadPending \/ ReadConfs \/ EndPass
  \/ \E c \in Members : SkipMember(c) \/ ApplyPolicy(c)

NodeMoves ==
  \/ Block
  \/ \E c \in Members : ChannelOpens(c) \/ EdgeAppears(c) \/ ChannelCloses(c)

Next == Pass \/ PassFails \/ ContextEnds \/ NodeMoves \/ Elapse \/ Done

Spec == Init /\ [][Next]_vars

(***************************************************************************)
(* The loop runs, LND answers its calls, time passes, and the transaction  *)
(* confirms.  Nothing is assumed of what LND answers.                      *)
(***************************************************************************)
Fairness ==
  /\ WF_vars(Pass) /\ WF_vars(Elapse) /\ WF_vars(Block)
  /\ \A c \in Members : WF_vars(ChannelOpens(c)) /\ WF_vars(EdgeAppears(c))

FairSpec == Spec /\ Fairness

----------------------------------------------------------------------------
(***************************************************************************)
(* A member reported policied is policied in LND, or it is one whose       *)
(* failures LND names by the bytes of the txid alone: a refusal inside a   *)
(* successful response passes for a policy there, and nowhere else.        *)
(***************************************************************************)
AppliedIsTrue ==
  \A c \in Members \ blind :
    /\ cur[c].policy = "applied" => c \in policied
    /\ last[c].policy = "applied" => c \in policied

(***************************************************************************)
(* A settlement that ends by itself leaves no channel routing at LND's     *)
(* defaults but those it names as stuck, and one that ends with no error   *)
(* leaves none at all, where LND names its failures in words.  The         *)
(* channels that open last are watched as long as the first (issue #6).    *)
(***************************************************************************)
NobodyLeftAtDefaults ==
  /\ ended \in {"finished", "stuck"} =>
       \A c \in Members \ blind : c \in policied \/ Stuck(last[c])
  /\ ended = "finished" => Members \ blind \subseteq policied

(***************************************************************************)
(* A member is given up for silence only after LND has said nothing else   *)
(* for a whole RetryWindow, however long it had been pending before.       *)
(***************************************************************************)
GivenUpAfterWindow ==
  \A c \in Members :
    Unexplained(cur[c]) /\ Stuck(cur[c]) => quiet[c] >= Window

(***************************************************************************)
(* The depth shown as the peer's own is what the peer asked for, never the *)
(* countdown the same field turns into; the depth at which a channel was   *)
(* first seen open is no less, however late that was.                      *)
(***************************************************************************)
PeerDepthIsThePeers ==
  \A c \in Members :
    /\ cur[c].peerDepth # 0 => cur[c].peerDepth = minDepth[c]
    /\ cur[c].observed # 0 => cur[c].observed >= minDepth[c]

(***************************************************************************)
(* The loop terminates on the node's own accord: every member is policied  *)
(* or given up in the end, whatever LND answers, unless a channel closes   *)
(* or somebody stops it.                                                   *)
(***************************************************************************)
SettlementEnds == <>(ended # "no" \/ \E c \in Members : chan[c] = "closed")

(***************************************************************************)
(* Settle implements SettleVerdict: one verdict per member, never taken    *)
(* back, and an end that waits for all of them.                            *)
(***************************************************************************)
Verdict(s) == IF s.policy = "applied" THEN "policied"
              ELSE IF Stuck(s) THEN "givenUp" ELSE "undecided"

Decided == [c \in Members |-> Verdict(cur[c])]

Verdicts == INSTANCE SettleVerdict WITH verdict <- Decided, result <- ended

KeepsVerdicts == Verdicts!Spec
=============================================================================
