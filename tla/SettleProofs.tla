---------------------------- MODULE SettleProofs ----------------------------
(***************************************************************************)
(* What holds of the settlement for any number of members, any RetryWindow *)
(* and any depth: nothing is assumed of the order in which the node moves, *)
(* of the answers LND gives or of the time a pass takes.                   *)
(***************************************************************************)
EXTENDS Settle, TLAPS

(***************************************************************************)
(* Why a member is given up only after a window of silence.  RefusedSince  *)
(* is the start of the pass that was first refused, so the time since then *)
(* is no longer than the silence (Clock, PassClock); the window is judged  *)
(* once, when a pass begins, on the States of the pass before (Carried,    *)
(* Overdue).                                                               *)
(***************************************************************************)
Active == pc \in {"open", "pending", "confs", "apply"}

Carried == pc = "wait" => last = cur

Clock == \A c \in Members : cur[c].refused => quiet[c] >= age[c]

PassClock == \A c \in Members : Active /\ c \in todo => quiet[c] >= passAge

Rested == pc = "wait" => passAge = 0

Overdue ==
  \A c \in Members :
    Active /\ c \in todo /\ cur[c].refused /\ late[c] => quiet[c] >= Window

Silent ==
  \A c \in Members :
    cur[c].policy = "unexplained" /\ cur[c].exhausted => quiet[c] >= Window

WindowInv == Carried /\ Clock /\ PassClock /\ Rested /\ Overdue /\ Silent

(* LND's answers are among the outcomes. *)
LEMMA AnswersAreOutcomes ==
  ASSUME NEW c \in Members
  PROVE  LndAnswers(c) \subseteq Outcomes \ {"none"}
BY DEF LndAnswers, Outcomes

(* What the loop over failed_updates makes of a response: LND's answer, but  *)
(* for a failure that names the channel by the bytes of its txid alone.      *)
LEMMA OutcomeOfFailures ==
  ASSUME NEW c \in Members, NEW answer \in LndAnswers(c),
         NEW failed \in FailedUpdates(c, answer)
  PROVE  Outcome(failed) = IF answer = "applied" \/ c \in blind
                           THEN "applied" ELSE answer
<1>1. CASE answer = "applied"
  <2>1. failed = <<>> \/ failed = <<Elsewhere>>
    BY <1>1 DEF FailedUpdates
  <2>2. \A i \in DOMAIN failed : ~Ours(failed[i])
    BY <2>1 DEF Elsewhere, Ours
  <2> QED BY <1>1, <2>2 DEF Outcome
<1>2. CASE answer # "applied"
  <2>1. PICK f \in Entries(c, answer) : failed = <<f>> \/ failed = <<Elsewhere, f>>
    BY <1>2 DEF FailedUpdates
  <2>2. /\ f.reason = answer
        /\ Ours(f) <=> c \notin blind
    BY DEF Entries, Ours
  <2>3. ~Ours(Elsewhere)
    BY DEF Elsewhere, Ours
  <2>4. CASE c \in blind
    <3>1. \A i \in DOMAIN failed : ~Ours(failed[i])
      BY <2>1, <2>2, <2>3, <2>4
    <3> QED BY <2>4, <3>1 DEF Outcome
  <2>5. CASE c \notin blind
    <3>1. PICK n \in {1, 2} :
            /\ n \in DOMAIN failed /\ failed[n] = f
            /\ \A i \in DOMAIN failed : Ours(failed[i]) <=> i = n
      BY <2>1, <2>2, <2>3, <2>5
    <3>2. \A i \in DOMAIN failed :
            (Ours(failed[i]) /\ \A j \in 1..i-1 : ~Ours(failed[j])) <=> i = n
      <4>1. DOMAIN failed \subseteq {1, 2}
        BY <2>1
      <4>2. \A i \in DOMAIN failed : \A j \in 1..i-1 : j \in DOMAIN failed /\ j < i
        BY <2>1, <4>1
      <4> QED BY <3>1, <4>1, <4>2
    <3>3. (CHOOSE i \in DOMAIN failed :
             Ours(failed[i]) /\ \A j \in 1..i-1 : ~Ours(failed[j])) = n
      BY <3>1, <3>2
    <3>4. Outcome(failed) = failed[n].reason
      <4>1. \E i \in DOMAIN failed : Ours(failed[i])
        BY <3>1
      <4> QED BY <4>1, <3>3, Zenon DEF Outcome
    <3> QED BY <1>2, <2>2, <2>5, <3>1, <3>4
  <2> QED BY <2>4, <2>5
<1> QED BY <1>1, <1>2

(* One call, or Validate's refusal in its place: the one member it touches. *)
LEMMA ApplyNotes ==
  ASSUME STypeOK, NEW c \in Members, ApplyPolicy(c)
  PROVE  \E outcome \in Outcomes \ {"none"} :
           /\ cur' = [cur EXCEPT ![c] = Answered(@, outcome, late[c])]
           /\ age' = [age EXCEPT ![c] = Since(c, outcome)]
           /\ \/ quiet' = [quiet EXCEPT ![c] = 0]
              \/ quiet' = quiet
           /\ outcome = "unexplained" => quiet' = quiet
           /\ policied' \in {policied, policied \cup {c}}
           /\ outcome = "applied" => c \in policied' \/ c \in blind
<1>1. CASE RefusedHere(c)
  BY <1>1 DEF RefusedHere, Notes, Outcomes
<1>2. CASE CallsLnd(c)
  <2>1. PICK answer \in LndAnswers(c) :
          /\ \E failed \in FailedUpdates(c, answer) : Notes(c, Outcome(failed))
          /\ policied' = IF answer = "applied" THEN policied \cup {c} ELSE policied
          /\ quiet' = [quiet EXCEPT ![c] = IF answer = "unexplained" THEN @ ELSE 0]
    BY <1>2 DEF CallsLnd
  <2>2. PICK failed \in FailedUpdates(c, answer) : Notes(c, Outcome(failed))
    BY <2>1
  <2> DEFINE outcome == Outcome(failed)
  <2>3. outcome = IF answer = "applied" \/ c \in blind THEN "applied" ELSE answer
    BY OutcomeOfFailures
  <2>4. outcome \in Outcomes \ {"none"}
    BY <2>3, AnswersAreOutcomes DEF Outcomes
  <2>5. /\ quiet' = [quiet EXCEPT ![c] = 0] \/ quiet' = quiet
        /\ outcome = "unexplained" => quiet' = quiet
    <3>1. quiet = [quiet EXCEPT ![c] = quiet[c]]
      BY DEF STypeOK
    <3>2. outcome = "unexplained" => answer = "unexplained"
      BY <2>3
    <3> QED BY <2>1, <3>1, <3>2
  <2>6. outcome = "applied" => c \in policied' \/ c \in blind
    BY <2>1, <2>3
  <2>7. /\ cur' = [cur EXCEPT ![c] = Answered(@, outcome, late[c])]
        /\ age' = [age EXCEPT ![c] = Since(c, outcome)]
    BY <2>2 DEF Notes
  <2>8. policied' \in {policied, policied \cup {c}}
    BY <2>1
  <2> HIDE DEF outcome
  <2> QED BY <2>4, <2>5, <2>6, <2>7, <2>8
<1> QED BY <1>1, <1>2 DEF ApplyPolicy

LEMMA LaterType ==
  ASSUME NEW t \in 0..Window
  PROVE  Later(t) \in 0..Window /\ Later(t) >= t
BY SettleAssumption DEF Later

LEMMA LaterIsMonotone ==
  ASSUME NEW s \in 0..Window, NEW t \in 0..Window, s >= t
  PROVE  Later(s) >= Later(t)
BY SettleAssumption DEF Later

(***************************************************************************)
(* The States, the timers and the node keep their types.                   *)
(***************************************************************************)
THEOREM TypeCorrect == Spec => []STypeOK
<1>1. Init => STypeOK
  <2>1. Fresh \in States
    BY SettleAssumption DEF Fresh, States, Outcomes
  <2>2. 0 \in 0..MaxDepth /\ 0 \in 0..Window
    BY SettleAssumption
  <2>3. ASSUME Init
        PROVE  cur \in [Members -> States] /\ last \in [Members -> States]
    BY <2>1, <2>3 DEF Init
  <2>4. ASSUME Init
        PROVE  /\ age \in [Members -> 0..Window] /\ late \in [Members -> BOOLEAN]
               /\ quiet \in [Members -> 0..Window]
    BY <2>2, <2>4 DEF Init
  <2> QED BY <2>2, <2>3, <2>4 DEF Init, STypeOK
<1>2. STypeOK /\ [Next]_vars => STypeOK'
  <2> SUFFICES ASSUME STypeOK, [Next]_vars PROVE STypeOK'
    OBVIOUS
  <2> USE SettleAssumption DEF STypeOK
  <2>1. CASE StartPass
    <3>1. late' \in [Members -> BOOLEAN]
      BY <2>1 DEF StartPass
    <3> QED BY <2>1, <3>1 DEF StartPass, node
  <2>2. CASE ReadOpen
    <3>1. \A c \in Members, b \in BOOLEAN : [cur[c] EXCEPT !.open = b] \in States
      <4>1. \A s \in States, b \in BOOLEAN : [s EXCEPT !.open = b] \in States
        BY DEF States
      <4> QED BY <4>1
    <3>2. cur' \in [Members -> States]
      <4>1. \A c \in Members : (chan[c] \in {"open", "edge"}) \in BOOLEAN
        OBVIOUS
      <4>2. \A c \in Members :
              [cur[c] EXCEPT !.open = chan[c] \in {"open", "edge"}] \in States
        BY <3>1, <4>1
      <4> QED BY <2>2, <4>2 DEF ReadOpen
    <3> QED BY <2>2, <3>2 DEF ReadOpen, node, clocks
  <2>3. CASE ReadPending
    <3>1. \A c \in Members : PeerDepthRead(c) \in 0..MaxDepth
      <4> TAKE c \in Members
      <4>1. cur[c].peerDepth \in 0..MaxDepth /\ minDepth[c] \in 1..MaxDepth
        BY DEF States
      <4> QED BY <4>1 DEF PeerDepthRead, UntilActive
    <3>2. \A c \in Members, n \in 0..MaxDepth :
            [cur[c] EXCEPT !.peerDepth = n] \in States
      BY DEF States
    <3>3. cur' \in [Members -> States]
      BY <2>3, <3>1, <3>2 DEF ReadPending
    <3> QED BY <2>3, <3>3 DEF ReadPending, node, clocks
  <2>4. CASE ReadConfs
    <3> DEFINE confs == IF HasChain THEN depth ELSE 0
    <3>1. \A c \in Members : cur[c].observed \in 0..MaxDepth
      BY DEF States
    <3>2. \A c \in Members : ObservedRead(c, confs) \in 0..MaxDepth
      BY <3>1 DEF ObservedRead
    <3>3. \A c \in Members, n \in 0..MaxDepth :
            [cur[c] EXCEPT !.observed = n] \in States
      BY DEF States
    <3>4. cur' \in [Members -> States]
      BY <2>4, <3>2, <3>3 DEF ReadConfs
    <3> QED BY <2>4, <3>4 DEF ReadConfs, node, clocks
  <2>5. CASE EndPass
    BY <2>5 DEF EndPass, node
  <2>6. ASSUME NEW c \in Members, SkipMember(c) PROVE STypeOK'
    BY <2>6 DEF SkipMember, node, clocks
  <2>7. ASSUME NEW c \in Members, ApplyPolicy(c) PROVE STypeOK'
    <3>1. PICK outcome \in Outcomes :
            /\ cur' = [cur EXCEPT ![c] = Answered(@, outcome, late[c])]
            /\ age' = [age EXCEPT ![c] = Since(c, outcome)]
            /\ quiet' = [quiet EXCEPT ![c] = 0] \/ quiet' = quiet
            /\ policied' \in {policied, policied \cup {c}}
      BY <2>7, ApplyNotes
    <3>2. cur[c] \in States /\ late[c] \in BOOLEAN
      OBVIOUS
    <3>4. Answered(cur[c], outcome, late[c]) \in States
      BY <3>2 DEF Answered, ClearsClock, States
    <3>5. cur' \in [Members -> States]
      BY <3>1, <3>4
    <3>6. age' \in [Members -> 0..Window] /\ quiet' \in [Members -> 0..Window]
      BY <3>1 DEF Since
    <3> QED BY <2>7, <3>1, <3>5, <3>6 DEF ApplyPolicy
  <2>8. CASE PassFails
    <3>1. policied' \in SUBSET Members
      BY <2>8 DEF PassFails
    <3> QED BY <2>8, <3>1 DEF PassFails, clocks
  <2>9. CASE ContextEnds
    BY <2>9 DEF ContextEnds, node, clocks
  <2>10. CASE NodeMoves
    BY <2>10 DEF NodeMoves, Block, ChannelOpens, EdgeAppears, ChannelCloses,
                 NodeStep, clocks
  <2>11. CASE Elapse
    <3>1. passAge' \in 0..Window
      BY <2>11, LaterType DEF Elapse
    <3>2. age' \in [Members -> 0..Window] /\ quiet' \in [Members -> 0..Window]
      BY <2>11, LaterType DEF Elapse
    <3> QED BY <2>11, <3>1, <3>2 DEF Elapse, node
  <2>12. CASE UNCHANGED vars
    BY <2>12 DEF vars
  <2> QED
    BY <2>1, <2>2, <2>3, <2>4, <2>5, <2>6, <2>7, <2>8, <2>9, <2>10, <2>11, <2>12
       DEF Next, Pass, Done
<1> QED BY <1>1, <1>2, PTL DEF Spec

(* The timers of a member that no step of the pass touches. *)
LEMMA ElapseKeepsWindow ==
  ASSUME STypeOK, WindowInv, Elapse PROVE WindowInv'
<1> USE SettleAssumption DEF STypeOK
<1>1. /\ pc' = pc /\ todo' = todo /\ cur' = cur /\ last' = last /\ late' = late
      /\ passAge' = IF pc = "wait" THEN 0 ELSE Later(passAge)
  BY DEF Elapse, node
<1>2. \A c \in Members :
        /\ quiet'[c] = Later(quiet[c]) /\ quiet'[c] >= quiet[c]
        /\ quiet'[c] \in 0..Window
        /\ cur[c].refused => age'[c] = Later(age[c])
  BY LaterType DEF Elapse
<1>3. Clock'
  BY <1>1, <1>2, LaterIsMonotone DEF Clock, WindowInv
<1>4. PassClock'
  BY <1>1, <1>2, LaterIsMonotone DEF PassClock, Active, WindowInv
<1>5. Overdue' /\ Silent'
  BY <1>1, <1>2 DEF Overdue, Silent, Active, WindowInv
<1> QED BY <1>1, <1>3, <1>4, <1>5 DEF WindowInv, Carried, Rested

(* One answer: a member is touched once in a pass, by its own call. *)
LEMMA ApplyKeepsWindow ==
  ASSUME STypeOK, WindowInv, NEW c \in Members, ApplyPolicy(c) PROVE WindowInv'
<1> USE SettleAssumption DEF STypeOK
<1>1. PICK outcome \in Outcomes :
        /\ cur' = [cur EXCEPT ![c] = Answered(@, outcome, late[c])]
        /\ age' = [age EXCEPT ![c] = Since(c, outcome)]
        /\ quiet' = [quiet EXCEPT ![c] = 0] \/ quiet' = quiet
        /\ outcome = "unexplained" => quiet' = quiet
  BY ApplyNotes
<1>2. /\ pc = "apply" /\ pc' = "apply" /\ c \in todo /\ todo' = todo \ {c}
      /\ last' = last /\ passAge' = passAge /\ late' = late
  BY DEF ApplyPolicy
<1>3. \A d \in Members \ {c} :
        cur'[d] = cur[d] /\ age'[d] = age[d] /\ quiet'[d] = quiet[d]
  BY <1>1
<1>4. /\ cur'[c].policy = outcome
      /\ cur'[c].refused <=> outcome = "unexplained"
      /\ cur'[c].exhausted => cur[c].refused /\ late[c] /\ outcome = "unexplained"
      /\ age'[c] = Since(c, outcome)
      /\ outcome = "unexplained" => quiet'[c] = quiet[c]
  <2>1. cur'[c] = Answered(cur[c], outcome, late[c])
    BY <1>1
  <2>2. cur[c] \in States
    OBVIOUS
  <2> QED BY <1>1, <2>1, <2>2 DEF Answered, ClearsClock, States
<1>5. Clock'
  <2>1. ASSUME cur'[c].refused PROVE quiet'[c] >= age'[c]
    BY <2>1, <1>2, <1>4 DEF Since, ClearsClock, WindowInv, Clock, PassClock, Active
  <2> QED BY <1>3, <2>1 DEF Clock, WindowInv
<1>6. PassClock' /\ Overdue'
  BY <1>2, <1>3 DEF PassClock, Overdue, Active, WindowInv
<1>7. Silent'
  <2>1. ASSUME cur'[c].exhausted PROVE quiet'[c] >= Window
    BY <2>1, <1>2, <1>4 DEF WindowInv, Overdue, Active
  <2> QED BY <1>3, <2>1 DEF Silent, WindowInv
<1> QED BY <1>2, <1>5, <1>6, <1>7 DEF WindowInv, Carried, Rested

(* The three readings of a pass write fields the clocks do not look at. *)
LEMMA ReadingKeepsWindow ==
  ASSUME STypeOK, WindowInv, ReadOpen \/ ReadPending \/ ReadConfs
  PROVE  WindowInv'
<1> USE DEF STypeOK
<1>1. /\ Active /\ Active' /\ pc' # "wait" /\ todo' = todo /\ late' = late
      /\ age' = age /\ quiet' = quiet /\ passAge' = passAge
  BY DEF ReadOpen, ReadPending, ReadConfs, clocks, Active
<1>2. \A c \in Members : /\ cur'[c].refused = cur[c].refused
                         /\ cur'[c].policy = cur[c].policy
                         /\ cur'[c].exhausted = cur[c].exhausted
  BY DEF ReadOpen, ReadPending, ReadConfs, States
<1> QED BY <1>1, <1>2
       DEF WindowInv, Carried, Clock, PassClock, Rested, Overdue, Silent

LEMMA WindowInvInit == Init => WindowInv
BY SettleAssumption
   DEF Init, Fresh, WindowInv, Carried, Clock, PassClock, Rested, Overdue,
       Silent, Active

LEMMA WindowInvStep == STypeOK /\ WindowInv /\ [Next]_vars => WindowInv'
<1> SUFFICES ASSUME STypeOK, WindowInv, [Next]_vars PROVE WindowInv'
  OBVIOUS
<1> USE SettleAssumption DEF STypeOK
<1>1. CASE StartPass
  <2>1. /\ pc = "wait" /\ last = cur /\ passAge = 0 /\ pc' = "open" /\ cur' = cur
        /\ age' = age /\ quiet' = quiet /\ passAge' = passAge
    BY <1>1 DEF StartPass, WindowInv, Carried, Rested
  <2>2. \A c \in Members : late'[c] => age[c] >= Window
    BY <1>1 DEF StartPass
  <2> QED BY <2>1, <2>2
         DEF WindowInv, Carried, Clock, PassClock, Rested, Overdue, Silent, Active
<1>2. CASE ReadOpen \/ ReadPending \/ ReadConfs
  BY <1>2, ReadingKeepsWindow
<1>3. CASE EndPass
  BY <1>3 DEF EndPass, WindowInv, Carried, Clock, PassClock, Rested, Overdue,
              Silent, Active
<1>4. ASSUME NEW c \in Members, SkipMember(c) PROVE WindowInv'
  BY <1>4 DEF SkipMember, clocks, WindowInv, Carried, Clock, PassClock, Rested,
              Overdue, Silent, Active
<1>5. ASSUME NEW c \in Members, ApplyPolicy(c) PROVE WindowInv'
  BY <1>5, ApplyKeepsWindow
<1>6. CASE PassFails \/ ContextEnds
  BY <1>6 DEF PassFails, ContextEnds, clocks, WindowInv, Carried, Clock,
              PassClock, Rested, Overdue, Silent, Active
<1>7. CASE NodeMoves \/ UNCHANGED vars
  <2>1. UNCHANGED <<pc, todo, cur, last, clocks>>
    BY <1>7 DEF NodeMoves, Block, ChannelOpens, EdgeAppears, ChannelCloses,
                NodeStep, vars, clocks
  <2> QED BY <2>1 DEF clocks, WindowInv, Carried, Clock, PassClock, Rested,
                      Overdue, Silent, Active
<1>8. CASE Elapse
  BY <1>8, ElapseKeepsWindow
<1> QED BY <1>1, <1>2, <1>3, <1>4, <1>5, <1>6, <1>7, <1>8 DEF Next, Pass, Done

(***************************************************************************)
(* A member is given up for silence only after a whole RetryWindow of it,  *)
(* whatever the window and however long the passes take.                   *)
(***************************************************************************)
THEOREM WindowIsGiven == Spec => []GivenUpAfterWindow
<1>1. WindowInv => GivenUpAfterWindow
  BY DEF WindowInv, Silent, GivenUpAfterWindow, Unexplained, Stuck, Terminal
<1> QED BY <1>1, TypeCorrect, WindowInvInit, WindowInvStep, PTL DEF Spec

----------------------------------------------------------------------------
(***************************************************************************)
(* What is reported and what is so: a verdict of "applied", now or in the  *)
(* last completed pass, is a policy LND carries; a settlement that ended   *)
(* by itself did so on a pass in which every member was policied or stuck. *)
(***************************************************************************)
Ending ==
  /\ ended \in {"finished", "stuck"} =>
       pc = "ended" /\ last = cur /\ Finished(last)
  /\ ended = "finished" => \A c \in Members : ~Stuck(last[c])
  /\ pc # "ended" => ended = "no"

VerdictInv == AppliedIsTrue /\ Ending

LEMMA VerdictInvInit == Init => VerdictInv
BY DEF Init, Fresh, VerdictInv, AppliedIsTrue, Ending

LEMMA VerdictInvStep == STypeOK /\ VerdictInv /\ [Next]_vars => VerdictInv'
<1> SUFFICES ASSUME STypeOK, VerdictInv, [Next]_vars PROVE VerdictInv'
  OBVIOUS
<1> USE DEF STypeOK, VerdictInv
<1>1. CASE StartPass
  BY <1>1 DEF StartPass, node, AppliedIsTrue, Ending
<1>2. CASE ReadOpen \/ ReadPending \/ ReadConfs
  <2>1. \A c \in Members : cur'[c].policy = cur[c].policy
    BY <1>2 DEF ReadOpen, ReadPending, ReadConfs, States
  <2> QED BY <1>2, <2>1 DEF ReadOpen, ReadPending, ReadConfs, node,
                            AppliedIsTrue, Ending
<1>3. CASE EndPass
  BY <1>3 DEF EndPass, node, AppliedIsTrue, Ending
<1>4. ASSUME NEW c \in Members, SkipMember(c) PROVE VerdictInv'
  BY <1>4 DEF SkipMember, node, AppliedIsTrue, Ending
<1>5. ASSUME NEW c \in Members, ApplyPolicy(c) PROVE VerdictInv'
  <2>1. PICK outcome \in Outcomes :
          /\ cur' = [cur EXCEPT ![c] = Answered(@, outcome, late[c])]
          /\ policied' \in {policied, policied \cup {c}}
          /\ outcome = "applied" => c \in policied' \/ c \in blind
    BY <1>5, ApplyNotes
  <2>2. cur[c] \in States
    OBVIOUS
  <2>3. cur'[c].policy = outcome
    BY <2>1, <2>2 DEF Answered, States
  <2>4. AppliedIsTrue'
    BY <1>5, <2>1, <2>3 DEF ApplyPolicy, AppliedIsTrue
  <2> QED BY <1>5, <2>4 DEF ApplyPolicy, Ending
<1>6. CASE PassFails \/ ContextEnds
  BY <1>6 DEF PassFails, ContextEnds, node, AppliedIsTrue, Ending
<1>7. CASE NodeMoves \/ Elapse \/ UNCHANGED vars
  <2>1. UNCHANGED <<pc, cur, last, ended, policied, blind>>
    BY <1>7 DEF NodeMoves, Block, ChannelOpens, EdgeAppears, ChannelCloses,
                NodeStep, Elapse, vars, node
  <2> QED BY <2>1 DEF AppliedIsTrue, Ending, Finished, Settled, Stuck, Terminal,
                      Unexplained
<1> QED BY <1>1, <1>2, <1>3, <1>4, <1>5, <1>6, <1>7 DEF Next, Pass, Done

(***************************************************************************)
(* No refusal inside a successful response passes for a policy applied,    *)
(* whichever of the ways LND names the channel in words it is given in and *)
(* whatever other failures it is given among: for the members LND names by *)
(* bytes alone, nothing is said.                                           *)
(***************************************************************************)
THEOREM VerdictsAreTrue == Spec => []AppliedIsTrue
BY TypeCorrect, VerdictInvInit, VerdictInvStep, PTL DEF Spec, VerdictInv

(***************************************************************************)
(* A settlement that ends by itself leaves nobody whose failures LND names *)
(* in words at LND's defaults but those it reports as stuck, for any batch *)
(* and any interleaving (issue #6).                                        *)
(***************************************************************************)
THEOREM NobodyIsForgotten == Spec => []NobodyLeftAtDefaults
<1>1. STypeOK /\ VerdictInv => NobodyLeftAtDefaults
  BY DEF STypeOK, VerdictInv, Ending, AppliedIsTrue, NobodyLeftAtDefaults,
         Finished, Settled
<1> QED BY <1>1, TypeCorrect, VerdictInvInit, VerdictInvStep, PTL DEF Spec

----------------------------------------------------------------------------
(***************************************************************************)
(* The two depths of a report, for every timing of the blocks against the  *)
(* passes.  The peer's figure is read while nothing is confirmed; what is  *)
(* observed is read after a list that shows the channel open, and a        *)
(* channel opens no earlier than its peer asked (OpenIsDeep, SeenIsDeep).  *)
(***************************************************************************)
Faithful(s, c) ==
  /\ s.peerDepth # 0 => s.peerDepth = minDepth[c]
  /\ s.observed # 0 => s.observed >= minDepth[c]

OpenIsDeep == \A c \in Members : chan[c] # "pending" => depth >= minDepth[c]

SeenIsDeep ==
  \A c \in Members : cur[c].open \/ last[c].open => depth >= minDepth[c]

DepthInv ==
  /\ OpenIsDeep /\ SeenIsDeep
  /\ \A c \in Members : Faithful(cur[c], c) /\ Faithful(last[c], c)

LEMMA DepthInvStep == STypeOK /\ DepthInv /\ [Next]_vars => DepthInv'
<1> SUFFICES ASSUME STypeOK, DepthInv, [Next]_vars PROVE DepthInv'
  OBVIOUS
<1> USE DEF STypeOK, DepthInv, OpenIsDeep, SeenIsDeep, Faithful
<1>1. minDepth' = minDepth
  BY DEF Next, Pass, PassFails, ContextEnds, Elapse, Done, StartPass, ReadOpen,
         ReadPending, ReadConfs, EndPass, SkipMember, ApplyPolicy, NodeMoves, Block,
         ChannelOpens, EdgeAppears, ChannelCloses, NodeStep, node, vars
<1>2. CASE StartPass \/ EndPass
  BY <1>1, <1>2 DEF StartPass, EndPass, node
<1>3. CASE ReadOpen
  <2>1. /\ UNCHANGED <<depth, chan, last>>
        /\ \A c \in Members : /\ cur'[c].peerDepth = cur[c].peerDepth
                              /\ cur'[c].observed = cur[c].observed
                              /\ cur'[c].open => chan[c] # "pending"
    <3>1. UNCHANGED <<depth, chan, last>>
      BY <1>3 DEF ReadOpen, node
    <3>2. ASSUME NEW c \in Members
          PROVE  /\ cur'[c].peerDepth = cur[c].peerDepth
                 /\ cur'[c].observed = cur[c].observed
                 /\ cur'[c].open <=> chan[c] \in {"open", "edge"}
      <4>1. cur'[c] = [cur[c] EXCEPT !.open = chan[c] \in {"open", "edge"}]
        BY <1>3 DEF ReadOpen
      <4>2. cur[c] \in States
        OBVIOUS
      <4> QED BY <4>1, <4>2 DEF States
    <3> QED BY <3>1, <3>2
  <2> QED BY <1>1, <2>1
<1>4. CASE ReadPending
  <2>1. /\ UNCHANGED <<depth, chan, last>>
        /\ \A c \in Members : /\ cur'[c].peerDepth = PeerDepthRead(c)
                              /\ cur'[c].observed = cur[c].observed
                              /\ cur'[c].open = cur[c].open
                              /\ minDepth[c] \in 1..MaxDepth
    BY <1>4 DEF ReadPending, States, node
  <2> QED BY <1>1, <2>1 DEF PeerDepthRead, UntilActive
<1>5. CASE ReadConfs
  <2> DEFINE confs == IF HasChain THEN depth ELSE 0
  <2>1. /\ UNCHANGED <<depth, chan, last>>
        /\ \A c \in Members : /\ cur'[c].peerDepth = cur[c].peerDepth
                              /\ cur'[c].observed = ObservedRead(c, confs)
                              /\ cur'[c].open = cur[c].open
    BY <1>5 DEF ReadConfs, States, node
  <2> QED BY <1>1, <2>1 DEF ObservedRead
<1>6. ASSUME NEW c \in Members, ApplyPolicy(c) PROVE DepthInv'
  <2>1. PICK outcome \in Outcomes :
          cur' = [cur EXCEPT ![c] = Answered(@, outcome, late[c])]
    BY <1>6, ApplyNotes
  <2>2. \A d \in Members : /\ cur'[d].peerDepth = cur[d].peerDepth
                           /\ cur'[d].observed = cur[d].observed
                           /\ cur'[d].open = cur[d].open
    BY <2>1 DEF Answered, States
  <2>3. UNCHANGED <<depth, chan, last>>
    BY <1>6 DEF ApplyPolicy
  <2> QED BY <1>1, <2>2, <2>3
<1>7. ASSUME NEW c \in Members, SkipMember(c) PROVE DepthInv'
  BY <1>1, <1>7 DEF SkipMember, node
<1>8. CASE PassFails \/ ContextEnds \/ Elapse \/ UNCHANGED vars
  BY <1>1, <1>8 DEF PassFails, ContextEnds, Elapse, vars, node
<1>9. CASE NodeMoves
  <2>1. cur' = cur /\ last' = last
    BY <1>9 DEF NodeMoves, Block, ChannelOpens, EdgeAppears, ChannelCloses, NodeStep
  <2>2. depth' \in 0..MaxDepth /\ depth' >= depth
    BY <1>9, SettleAssumption DEF NodeMoves, Block, ChannelOpens, EdgeAppears, ChannelCloses, NodeStep
  <2>3. \A c \in Members : minDepth[c] \in 1..MaxDepth
    OBVIOUS
  <2>4. OpenIsDeep'
    <3>1. CASE Block
      BY <1>1, <2>2, <2>3, <3>1 DEF Block, NodeStep
    <3>2. ASSUME NEW c \in Members,
                 ChannelOpens(c) \/ EdgeAppears(c) \/ ChannelCloses(c)
          PROVE  OpenIsDeep'
      BY <1>1, <2>3, <3>2 DEF ChannelOpens, EdgeAppears, ChannelCloses, NodeStep
    <3> QED BY <1>9, <3>1, <3>2 DEF NodeMoves
  <2> QED BY <1>1, <2>1, <2>2, <2>3, <2>4
<1> QED BY <1>2, <1>3, <1>4, <1>5, <1>6, <1>7, <1>8, <1>9 DEF Next, Pass, Done

(***************************************************************************)
(* The depth reported as the peer's own is the peer's, and the observed    *)
(* one is no less, in every batch.                                         *)
(***************************************************************************)
THEOREM PeerDepthIsRead == Spec => []PeerDepthIsThePeers
<1>1. Init => DepthInv
  BY DEF Init, Fresh, DepthInv, OpenIsDeep, SeenIsDeep, Faithful
<1>2. DepthInv => PeerDepthIsThePeers
  BY DEF DepthInv, Faithful, PeerDepthIsThePeers
<1> QED BY <1>1, <1>2, TypeCorrect, DepthInvStep, PTL DEF Spec

----------------------------------------------------------------------------
(***************************************************************************)
(* A call decides at most the member it was made for; everything else that *)
(* happens before the end, the pass carried over included, decides nothing.*)
(***************************************************************************)
VerdictMoves == \/ UNCHANGED <<Decided, ended>>
                \/ Verdicts!End \/ Verdicts!Stop
                \/ \E c \in Members : Verdicts!Decide(c)

(* The fields a verdict is read from. *)
LEMMA SameDecided ==
  ASSUME \A c \in Members : /\ cur'[c].policy = cur[c].policy
                            /\ cur'[c].exhausted = cur[c].exhausted
  PROVE  Decided' = Decided
BY DEF Decided, Verdict, Stuck, Terminal, Unexplained

LEMMA ApplyDecidesOne ==
  ASSUME STypeOK, VerdictInv, NEW c \in Members, ApplyPolicy(c)
  PROVE  VerdictMoves
<1> USE DEF STypeOK
<1>1. PICK outcome \in Outcomes :
        cur' = [cur EXCEPT ![c] = Answered(@, outcome, late[c])]
  BY ApplyNotes
<1>2. ended' = ended /\ ended = "no"
  BY DEF ApplyPolicy, VerdictInv, Ending
<1>3. Decided[c] = "undecided"
  BY DEF ApplyPolicy, Skipped, Decided, Verdict
<1>4. PICK v \in {"undecided", "policied", "givenUp"} : v = Verdict(cur'[c])
  BY DEF Verdict
<1>5. Decided' = [Decided EXCEPT ![c] = v]
  <2>1. \A d \in Members \ {c} : cur'[d] = cur[d]
    BY <1>1
  <2> QED BY <1>4, <2>1 DEF Decided
<1>6. CASE v = "undecided"
  <2>1. Decided' = Decided
    BY <1>3, <1>5, <1>6 DEF Decided
  <2> QED BY <1>2, <2>1 DEF VerdictMoves
<1>7. CASE v # "undecided"
  BY <1>2, <1>3, <1>4, <1>5, <1>7 DEF VerdictMoves, Verdicts!Decide
<1> QED BY <1>6, <1>7

LEMMA EndPassEnds ==
  ASSUME STypeOK, VerdictInv, EndPass PROVE VerdictMoves
<1>1. Decided' = Decided /\ ended = "no"
  BY SameDecided DEF EndPass, VerdictInv, Ending
<1>2. CASE Finished(cur)
  <2>1. \A c \in Members : /\ Decided[c] # "undecided"
                           /\ Decided[c] = "givenUp" <=> Stuck(cur[c])
    BY <1>2 DEF Finished, Settled, Stuck, Terminal, Unexplained, Decided, Verdict
  <2>2. ended' = IF \E c \in Members : Decided[c] = "givenUp"
                 THEN "stuck" ELSE "finished"
    BY <1>2, <2>1 DEF EndPass
  <2> QED BY <1>1, <2>1, <2>2 DEF VerdictMoves, Verdicts!End
<1>3. CASE ~Finished(cur)
  BY <1>1, <1>3 DEF EndPass, VerdictMoves
<1> QED BY <1>2, <1>3

(***************************************************************************)
(* The settlement implements SettleVerdict: one verdict per member, never  *)
(* taken back and none decided for another, and an end of its own only     *)
(* once all are decided.                                                   *)
(***************************************************************************)
THEOREM ImplementsVerdicts == Spec => KeepsVerdicts
<1>1. Init => Verdicts!Init
  BY DEF Init, Verdicts!Init, Fresh, Decided, Verdict, Stuck, Terminal, Unexplained
<1>2. STypeOK /\ WindowInv /\ VerdictInv /\ [Next]_vars
        => [Verdicts!Next]_Verdicts!vvars
  <2> SUFFICES ASSUME STypeOK, WindowInv, VerdictInv, [Next]_vars
               PROVE  [Verdicts!Next]_Verdicts!vvars
    OBVIOUS
  <2>1. ASSUME StartPass PROVE VerdictMoves
    BY <2>1, SameDecided DEF StartPass, WindowInv, Carried, VerdictMoves
  <2>2. ASSUME ReadOpen \/ ReadPending \/ ReadConfs PROVE VerdictMoves
    BY <2>2, SameDecided DEF STypeOK, States, ReadOpen, ReadPending, ReadConfs,
                             VerdictMoves
  <2>3. ASSUME NEW c \in Members, SkipMember(c) PROVE VerdictMoves
    BY <2>3, SameDecided DEF SkipMember, VerdictMoves
  <2>4. ASSUME PassFails \/ ContextEnds PROVE VerdictMoves
    BY <2>4, SameDecided DEF PassFails, ContextEnds, VerdictInv, Ending,
                             VerdictMoves, Verdicts!Stop
  <2>5. ASSUME NodeMoves \/ Elapse \/ UNCHANGED vars PROVE VerdictMoves
    BY <2>5, SameDecided DEF NodeMoves, Block, ChannelOpens, EdgeAppears,
                             ChannelCloses, NodeStep, Elapse, vars, VerdictMoves
  <2>6. VerdictMoves
    BY <2>1, <2>2, <2>3, <2>4, <2>5, ApplyDecidesOne, EndPassEnds
    DEF Next, Pass, Done
  <2> QED
    BY <2>6 DEF VerdictMoves, Verdicts!Next, Verdicts!vvars
<1> QED
  BY <1>1, <1>2, TypeCorrect, WindowInvInit, WindowInvStep, VerdictInvInit,
     VerdictInvStep, PTL DEF Spec, KeepsVerdicts, Verdicts!Spec

----------------------------------------------------------------------------
(***************************************************************************)
(* The stock prediction lies in the peers' range, grows with the amount    *)
(* and is six confirmations from the wumbo limit on.                       *)
(***************************************************************************)
THEOREM PredictionIsBounded ==
  ASSUME NEW a \in Nat, NEW b \in Nat, a <= b
  PROVE  /\ ExpectedDepth(a) \in 1..6
         /\ ExpectedDepth(a) <= ExpectedDepth(b)
         /\ a >= MaxFundingAmount => ExpectedDepth(a) = 6
BY DEF ExpectedDepth, MaxFundingAmount
=============================================================================
