--------------------------- MODULE ScreensProofs ---------------------------
(***************************************************************************)
(* What the operator reads is so, for any batch, any number of recover     *)
(* commands that wait for the run and for one another, and any number of   *)
(* faults: the screen of a run, the plan of an abort, and its outcome.     *)
(***************************************************************************)
EXTENDS Screens, WindowGateProofs

(***************************************************************************)
(* What the run's state says of the run.  While it says armed or signing   *)
(* nobody has begun to take the run apart; an abort that has begun has     *)
(* written so first, and what it read of the state is still the state.     *)
(***************************************************************************)
Reads == {"idle", "load", "rows", "mark"}

Takes == {"work", "lookup", "confirm", "blunt", "record"}

Closes == {"left", "leftrows", "close"}

Unsigned == {"receipts", "gate", "signing"}

StateInv ==
  /\ runState \in {"armed", "signing"} =>
       /\ pc \in {"receipts", "teardown"} \cup PastGate \cup Stopping
       /\ \A c \in Channels : Standing(c)
       /\ \A p \in Procs : step[p] \in Reads
  /\ runState = "armed" =>
       file = NoFile /\ pc \in Unsigned \cup {"teardown"} \cup Stopping
  /\ \A p \in Procs : step[p] \in {"rows", "leftrows"} => seen[p] = runState
  /\ \A p \in Procs : step[p] \in Takes \cup Closes => runState = "aborting"

(***************************************************************************)
(* What was asked of the wallet is journalled, what may be published is on *)
(* disk, and what is published the network has.                            *)
(***************************************************************************)
AskedInv ==
  /\ file # NoFile => signer # "absent"
  /\ pc = "sign" => signer # "absent"
  /\ file # NoFile => pc \in {"accept"} \cup PublishSteps \cup Ended
  /\ MayBePublished(runState) => rawTx # NoTx
  /\ pc = "mark_published" \/ runState = "published" => mempool # NoTx

(***************************************************************************)
(* The abort against the plan it was announced with.  The rows are as they *)
(* were printed until the abort records what it did; what it did is done   *)
(* once, to a channel on that side of the plan, and if nothing failed it   *)
(* is done to all of them; and once recorded, a row still in the way is a  *)
(* verified channel whose shim was not there.                              *)
(***************************************************************************)
PlanOf(p, c) ==
  /\ c \in target[p].channels \cup report[p].abandoned => shown[p][c] = "pending"
  /\ c \in target[p].shims \cup report[p].cancelled \cup report[p].gone =>
       shown[p][c] \in {"shim_registered", "verified"}
  /\ c \in report[p].gone => c \notin report[p].cancelled
  /\ c \in target[p].shims => c \notin report[p].cancelled \cup report[p].gone

CoverOf(p, c) ==
  /\ shown[p][c] = "pending" => c \in target[p].channels \cup report[p].abandoned
  /\ shown[p][c] \in {"shim_registered", "verified"} =>
       c \in target[p].shims \cup report[p].cancelled \cup report[p].gone

InTheWay(state) == state \in {"pending", "shim_registered", "verified"}

RecordedOf(p, c) ==
  /\ c \in report[p].gone =>
       \/ shown[p][c] = "shim_registered"
       \/ shown[p][c] = "verified" /\ chanState[c] = "verified"
  /\ InTheWay(chanState[c]) => c \in report[p].gone /\ shown[p][c] = "verified"

PlanAt(p) ==
  /\ step[p] \in Reads => report[p] = EmptyReport
  /\ step[p] \in {"load", "rows", "mark"} \cup Takes => shown[p] = chanState
  /\ step[p] \in {"mark"} \cup Takes => \A c \in Channels : PlanOf(p, c)
  /\ step[p] \in {"mark"} \cup Takes /\ ~report[p].failed =>
       \A c \in Channels : CoverOf(p, c)
  /\ step[p] \in {"lookup", "confirm", "blunt"} => at[p] \in target[p].channels
  /\ step[p] = "record" => target[p] = EmptyTarget
  /\ step[p] \in Closes => \A c \in Channels : RecordedOf(p, c)

PlanInv == \A p \in Procs : PlanAt(p)

----------------------------------------------------------------------------
(* The state of the run *)

LEMMA StateOfRun ==
  ASSUME Inv, RowsInv, AloneInv, StandInv, AbortInv, AskedInv, StateInv, RunStep
  PROVE  StateInv'
<1> USE DEF Inv, TypeOK, JTypeOK, LndTypeOK, StateInv, AloneInv, Standing, Stopping,
            PastGate, PublishSteps, Reads, Takes, Closes, Unsigned
<1>1. ASSUME NEW c \in Channels,
             OpenStream(c) \/ OpenInterrupted(c) \/ CancelUnreadableFails(c)
      PROVE  StateInv'
  BY <1>1 DEF OpenStream, OpenInterrupted, CancelUnreadableFails, OpenGivesUp,
     RegisterShim, jvars, recVars
<1>2. CASE OpenRefused \/ BeginRun \/ BeginFails
  BY <1>2 DEF OpenRefused, OpenGivesUp, BeginRun, Begin, BeginFails, jvars, lndVars,
     recVars
<1>3. CASE (\E t \in TxIds : BuildUnsigned(t)) \/ PinTxID
  BY <1>3 DEF BuildUnsigned, PinTxID, RecordPinnedTxID, jvars, lndVars, recVars
<1>4. ASSUME NEW c \in Channels, JournalVerify(c) PROVE StateInv'
  BY <1>4 DEF JournalVerify, MarkVerified, lndVars, recVars
<1>5. CASE CallVerify \/ VerifyAnswered
  BY <1>5 DEF CallVerify, SendVerify, VerifyAnswered, jvars, lndVars, recVars
<1>6. ASSUME NEW c \in Channels, TakeReceipt(c) PROVE StateInv'
  <2>1. file' = NoFile
    BY <1>6 DEF TakeReceipt, AskedInv, Ended
  <2>2. ASSUME runState' = "armed", runState # "armed"
        PROVE  \A d \in Channels : Standing(d)'
    <3>1. AllPending(chanState') /\ chan' = chan
      BY <1>6, <2>2 DEF TakeReceipt, MarkPending, lndVars
    <3>2. Standing(c)
      BY <1>6 DEF TakeReceipt, ReceiptFor, StandInv, LndTypeOK
    <3>3. ASSUME NEW d \in Channels, d # c PROVE Standing(d)
      <4>1. committed[d] # NoTx
        BY <1>6, NoTxAssumption DEF TakeReceipt, PinInv, Verified, Pinned
      <4>2. chanState[d] # "absent" /\ chanState'[d] = chanState[d]
        BY <1>6, <3>3, <4>1 DEF TakeReceipt, MarkPending, RowsInv, RowOf, Untouched
      <4>3. chanState[d] = "pending"
        BY <3>1, <4>2 DEF AllPending
      <4> QED
        BY <1>6, <4>3 DEF TakeReceipt, AbortInv, Existed, StandInv
    <3> QED
      BY <3>1, <3>2, <3>3
  <2> QED
    BY <1>6, <2>1, <2>2 DEF TakeReceipt, MarkPending, lndVars, recVars
<1>7. CASE GateOpens \/ StartSigning \/ AskWallet
  BY <1>7 DEF GateOpens, StartSigning, MarkSigning, AskWallet, RecordSigner, jvars,
     lndVars, recVars, StandInv, Received
<1>8. CASE (\E f \in Files : WalletReturns(f)) \/ AcceptSigned \/ FinalizeTx
  BY <1>8 DEF WalletReturns, AcceptSigned, RecordSigner, FinalizeTx,
     RecordFinalizedTx, jvars, lndVars, recVars
<1>9. CASE EnterPublishing
  BY <1>9 DEF EnterPublishing, MarkPublishing, lndVars, recVars
<1>10. CASE CallPublish \/ PublishAnswered
  BY <1>10 DEF CallPublish, SendPublish, PublishAnswered, jvars, lndVars, recVars
<1>11. CASE FinishPublish \/ PublishFails
  BY <1>11 DEF FinishPublish, MarkPublished, PublishFails, jvars, lndVars, recVars
<1>12. CASE WindowFails \/ StopBeforePublish \/ TornDown
  BY <1>12 DEF WindowFails, Window, StopBeforePublish, TornDown, jvars, lndVars,
     recVars
<1>13. CASE TearDown
  BY <1>13 DEF TearDown, Goto, RecTypeOK, jvars, lndVars
<1>14. CASE RunnerDies
  <2>1. \A p \in Procs : step'[p] = "idle" \/ (step'[p] = step[p] /\ seen'[p] = seen[p])
    BY <1>14 DEF RunnerDies, Return, Goto, RecTypeOK
  <2> QED
    BY <1>14, <2>1 DEF RunnerDies, RunnerStopped, jvars, lndVars
<1> QED
  BY <1>1, <1>2, <1>3, <1>4, <1>5, <1>6, <1>7, <1>8, <1>9, <1>10, <1>11, <1>12,
     <1>13, <1>14 DEF RunStep

LEMMA StateOfLnd ==
  ASSUME Inv, RowsInv, StateInv, LndStep
  PROVE  StateInv'
<1> USE DEF Inv, TypeOK, LndTypeOK
<1>0. UNCHANGED <<runState, pc, file, step, seen>>
  BY DEF LndStep, jvars, runVars
<1>1. ASSUME NEW c \in Channels, Standing(c) PROVE Standing(c)'
  <2>1. ASSUME NEW d \in Channels, FundingSigned(d) PROVE Standing(c)'
    BY <1>1, <2>1 DEF FundingSigned, Standing
  <2>2. CASE Confirm
    BY <1>1, <2>2 DEF Confirm, Standing
  <2>3. CASE chan' = chan
    BY <1>1, <2>3 DEF Standing
  <2> QED
    BY <2>1, <2>2, <2>3 DEF LndStep, ActOnVerify, PeerFails, DropShim, ActOnPublish,
       StreamBreaks, LndRestarts
<1> QED
  BY <1>0, <1>1 DEF StateInv

(***************************************************************************)
(* An abort that has begun says so before it touches anything; one that    *)
(* has only read leaves LND and the run's state as they were.              *)
(***************************************************************************)
LEMMA StateOfRecovery ==
  ASSUME ~Overlap, Inv, AloneInv, StandInv, StateInv, NEW p \in Procs, RecoveryStep(p)
  PROVE  StateInv'
<1> USE DEF Reads, Takes, Closes
<1>1. /\ RecTypeOK /\ UNCHANGED <<pc, file>> /\ pc \in Stopping
      /\ runState \in RunStates
  BY RecoveryIsAlone, RecoveryKeepsPins DEF Inv, TypeOK, JTypeOK, pinVars, runVars
<1>2. \A q \in Procs : q = p \/ (step[q] = "idle" /\ step'[q] = "idle")
  BY <1>1, RecoveryIsAlone, OthersStandStill
<1>3. CASE MarkAborting(p)
  BY <1>1, <1>2, <1>3 DEF MarkAborting, SetAborting, Goto, RecTypeOK, StateInv
<1>4. CASE \/ LoadRun(p) \/ RefuseTarget(p) \/ LoadRows(p) \/ JournalFails(p)
           \/ RecoverCommand(p) \/ RecoverDies(p) \/ ReloadRun(p) \/ LeftStanding(p)
  <2>1. UNCHANGED <<jvars, lndVars>>
    BY <1>4 DEF LoadRun, RefuseTarget, LoadRows, JournalFails, RecoverCommand,
       RecoverDies, ReloadRun, LeftStanding
  <2>2. /\ step'[p] \in {"rows", "leftrows"} => seen'[p] = runState
        /\ step'[p] \in Takes \cup Closes => runState = "aborting"
        /\ runState \in {"armed", "signing"} => step'[p] \in Reads
    BY <1>1, <1>4 DEF LoadRun, RefuseTarget, LoadRows, JournalFails, RecoverCommand,
       RecoverDies, ReloadRun, LeftStanding, Return, Goto, RecTypeOK, StateInv
  <2> QED
    BY <1>1, <1>2, <2>1, <2>2 DEF StateInv, Standing, jvars, lndVars
<1>5. CASE AbortStep(p) \/ RecordOutcome(p) \/ CloseRun(p)
  <2>1. step[p] \in Takes \cup Closes
    BY <1>5 DEF AbortStep, AbandonSafely, SafeFlagDeclined, AbandonFails, CancelShim,
       CancelFails, LookupPending, LookupNotPending, OperatorConfirms, AbandonBluntly,
       AbortDone, RecordOutcome, CloseRun
  <2>2. runState = "aborting"
    BY <2>1 DEF StateInv
  <2>3. CASE CloseRun(p)
    BY <1>1, <1>2, <2>3 DEF CloseRun, SetAborted, Return, Goto, RecTypeOK, StateInv
  <2>4. CASE AbortStep(p) \/ RecordOutcome(p)
    <3>1. runState' = runState
      BY <2>4 DEF AbortStep, AbandonSafely, SafeFlagDeclined, AbandonFails,
         CancelShim, CancelFails, LookupPending, LookupNotPending, OperatorConfirms,
         AbandonBluntly, AbortDone, ChannelDone, RecordOutcome, RecordAbort, jvars
    <3>2. step'[p] \in {"idle", "left"} \cup Takes
      BY <1>1, <2>4 DEF AbortStep, AbandonSafely, SafeFlagDeclined, AbandonFails,
         CancelShim, CancelFails, LookupPending, LookupNotPending, OperatorConfirms,
         AbandonBluntly, AbortDone, ChannelDone, RecordOutcome, Return, Goto,
         RecTypeOK
    <3> QED
      BY <1>1, <1>2, <2>2, <3>1, <3>2 DEF StateInv
  <2> QED
    BY <1>5, <2>3, <2>4
<1> QED
  BY <1>3, <1>4, <1>5 DEF RecoveryStep, RecoverStep

----------------------------------------------------------------------------
(* The wallet's rows and the bytes *)

LEMMA AskedOfRun ==
  ASSUME Inv, StandInv, AskedInv, RunStep
  PROVE  AskedInv'
<1> USE DEF Inv, TypeOK, JTypeOK, AskedInv, Ended, PublishSteps, MayBePublished
<1>1. ASSUME NEW c \in Channels,
             OpenStream(c) \/ OpenInterrupted(c) \/ CancelUnreadableFails(c)
      PROVE  AskedInv'
  BY <1>1 DEF OpenStream, OpenInterrupted, CancelUnreadableFails, OpenGivesUp,
     RegisterShim, jvars
<1>2. CASE OpenRefused \/ BeginRun \/ BeginFails
  BY <1>2 DEF OpenRefused, OpenGivesUp, BeginRun, Begin, BeginFails, jvars, lndVars
<1>3. CASE (\E t \in TxIds : BuildUnsigned(t)) \/ PinTxID
  BY <1>3, NoTxAssumption DEF BuildUnsigned, PinTxID, RecordPinnedTxID, jvars, lndVars
<1>4. ASSUME NEW c \in Channels, JournalVerify(c) \/ TakeReceipt(c) PROVE AskedInv'
  BY <1>4 DEF JournalVerify, MarkVerified, TakeReceipt, MarkPending, lndVars
<1>5. CASE CallVerify \/ VerifyAnswered \/ GateOpens \/ StartSigning \/ AskWallet
  BY <1>5 DEF CallVerify, SendVerify, VerifyAnswered, GateOpens, StartSigning,
     MarkSigning, AskWallet, RecordSigner, jvars, lndVars
<1>6. CASE (\E f \in Files : WalletReturns(f)) \/ AcceptSigned
  BY <1>6 DEF WalletReturns, AcceptSigned, RecordSigner, jvars, lndVars
<1>7. CASE FinalizeTx
  BY <1>7, NoTxAssumption DEF FinalizeTx, HashesTo, RecordFinalizedTx, PinInv,
     Verified, Pinned, lndVars
<1>8. CASE EnterPublishing \/ CallPublish
  BY <1>8 DEF EnterPublishing, MarkPublishing, CallPublish, SendPublish, jvars, lndVars
<1>9. CASE PublishAnswered
  <2>1. file.tx # NoTx
    BY <1>9, NoTxAssumption DEF PublishAnswered, PinInv, Verified, Pinned
  <2> QED
    BY <1>9, <2>1 DEF PublishAnswered, jvars, lndVars
<1>10. CASE FinishPublish
  BY <1>10 DEF FinishPublish, MarkPublished, StandInv, Called, lndVars
<1>11. CASE PublishFails \/ WindowFails \/ StopBeforePublish \/ TornDown \/ TearDown
            \/ RunnerDies
  BY <1>11 DEF PublishFails, WindowFails, Window, StopBeforePublish, TornDown,
     TearDown, RunnerDies, jvars, lndVars
<1> QED
  BY <1>1, <1>2, <1>3, <1>4, <1>5, <1>6, <1>7, <1>8, <1>9, <1>10, <1>11 DEF RunStep

LEMMA AskedOfOthers ==
  ASSUME Inv, AskedInv, UNCHANGED <<runVars, signer, rawTx>>,
         runState' \in {runState, "aborting", "aborted"},
         mempool # NoTx => mempool' # NoTx
  PROVE  AskedInv'
BY DEF AskedInv, MayBePublished, runVars

LEMMA AskedStep ==
  ASSUME Inv, StandInv, AskedInv, [Next]_vars
  PROVE  AskedInv'
<1>1. CASE RunStep
  BY <1>1, AskedOfRun
<1>2. ASSUME NEW p \in Procs, RecoveryStep(p) PROVE AskedInv'
  <2>1. runState' \in {runState, "aborting", "aborted"}
    BY <1>2, RecoveryOnLnd DEF Inv, TypeOK
  <2> QED
    BY <1>2, <2>1, RecoveryKeepsPins, RecoveryKeepsSigner, AskedOfOthers DEF pinVars
<1>3. CASE LndStep
  <2>1. UNCHANGED <<runVars, signer, rawTx, runState>>
    BY <1>3 DEF LndStep, jvars
  <2>2. mempool # NoTx => mempool' # NoTx
    BY <1>3 DEF LndStep, ActOnVerify, FundingSigned, PeerFails, DropShim, ActOnPublish,
       Confirm, StreamBreaks, LndRestarts
  <2> QED
    BY <2>1, <2>2, AskedOfOthers
<1>4. CASE Over \/ UNCHANGED vars
  BY <1>4, AskedOfOthers DEF Over, vars, jvars, lndVars
<1> QED
  BY <1>1, <1>2, <1>3, <1>4 DEF Next

LEMMA StateInductive ==
  ASSUME ~Overlap
  PROVE  Spec => [](StateInv /\ AskedInv)
<1>1. Init => StateInv /\ AskedInv
  BY DEF Init, JInit, RecInit, LndInit, StateInv, AskedInv, MayBePublished, Reads,
     Takes, Closes
<1>2. Inv /\ RowsInv /\ AloneInv /\ StandInv /\ AbortInv /\ StateInv /\ AskedInv
        /\ [Next]_vars => StateInv' /\ AskedInv'
  <2> SUFFICES ASSUME Inv, RowsInv, AloneInv, StandInv, AbortInv, StateInv, AskedInv,
                      [Next]_vars
               PROVE  StateInv'
    BY AskedStep
  <2>1. ASSUME UNCHANGED vars PROVE StateInv'
    BY <2>1 DEF vars, jvars, lndVars, recVars, runVars, StateInv, Standing
  <2> QED
    BY <2>1, StateOfRun, StateOfLnd, StateOfRecovery DEF Next, Over
<1> QED
  BY <1>1, <1>2, InvInductive, RowsInductive, StandInductive, AbortInductive, PTL
  DEF Spec

----------------------------------------------------------------------------
(* The plan and the abort *)

(***************************************************************************)
(* The screens only read: under them the run goes its way.                 *)
(***************************************************************************)
LEMMA ScreensOnlyRead == SSpec => Spec
<1>1. SInit => Init
  BY DEF SInit
<1>2. [SNext]_svars => [Next]_vars
  BY DEF SNext, svars
<1> QED
  BY <1>1, <1>2, PTL DEF SSpec, Spec

ShownTypeOK == shown \in [Procs -> [Channels -> ChannelStates]]

LEMMA ShownTyping ==
  ASSUME JTypeOK, ShownTypeOK, [SNext]_svars
  PROVE  ShownTypeOK'
<1>1. CASE UNCHANGED shown
  BY <1>1 DEF ShownTypeOK
<1>2. CASE Shows
  <2>1. NoRows \in [Channels -> ChannelStates]
    BY DEF NoRows, ChannelStates
  <2> QED
    BY <1>2, <2>1 DEF Shows, ShownTypeOK, JTypeOK
<1> QED
  BY <1>1, <1>2 DEF SNext, svars

(***************************************************************************)
(* What a process has printed, across a step of anybody.                   *)
(***************************************************************************)
LEMMA ShownAcross ==
  ASSUME Shows, NEW p \in Procs
  PROVE  /\ step[p] = "idle" /\ step'[p] = "load" => shown'[p] = chanState
         /\ step[p] # "idle" /\ step'[p] # "idle" => shown'[p] = shown[p]
BY DEF Shows

(***************************************************************************)
(* A process the step is not of.                                           *)
(***************************************************************************)
LEMMA PlanStays ==
  ASSUME PlanInv, Shows, NEW p \in Procs,
         step'[p] = step[p], target'[p] = target[p], at'[p] = at[p],
         report'[p] = report[p],
         step[p] = "idle" \/ chanState' = chanState
  PROVE  PlanAt(p)'
<1>1. CASE step[p] = "idle"
  BY <1>1 DEF PlanInv, PlanAt, Reads, Takes, Closes
<1>2. CASE step[p] # "idle"
  <2>1. shown'[p] = shown[p]
    BY <1>2, ShownAcross
  <2> QED
    BY <1>2, <2>1 DEF PlanInv, PlanAt, PlanOf, CoverOf, RecordedOf
<1> QED
  BY <1>1, <1>2

LEMMA PlanOfRun ==
  ASSUME Inv, AloneInv, PlanInv, RunStep, Shows
  PROVE  PlanInv'
<1> USE DEF Inv, TypeOK, RecTypeOK
<1> SUFFICES ASSUME NEW p \in Procs PROVE PlanAt(p)'
  BY DEF PlanInv
<1>1. CASE TearDown
  <2>1. CASE p = Runner /\ step'[p] = "load"
    <3>1. step[p] = "idle" /\ chanState' = chanState /\ report' = report
      BY <1>1, <2>1 DEF TearDown, AloneInv, Stopping, jvars
    <3>2. shown'[p] = chanState
      BY <2>1, <3>1, ShownAcross
    <3> QED
      BY <2>1, <3>1, <3>2 DEF PlanInv, PlanAt, Reads, Takes, Closes
  <2>2. CASE step'[p] = step[p]
    BY <1>1, <2>2, PlanStays DEF TearDown, jvars
  <2> QED
    BY <1>1, <2>1, <2>2 DEF TearDown, Goto
<1>2. CASE RunnerDies
  <2>1. CASE p = Runner
    BY <1>2, <2>1 DEF RunnerDies, Return, Goto, PlanAt, Reads, Takes, Closes
  <2>2. CASE p # Runner
    BY <1>2, <2>2, PlanStays DEF RunnerDies, Return, Goto, jvars
  <2> QED
    BY <2>1, <2>2
<1>3. CASE ~TearDown /\ ~RunnerDies
  <2>1. UNCHANGED recVars /\ (pc \notin Stopping \/ TornDown)
    BY <1>3 DEF RunStep, OpenStream, OpenInterrupted, CancelUnreadableFails,
       OpenGivesUp, OpenRefused, BeginRun, BeginFails, BuildUnsigned, PinTxID,
       JournalVerify, CallVerify, VerifyAnswered, TakeReceipt, GateOpens,
       StartSigning, AskWallet, WalletReturns, AcceptSigned, FinalizeTx,
       EnterPublishing, CallPublish, PublishAnswered, FinishPublish, PublishFails,
       WindowFails, StopBeforePublish, TornDown, PublishSteps, Window, Stopping
  <2>2. step[p] = "idle" \/ chanState' = chanState
    BY <2>1 DEF AloneInv, TornDown, jvars
  <2> QED
    BY <2>1, <2>2, PlanStays DEF recVars
<1> QED
  BY <1>1, <1>2, <1>3

(***************************************************************************)
(* The fields a step of the abort writes.                                  *)
(***************************************************************************)
LEMMA FieldsOf ==
  ASSUME RecTypeOK, NEW p \in Procs, NEW c \in Channels
  PROVE  /\ ChannelDone(p, c) => /\ target'[p].channels = target[p].channels \ {c}
                                 /\ target'[p].shims = target[p].shims
                                 /\ step'[p] = "work"
         /\ Abandoned(p, c) => /\ report'[p].abandoned = report[p].abandoned \cup {c}
                               /\ report'[p].cancelled = report[p].cancelled
                               /\ report'[p].gone = report[p].gone
                               /\ report'[p].failed = report[p].failed
         /\ Failed(p) => /\ report'[p].abandoned = report[p].abandoned
                         /\ report'[p].cancelled = report[p].cancelled
                         /\ report'[p].gone = report[p].gone
                         /\ report'[p].failed
<1>1. report[p] \in Reports /\ target[p] \in Targets
  BY DEF RecTypeOK
<1> QED
  BY <1>1 DEF RecTypeOK, ChannelDone, Goto, Abandoned, Failed, Reports, Targets

LEMMA PlanReturns ==
  ASSUME RecTypeOK, NEW p \in Procs, Return(p)
  PROVE  PlanAt(p)'
BY DEF RecTypeOK, Return, Goto, PlanAt, Reads, Takes, Closes

(***************************************************************************)
(* What an abort does to one channel, it does inside the plan.             *)
(***************************************************************************)
LEMMA PlanOfChannel ==
  ASSUME RecTypeOK, NEW p \in Procs, PlanAt(p), NEW c \in Channels,
         \/ AbandonSafely(p, c) \/ AbandonFails(p, c)
         \/ c = at[p] /\ (LookupNotPending(p) \/ AbandonBluntly(p)),
         shown'[p] = shown[p]
  PROVE  PlanAt(p)'
<1> USE DEF Reads, Takes, Closes
<1>1. /\ c \in target[p].channels
      /\ ChannelDone(p, c)
      /\ Abandoned(p, c) \/ Failed(p)
      /\ step[p] \in {"work", "lookup", "confirm", "blunt"}
  BY DEF PlanAt, AbandonSafely, AbandonFails, LookupNotPending, AbandonBluntly
<1>2. chanState' = chanState
  BY <1>1 DEF ChannelDone, jvars
<1>3. \A d \in Channels : PlanOf(p, d)'
  BY <1>1, FieldsOf DEF PlanAt, PlanOf
<1>4. ~report'[p].failed => \A d \in Channels : CoverOf(p, d)'
  BY <1>1, FieldsOf DEF PlanAt, CoverOf
<1> QED
  BY <1>1, <1>2, <1>3, <1>4, FieldsOf DEF PlanAt

LEMMA PlanOfShim ==
  ASSUME RecTypeOK, NEW p \in Procs, PlanAt(p), NEW c \in Channels,
         CancelShim(p, c) \/ CancelFails(p, c), shown'[p] = shown[p]
  PROVE  PlanAt(p)'
<1> USE DEF Reads, Takes, Closes
<1>1. report[p] \in Reports /\ target[p] \in Targets
  BY DEF RecTypeOK
<1>2. /\ step[p] = "work" /\ c \in target[p].shims
      /\ step'[p] = "work" /\ chanState' = chanState
      /\ target'[p].channels = target[p].channels
      /\ target'[p].shims = target[p].shims \ {c}
  BY <1>1, FieldsOf DEF CancelShim, CancelFails, RecTypeOK, Targets, jvars
<1>3. \/ /\ report'[p].abandoned = report[p].abandoned
         /\ report'[p].failed = report[p].failed
         /\ \/ /\ report'[p].cancelled = report[p].cancelled \cup {c}
               /\ report'[p].gone = report[p].gone
            \/ /\ report'[p].cancelled = report[p].cancelled
               /\ report'[p].gone = report[p].gone \cup {c}
      \/ /\ report'[p].abandoned = report[p].abandoned
         /\ report'[p].cancelled = report[p].cancelled
         /\ report'[p].gone = report[p].gone
         /\ report'[p].failed
  <2>1. CASE CancelShim(p, c)
    BY <1>1, <2>1 DEF CancelShim, RecTypeOK, Reports
  <2>2. CASE CancelFails(p, c)
    BY <2>2, FieldsOf DEF CancelFails
  <2> QED
    BY <2>1, <2>2
<1>4. \A d \in Channels : PlanOf(p, d)'
  BY <1>2, <1>3 DEF PlanAt, PlanOf
<1>5. ~report'[p].failed => \A d \in Channels : CoverOf(p, d)'
  BY <1>2, <1>3 DEF PlanAt, CoverOf
<1> QED
  BY <1>2, <1>4, <1>5 DEF PlanAt

(***************************************************************************)
(* Recording: with nothing failed, all of the plan has been dealt with,    *)
(* and the one thing that leaves a row in the way is an absence that       *)
(* proves nothing, that of a verified channel's shim.                      *)
(***************************************************************************)
LEMMA PlanOfRecord ==
  ASSUME JTypeOK, RecTypeOK, RowsAreUsable, NEW p \in Procs, PlanAt(p),
         RecordOutcome(p), shown'[p] = shown[p] \/ step'[p] = "idle"
  PROVE  PlanAt(p)'
<1>1. CASE report[p].failed
  BY <1>1, PlanReturns DEF RecordOutcome
<1>2. CASE ~report[p].failed
  <2>1. /\ step'[p] = "left" /\ report'[p] = report[p] /\ step[p] = "record"
        /\ target[p] = EmptyTarget /\ shown[p] = chanState
    BY <1>2 DEF RecordOutcome, Goto, RecTypeOK, PlanAt, Takes
  <2>2. ASSUME NEW c \in Channels PROVE RecordedOf(p, c)'
    <3>1. PlanOf(p, c) /\ CoverOf(p, c)
      BY <1>2, <2>1 DEF PlanAt, Takes
    <3>2. chanState'[c] =
            IF c \in report[p].abandoned /\ fundingTx[c] # NoTx THEN "abandoned"
            ELSE IF c \in report[p].cancelled THEN "cancelled"
            ELSE IF c \in report[p].gone /\ chanState[c] = "shim_registered"
            THEN "shim_gone" ELSE chanState[c]
      BY <3>1 DEF RecordOutcome, RecordAbort, PlanOf
    <3>3. chanState[c] = "pending" => fundingTx[c] # NoTx
      BY DEF RowsAreUsable
    <3>4. shown'[p] = shown[p]
      BY <2>1
    <3> QED
      BY <2>1, <3>1, <3>2, <3>3, <3>4
      DEF PlanOf, CoverOf, RecordedOf, InTheWay, EmptyTarget
  <2> QED
    BY <2>1, <2>2 DEF PlanAt, Reads, Takes, Closes
<1> QED
  BY <1>1, <1>2

LEMMA PlanOfRecovery ==
  ASSUME ~Overlap, Inv, AloneInv, RowsAreUsable, PlanInv, NEW p \in Procs,
         RecoveryStep(p), Shows
  PROVE  PlanInv'
<1> USE DEF Reads, Takes, Closes
<1>1. JTypeOK /\ RecTypeOK /\ PlanAt(p)
  BY DEF Inv, TypeOK, PlanInv
<1>2. ASSUME NEW q \in Procs, q # p PROVE PlanAt(q)'
  BY <1>1, <1>2, OthersStandStill, RecoveryIsAlone, PlanStays
<1> SUFFICES PlanAt(p)'
  BY <1>2 DEF PlanInv
<1>3. /\ step[p] = "idle" /\ step'[p] = "load" => shown'[p] = chanState
      /\ step[p] # "idle" /\ step'[p] # "idle" => shown'[p] = shown[p]
  BY ShownAcross
<1>4. CASE \/ RefuseTarget(p) \/ CloseRun(p) \/ JournalFails(p) \/ RecoverDies(p)
           \/ LeftStanding(p) /\ Return(p)
  BY <1>1, <1>4, PlanReturns DEF RefuseTarget, CloseRun, JournalFails, RecoverDies
<1>5. CASE RecoverCommand(p)
  BY <1>1, <1>3, <1>5 DEF RecoverCommand, Goto, RecTypeOK, PlanAt, jvars
<1>6. CASE LoadRun(p)
  BY <1>1, <1>3, <1>6 DEF LoadRun, Goto, RecTypeOK, PlanAt, jvars
<1>7. CASE LoadRows(p)
  <2>1. /\ step[p] = "rows" /\ step'[p] \in {"work", "mark"}
        /\ UNCHANGED <<chanState, report, at>>
        /\ target'[p].channels = TargetChannels(chanState)
        /\ target'[p].shims = TargetShims(chanState)
    BY <1>1, <1>7 DEF LoadRows, Goto, RecTypeOK, jvars
  <2>2. report[p] = EmptyReport /\ shown'[p] = chanState
    BY <1>1, <1>3, <2>1 DEF PlanAt
  <2>3. \A c \in Channels : PlanOf(p, c)' /\ CoverOf(p, c)'
    BY <2>1, <2>2
    DEF PlanOf, CoverOf, TargetChannels, TargetShims, EmptyReport
  <2> QED
    BY <2>1, <2>2, <2>3 DEF PlanAt
<1>8. CASE MarkAborting(p)
  <2>1. /\ step[p] = "mark" /\ step'[p] = "work" /\ shown'[p] = shown[p]
        /\ UNCHANGED <<chanState, target, at, report>>
    BY <1>1, <1>3, <1>8 DEF MarkAborting, SetAborting, Goto, RecTypeOK
  <2> QED
    BY <1>1, <2>1 DEF PlanAt, PlanOf, CoverOf
<1>9. ASSUME NEW c \in Channels, AbandonSafely(p, c) \/ AbandonFails(p, c)
      PROVE  PlanAt(p)'
  BY <1>1, <1>3, <1>9, PlanOfChannel, FieldsOf DEF AbandonSafely, AbandonFails
<1>10. CASE LookupNotPending(p) \/ AbandonBluntly(p)
  <2>1. at[p] \in Channels /\ step[p] # "idle" /\ ChannelDone(p, at[p])
    BY <1>1, <1>10 DEF LookupNotPending, AbandonBluntly, RecTypeOK
  <2> QED
    BY <1>1, <1>3, <1>10, <2>1, PlanOfChannel, FieldsOf
<1>11. ASSUME NEW c \in Channels, CancelShim(p, c) \/ CancelFails(p, c)
       PROVE  PlanAt(p)'
  <2>1. step[p] = "work" /\ step'[p] = "work"
    BY <1>11 DEF CancelShim, CancelFails
  <2> QED
    BY <1>1, <1>3, <1>11, <2>1, PlanOfShim
<1>12. CASE \/ LookupPending(p) \/ OperatorConfirms(p) \/ AbortDone(p)
            \/ \E c \in Channels : SafeFlagDeclined(p, c)
  <2>1. /\ step[p] \in Takes /\ step'[p] \in Takes
        /\ UNCHANGED <<chanState, target, report>>
        /\ step'[p] \in {"lookup", "confirm", "blunt"} => at'[p] \in target[p].channels
        /\ step'[p] = "record" => target[p] = EmptyTarget
    BY <1>1, <1>12 DEF LookupPending, OperatorConfirms, AbortDone, SafeFlagDeclined,
       Goto, RecTypeOK, PlanAt, jvars
  <2>2. shown'[p] = shown[p]
    BY <1>3, <2>1
  <2> QED
    BY <1>1, <2>1, <2>2 DEF PlanAt, PlanOf, CoverOf
<1>13. CASE RecordOutcome(p)
  <2>1. shown'[p] = shown[p] \/ step'[p] = "idle"
    BY <1>3, <1>13 DEF RecordOutcome
  <2> QED
    BY <1>1, <1>13, <2>1, PlanOfRecord
<1>14. CASE ReloadRun(p) \/ (LeftStanding(p) /\ ~Return(p))
  <2>1. /\ step[p] \in Closes /\ step'[p] \in Closes
        /\ UNCHANGED <<chanState, report>>
    BY <1>1, <1>14 DEF ReloadRun, LeftStanding, Goto, RecTypeOK, jvars
  <2>2. shown'[p] = shown[p]
    BY <1>3, <2>1
  <2> QED
    BY <1>1, <2>1, <2>2 DEF PlanAt, RecordedOf
<1>15. CASE AbortStep(p)
  BY <1>9, <1>10, <1>11, <1>12, <1>15 DEF AbortStep
<1> QED
  BY <1>4, <1>5, <1>6, <1>7, <1>8, <1>13, <1>14, <1>15 DEF RecoveryStep, RecoverStep

LEMMA PlanInductive ==
  ASSUME ~Overlap
  PROVE  SSpec => [](ShownTypeOK /\ PlanInv)
<1>1. SInit => ShownTypeOK /\ PlanInv
  BY DEF SInit, Init, RecInit, NoRows, ShownTypeOK, ChannelStates, PlanInv, PlanAt,
     Reads, Takes, Closes
<1>2. Inv /\ AloneInv /\ RowsAreUsable /\ ShownTypeOK /\ PlanInv /\ [SNext]_svars
        => ShownTypeOK' /\ PlanInv'
  <2> SUFFICES ASSUME Inv, AloneInv, RowsAreUsable, ShownTypeOK, PlanInv,
                      [SNext]_svars
               PROVE  PlanInv'
    BY ShownTyping DEF Inv, TypeOK
  <2>1. CASE UNCHANGED svars
    BY <2>1 DEF svars, vars, jvars, recVars, PlanInv, PlanAt, PlanOf, CoverOf,
       RecordedOf
  <2>2. CASE SNext
    <3>1. CASE LndStep \/ Over
      BY <2>2, <3>1, PlanStays DEF SNext, PlanInv, LndStep, Over, vars, jvars, recVars
    <3> QED
      BY <2>2, <3>1, PlanOfRun, PlanOfRecovery DEF SNext, Next
  <2> QED
    BY <2>1, <2>2
<1>3. Spec => []RowsAreUsable
  BY WindowUsesTheJournal, JournalUsable, PTL
<1> QED
  BY <1>1, <1>2, <1>3, ScreensOnlyRead, InvInductive, StandInductive, PTL DEF SSpec

----------------------------------------------------------------------------
(* What is left *)

(***************************************************************************)
(* A channel of the run that LND still has, or may still make, is on one   *)
(* side of the split; and none is left over rows that are settled.         *)
(***************************************************************************)
LEMMA LeftIsSplit ==
  ASSUME Inv, RowsInv, AbortInv
  PROVE  /\ Left \subseteq Split(chanState).pending \cup Split(chanState).shims
         /\ Settled => Left = {}
<1> SUFFICES ASSUME NEW c \in Left
             PROVE  InTheWay(chanState[c])
  <2>1. Left \subseteq Channels
    BY DEF Left, Rows
  <2> QED
    BY <2>1 DEF InTheWay, Split, Settled
<1>1. c \in Channels /\ chanState[c] # "absent" /\ (Standing(c) \/ shim[c] # "none")
  BY DEF Left, Rows
<1>2. chanState[c] \in ChannelStates
  BY <1>1 DEF Inv, TypeOK, JTypeOK
<1>3. chanState[c] \notin {"shim_gone", "cancelled"}
  BY <1>1 DEF RowsInv, RowOf, Empty, Standing
<1>4. chanState[c] # "abandoned"
  BY <1>1 DEF AbortInv, RowsInv, ChannelOf, Standing
<1> QED
  BY <1>1, <1>2, <1>3, <1>4 DEF ChannelStates, InTheWay

LEMMA LeftClaims ==
  /\ True("nothing left") <=> Left = {}
  /\ True("the rows are what is left") <=>
       Left \subseteq Split(chanState).pending \cup Split(chanState).shims
BY DEF True

----------------------------------------------------------------------------
(* The theorems *)

(***************************************************************************)
(* What a run's screen says beside how far the run got is so, at any step  *)
(* of a run, of a teardown or after a crash.                               *)
(***************************************************************************)
THEOREM ScreensAreTrue ==
  ASSUME ~Overlap
  PROVE  SSpec => []ScreenIsTrue
<1>1. Inv /\ RowsInv /\ StandInv /\ AbortInv /\ RowsAreUsable /\ StateInv /\ AskedInv
        /\ SignedRowIsTrue
        => ScreenIsTrue
  <2> SUFFICES ASSUME Inv, RowsInv, StandInv, AbortInv, RowsAreUsable, StateInv,
                      AskedInv, SignedRowIsTrue,
                      NEW claim \in RecoveryScreen(runState, chanState, signer),
                      claim \notin SaysHowFar
               PROVE  True(claim)
    BY DEF ScreenIsTrue
  <2>1. CASE claim \in StateMeans(runState)
    <3>1. CASE runState = "armed" \/ runState = "signing"
      BY <2>1, <3>1 DEF StateMeans, SaysHowFar, True, StateInv, StandInv,
         NothingBroadcast, MayBePublished
    <3>2. CASE runState = "aborted"
      <4>1. claim = "nothing left"
        BY <2>1, <3>2 DEF StateMeans, MayBePublished
      <4> QED
        BY <3>2, <4>1, LeftIsSplit, LeftClaims DEF AbortInv
    <3>3. CASE runState = "aborting"
      <4>1. claim = "the rows are what is left"
        BY <2>1, <3>3 DEF StateMeans, MayBePublished
      <4> QED
        BY <4>1, LeftIsSplit, LeftClaims
    <3>4. CASE MayBePublished(runState)
      BY <2>1, <3>4 DEF StateMeans, True, MayBePublished, StandInv, AskedInv,
         RowsAreUsable
    <3> QED
      BY <2>1, <3>1, <3>2, <3>3, <3>4 DEF StateMeans, SaysHowFar
  <2>2. CASE claim \in NothingToDo(chanState)
    <3>1. claim = "nothing left" /\ Split(chanState) = [pending |-> {}, shims |-> {}]
      BY <2>2 DEF NothingToDo
    <3>2. Split(chanState).pending = {} /\ Split(chanState).shims = {}
      BY <3>1 DEF Split
    <3>3. Left = {}
      BY <3>2, LeftIsSplit
    <3> QED
      BY <3>1, <3>3, LeftClaims
  <2>3. CASE claim \in SignerNote(signer)
    BY <2>3 DEF SignerNote, True, AskedInv, SignedRowIsTrue
  <2>4. CASE claim \in RecoveryPlan(chanState) /\ ~MayBePublished(runState)
    <3>1. claim \in {"these reached chan_pending", "nothing broadcast"}
      BY <2>4 DEF RecoveryPlan, SaysHowFar
    <3>2. Split(chanState).pending = {c \in Channels : chanState[c] = "pending"}
      BY DEF Split
    <3> QED
      BY <2>4, <3>1, <3>2 DEF True, AbortInv, Existed, StandInv, NothingBroadcast
  <2> QED
    BY <2>1, <2>2, <2>3, <2>4 DEF RecoveryScreen
<1>2. Spec => []RowsAreUsable
  BY WindowUsesTheJournal, JournalUsable, PTL
<1> QED
  BY <1>1, <1>2, ScreensOnlyRead, InvInductive, RowsInductive, StandInductive,
     AbortInductive, StateInductive, SignedIsTrue, PTL

(***************************************************************************)
(* The plan on the screen is the abort that is then made.                  *)
(***************************************************************************)
THEOREM PlanIsCarriedOut ==
  ASSUME ~Overlap
  PROVE  SSpec => []PlanIsTheAbort
<1>1. Inv /\ PlanInv => PlanIsTheAbort
  <2> SUFFICES ASSUME Inv, PlanInv, NEW p \in Procs, step[p] \in {"work", "mark"}
               PROVE  /\ target[p].channels \subseteq Split(shown[p]).pending
                      /\ target[p].shims \subseteq Split(shown[p]).shims
    BY DEF PlanIsTheAbort
  <2>1. target[p] \in Targets
    BY DEF Inv, TypeOK, RecTypeOK
  <2> QED
    BY <2>1 DEF PlanInv, PlanAt, PlanOf, Takes, Split, Targets
<1> QED
  BY <1>1, PlanInductive, ScreensOnlyRead, InvInductive, PTL

(***************************************************************************)
(* A run the startup list leaves out is out, or there is nothing of it.    *)
(***************************************************************************)
THEOREM UnlistedRunsAreOver ==
  ASSUME ~Overlap
  PROVE  SSpec => []UnlistedIsOver
<1>1. Inv /\ RowsInv /\ AbortInv /\ AskedInv => UnlistedIsOver
  BY LeftIsSplit DEF UnlistedIsOver, Unfinished, RunExists, AskedInv, AbortInv
<1> QED
  BY <1>1, ScreensOnlyRead, InvInductive, RowsInductive, AbortInductive,
     StateInductive, PTL

(***************************************************************************)
(* The screen after a clean abort: nothing is left exactly when it says    *)
(* so, and nothing was broadcast.                                          *)
(***************************************************************************)
THEOREM OutcomesAreTrue ==
  ASSUME ~Overlap
  PROVE  SSpec => OutcomeIsTrue
<1>1. Inv /\ RowsInv /\ StandInv /\ AbortInv /\ StateInv /\ PlanInv /\ [SNext]_svars
        => \A p \in Procs :
             EndsClean(p) =>
               /\ NothingBroadcast
               /\ IF "nothing left" \in RecoveryOutcome(p)
                  THEN Left = {} /\ runState' = "aborted"
                  ELSE runState' = "aborting"
  <2> SUFFICES ASSUME Inv, RowsInv, StandInv, AbortInv, StateInv, PlanInv,
                      [SNext]_svars, NEW p \in Procs, EndsClean(p)
               PROVE  /\ NothingBroadcast
                      /\ IF "nothing left" \in RecoveryOutcome(p)
                         THEN Left = {} /\ runState' = "aborted"
                         ELSE runState' = "aborting"
    OBVIOUS
  <2>1. /\ runState = "aborting"
        /\ \A c \in Channels : RecordedOf(p, c)
        /\ report[p] \in Reports
    BY DEF EndsClean, StateInv, PlanInv, PlanAt, Closes, Inv, TypeOK, RecTypeOK
  <2>2. NothingBroadcast
    BY <2>1 DEF StandInv, NothingBroadcast, MayBePublished
  <2>3. /\ "nothing left" \in RecoveryOutcome(p) <=>
             \A c \in report[p].gone : shown[p][c] = "shim_registered"
    BY DEF RecoveryOutcome, AlreadyGone
  <2>4. \/ CloseRun(p)
        \/ runState' = runState /\ \E c \in Channels : InTheWay(chanState[c])
    <3>1. /\ step[p] \in {"leftrows", "close"} /\ step'[p] = "idle"
          /\ faults' = faults /\ faults \in Nat
          /\ step[p] = "leftrows" => ~MayBePublished(seen[p])
      BY DEF EndsClean, Inv, TypeOK, RecTypeOK
    <3>2. ~Faulty
      BY <3>1 DEF Faulty
    <3>3. ~RunStep
      BY <3>1, <3>2 DEF RunStep, RunnerDies, TearDown, TornDown, OpenStream,
         OpenInterrupted, CancelUnreadableFails, OpenGivesUp, OpenRefused, BeginRun,
         BeginFails, BuildUnsigned, PinTxID, JournalVerify, CallVerify,
         VerifyAnswered, TakeReceipt, GateOpens, StartSigning, AskWallet,
         WalletReturns, AcceptSigned, FinalizeTx, EnterPublishing, CallPublish,
         PublishAnswered, FinishPublish, PublishFails, WindowFails,
         StopBeforePublish, recVars, Goto, Inv, TypeOK, RecTypeOK
    <3>4. RecoveryStep(p)
      BY <3>1, <3>2, <3>3, OthersStandStill DEF SNext, Next, LndStep, Over, svars, vars,
         recVars, Inv, TypeOK
    <3>5. CloseRun(p) \/ LeftStanding(p)
      BY <3>1, <3>2, <3>4 DEF RecoveryStep, RecoverStep, AbortStep, RecoverCommand,
         RecoverDies, LoadRun, RefuseTarget, LoadRows, MarkAborting, AbandonSafely,
         SafeFlagDeclined, AbandonFails, CancelShim, CancelFails, LookupPending,
         LookupNotPending, OperatorConfirms, AbandonBluntly, AbortDone, RecordOutcome,
         ReloadRun, JournalFails, Faulty
    <3>6. ASSUME LeftStanding(p)
          PROVE  runState' = runState /\ \E c \in Channels : InTheWay(chanState[c])
      BY <3>1, <3>6 DEF LeftStanding, Goto, TargetChannels, TargetShims, InTheWay,
         jvars, Inv, TypeOK, RecTypeOK
    <3> QED
      BY <3>5, <3>6
  <2>5. CASE CloseRun(p)
    BY <2>1, <2>2, <2>3, <2>5, LeftIsSplit
    DEF CloseRun, SetAborted, AbortInv, AbortOf, Settled, RecordedOf, Reports
  <2>6. CASE runState' = runState /\ \E c \in Channels : InTheWay(chanState[c])
    BY <2>1, <2>2, <2>3, <2>6 DEF RecordedOf
  <2> QED
    BY <2>4, <2>5, <2>6
<1> QED
  BY <1>1, PlanInductive, ScreensOnlyRead, InvInductive, RowsInductive,
     StandInductive, AbortInductive, StateInductive, PTL DEF SSpec, OutcomeIsTrue
============================================================================
