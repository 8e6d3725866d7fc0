------------------------- MODULE ArmedWindowProofs -------------------------
(***************************************************************************)
(* What holds of a run for any batch, any number of recover commands, any  *)
(* number of faults, and whether or not they overlap with the run.         *)
(***************************************************************************)
EXTENDS ArmedWindow, JournalProofs

(***************************************************************************)
(* The inductive part of PublicIsPinned.  Nothing is handed to LND before  *)
(* the pin is on disk, and the pin is the run's one transaction; every     *)
(* psbt_verify that was answered committed LND to it; the file is checked  *)
(* against it, and the bytes on disk are that file's.                      *)
(***************************************************************************)
Early == {"open", "begin", "build", "pin"}

Verifying == {"verify", "verify_rpc", "verify_wait"}

Verified == {"receipts", "gate", "signing", "ask", "sign", "accept"}
              \cup PublishSteps

Pinned == txid = built /\ built \in TxIds

NothingShown ==
  /\ asked = {}
  /\ \A c \in Channels : committed[c] = NoTx
  /\ wire = NoTx /\ mempool = NoTx
  /\ txid = NoTx /\ rawTx = NoTx

PinInv ==
  /\ pc \in Early => NothingShown
  /\ pc = "pin" => built \in TxIds
  /\ pc \in Verifying \cup Verified => Pinned
  /\ asked # {} => Pinned
  /\ \A c \in Channels : committed[c] # NoTx => Pinned /\ committed[c] = built
  /\ pc \in Verifying =>
       \A c \in Channels : committed[c] = built \/ c \in todo
  /\ pc \in {"verify_rpc", "verify_wait"} => cur \in Channels
  /\ pc \in Verified => \A c \in Channels : committed[c] = built
  /\ pc \in PublishSteps => file.tx = built
  /\ pc \in PublishSteps \ {"ready"} => rawTx = built
  /\ PublicIsPinned

Inv == TypeOK /\ PinInv

(* What PinInv is about, and what typing a step of Recover may change. *)
pinVars == <<txid, rawTx, asked, committed, wire, mempool, runVars>>

----------------------------------------------------------------------------
(* Recovery *)

(***************************************************************************)
(* Taking a run apart never touches what the run is pinned to.             *)
(***************************************************************************)
LEMMA RecoveryKeepsPins ==
  ASSUME NEW p \in Procs, RecoveryStep(p)
  PROVE  UNCHANGED pinVars
<1> USE DEF pinVars, jvars, lndVars, runVars
<1>1. ASSUME RecoverStep(p), UNCHANGED runVars PROVE UNCHANGED pinVars
  <2>1. CASE LoadRun(p) \/ RefuseTarget(p) \/ LoadRows(p) \/ MarkAborting(p)
    BY <1>1, <2>1 DEF LoadRun, RefuseTarget, LoadRows, MarkAborting, SetAborting
  <2>2. CASE AbortStep(p)
    <3>1. ASSUME NEW c \in Channels, AbandonSafely(p, c) \/ SafeFlagDeclined(p, c)
          PROVE  UNCHANGED pinVars
      BY <1>1, <3>1 DEF AbandonSafely, SafeFlagDeclined, ChannelDone
    <3>2. ASSUME NEW c \in Channels, AbandonFails(p, c)
          PROVE  UNCHANGED pinVars
      BY <1>1, <3>2 DEF AbandonFails, ChannelDone, RemoveChannel
    <3>3. ASSUME NEW c \in Channels, CancelShim(p, c) \/ CancelFails(p, c)
          PROVE  UNCHANGED pinVars
      BY <1>1, <3>3 DEF CancelShim, CancelFails, DropShim
    <3>4. CASE \/ LookupPending(p) \/ LookupNotPending(p)
               \/ OperatorConfirms(p) \/ AbandonBluntly(p) \/ AbortDone(p)
      BY <1>1, <3>4 DEF LookupPending, LookupNotPending, OperatorConfirms,
         AbandonBluntly, AbortDone, ChannelDone, RemoveChannel
    <3> QED
      BY <2>2, <3>1, <3>2, <3>3, <3>4 DEF AbortStep
  <2>3. CASE \/ RecordOutcome(p) \/ ReloadRun(p) \/ LeftStanding(p)
             \/ CloseRun(p) \/ JournalFails(p)
    BY <1>1, <2>3 DEF RecordOutcome, ReloadRun, LeftStanding, CloseRun,
       JournalFails, RecordAbort, SetAborted
  <2> QED
    BY <1>1, <2>1, <2>2, <2>3 DEF RecoverStep
<1>2. CASE RecoverCommand(p) \/ RecoverDies(p)
  BY <1>2 DEF RecoverCommand, RecoverDies
<1> QED
  BY <1>1, <1>2 DEF RecoveryStep

(***************************************************************************)
(* What Recover writes to the journal is a journal operation.              *)
(***************************************************************************)
LEMMA RecoveryWrites ==
  ASSUME RecTypeOK, NEW p \in Procs, RecoveryStep(p)
  PROVE  [JNext]_jvars
<1>1. ASSUME RecoverStep(p) PROVE [JNext]_jvars
  <2>1. CASE MarkAborting(p) \/ CloseRun(p)
    BY <2>1 DEF MarkAborting, CloseRun, JNext
  <2>2. CASE RecordOutcome(p)
    <3>1. report[p] \in Reports
      BY DEF RecTypeOK
    <3> QED
      BY <2>2, <3>1 DEF RecordOutcome, JNext, Reports
  <2>3. CASE AbortStep(p)
    BY <2>3 DEF AbortStep, AbandonSafely, SafeFlagDeclined, AbandonFails,
       CancelShim, CancelFails, LookupPending, LookupNotPending,
       OperatorConfirms, AbandonBluntly, AbortDone, ChannelDone
  <2>4. CASE \/ LoadRun(p) \/ RefuseTarget(p) \/ LoadRows(p) \/ ReloadRun(p)
             \/ LeftStanding(p) \/ JournalFails(p)
    BY <2>4 DEF LoadRun, RefuseTarget, LoadRows, ReloadRun, LeftStanding,
       JournalFails
  <2> QED
    BY <1>1, <2>1, <2>2, <2>3, <2>4 DEF RecoverStep
<1> QED
  BY <1>1 DEF RecoveryStep, RecoverCommand, RecoverDies

----------------------------------------------------------------------------
(* The composition writes to the journal only through its operations *)

LEMMA WritesAreOperations ==
  ASSUME Inv, [Next]_vars
  PROVE  [JNext]_jvars
<1> USE DEF Inv, TypeOK, JNext
<1>1. CASE RunStep
  <2>1. CASE BeginRun
    BY <2>1 DEF BeginRun, Opened, Answered
  <2>2. CASE PinTxID
    BY <2>2 DEF PinTxID, PinInv
  <2>3. ASSUME NEW c \in Channels, JournalVerify(c) PROVE [JNext]_jvars
    BY <2>3 DEF JournalVerify
  <2>4. ASSUME NEW c \in Channels, TakeReceipt(c) PROVE [JNext]_jvars
    BY <2>4 DEF TakeReceipt, PinInv, Verified, Pinned
  <2>5. CASE StartSigning \/ EnterPublishing \/ FinishPublish
    BY <2>5 DEF StartSigning, EnterPublishing, FinishPublish
  <2>6. CASE AskWallet \/ AcceptSigned
    BY <2>6 DEF AskWallet, AcceptSigned
  <2>7. CASE FinalizeTx
    BY <2>7 DEF FinalizeTx, HashesTo, PinInv, Verified, Pinned, PublishSteps
  <2>8. ASSUME NEW c \in Channels,
               OpenStream(c) \/ OpenInterrupted(c) \/ CancelUnreadableFails(c)
        PROVE  [JNext]_jvars
    BY <2>8 DEF OpenStream, OpenInterrupted, CancelUnreadableFails, OpenGivesUp
  <2>9. CASE UNCHANGED jvars
    BY <2>9
  <2> QED
    BY <1>1, <2>1, <2>2, <2>3, <2>4, <2>5, <2>6, <2>7, <2>8, <2>9
    DEF RunStep, OpenRefused, OpenGivesUp, BeginFails, BuildUnsigned,
        CallVerify, VerifyAnswered, GateOpens, WalletReturns, CallPublish,
        PublishAnswered, PublishFails, WindowFails, StopBeforePublish,
        TearDown, TornDown, RunnerDies
<1>2. ASSUME NEW p \in Procs, RecoveryStep(p) PROVE [JNext]_jvars
  BY <1>2, RecoveryWrites
<1>3. CASE LndStep \/ Over \/ UNCHANGED vars
  BY <1>3 DEF LndStep, Over, vars
<1> QED
  BY <1>1, <1>2, <1>3 DEF Next

----------------------------------------------------------------------------
(* Types *)

(***************************************************************************)
(* Recover's own variables stay well typed under its own steps.            *)
(***************************************************************************)
LEMMA ReturnTyping ==
  ASSUME RecTypeOK, NEW p \in Procs, Return(p), faults' \in 0 .. MaxFaults
  PROVE  RecTypeOK'
BY DEF RecTypeOK, Return, Goto, Steps, RunStates, Targets, EmptyTarget,
   Reports, EmptyReport

LEMMA FaultTyping ==
  ASSUME RecTypeOK, Faulty
  PROVE  faults' \in 0 .. MaxFaults
BY FaultsAssumption DEF RecTypeOK, Faulty

LEMMA ChannelDoneTyping ==
  ASSUME RecTypeOK, NEW p \in Procs, NEW c \in Channels, ChannelDone(p, c),
         report' \in [Procs -> Reports], faults' \in 0 .. MaxFaults
  PROVE  RecTypeOK'
BY DEF RecTypeOK, ChannelDone, Goto, Steps, Targets

LEMMA ReportTyping ==
  ASSUME RecTypeOK, NEW p \in Procs
  PROVE  /\ Failed(p) => report' \in [Procs -> Reports]
         /\ \A c \in Channels : Abandoned(p, c) => report' \in [Procs -> Reports]
<1>1. report \in [Procs -> Reports] /\ report[p] \in Reports
  BY DEF RecTypeOK
<1>2. [report[p] EXCEPT !.failed = TRUE] \in Reports
  BY <1>1 DEF Reports
<1>3. \A c \in Channels :
        [report[p] EXCEPT !.abandoned = @ \cup {c}] \in Reports
  BY <1>1 DEF Reports
<1> QED
  BY <1>1, <1>2, <1>3 DEF Failed, Abandoned

LEMMA RecoverTyping ==
  ASSUME RecTypeOK, runState \in RunStates, NEW p \in Procs, RecoveryStep(p)
  PROVE  RecTypeOK'
<1> DEFINE Still == faults' = faults
<1>0. faults \in 0 .. MaxFaults /\ step[p] \in Steps
  BY DEF RecTypeOK
<1>1. CASE LoadRun(p) \/ ReloadRun(p)
  BY <1>1 DEF LoadRun, ReloadRun, RecTypeOK, Goto, Steps
<1>2. CASE RefuseTarget(p)
  BY <1>0, <1>2, ReturnTyping DEF RefuseTarget
<1>3. CASE LoadRows(p)
  <2>1. [channels |-> TargetChannels(chanState),
         shims |-> TargetShims(chanState)] \in Targets
    BY DEF Targets, TargetChannels, TargetShims
  <2> QED
    BY <1>3, <2>1 DEF LoadRows, RecTypeOK, Goto, Steps
<1>4. CASE MarkAborting(p)
  BY <1>4 DEF MarkAborting, RecTypeOK, Goto, Steps
<1>5. ASSUME NEW c \in Channels, AbandonSafely(p, c) PROVE RecTypeOK'
  BY <1>0, <1>5, ReportTyping, ChannelDoneTyping DEF AbandonSafely
<1>6. ASSUME NEW c \in Channels, SafeFlagDeclined(p, c) PROVE RecTypeOK'
  BY <1>6 DEF SafeFlagDeclined, RecTypeOK, Goto, Steps
<1>7. ASSUME NEW c \in Channels, AbandonFails(p, c) PROVE RecTypeOK'
  BY <1>7, ReportTyping, FaultTyping, ChannelDoneTyping DEF AbandonFails
<1>8. ASSUME NEW c \in Channels, CancelShim(p, c) \/ CancelFails(p, c)
      PROVE  RecTypeOK'
  <2>1. report[p] \in Reports /\ target[p] \in Targets
    BY DEF RecTypeOK
  <2>2. /\ [report[p] EXCEPT !.cancelled = @ \cup {c}] \in Reports
        /\ [report[p] EXCEPT !.gone = @ \cup {c}] \in Reports
        /\ [target[p] EXCEPT !.shims = @ \ {c}] \in Targets
    BY <2>1 DEF Reports, Targets
  <2>3. CASE CancelShim(p, c)
    BY <2>1, <2>2, <2>3 DEF CancelShim, RecTypeOK
  <2>4. CASE CancelFails(p, c)
    BY <2>1, <2>2, <2>4, ReportTyping, FaultTyping DEF CancelFails, RecTypeOK
  <2> QED
    BY <1>8, <2>3, <2>4
<1>9. CASE LookupPending(p) \/ OperatorConfirms(p) \/ AbortDone(p)
  BY <1>9 DEF LookupPending, OperatorConfirms, AbortDone, RecTypeOK, Goto, Steps
<1>10. CASE LookupNotPending(p) \/ AbandonBluntly(p)
  <2>1. at[p] \in Channels
    BY <1>10 DEF LookupNotPending, AbandonBluntly, RecTypeOK
  <2> QED
    BY <1>0, <1>10, <2>1, ReportTyping, ChannelDoneTyping
    DEF LookupNotPending, AbandonBluntly
<1>11. CASE RecordOutcome(p) \/ LeftStanding(p)
  <2>1. ASSUME Goto(p, "left") \/ Goto(p, "close"), UNCHANGED <<seen, target, at, report, faults>>
        PROVE  RecTypeOK'
    BY <2>1 DEF RecTypeOK, Goto, Steps
  <2> QED
    BY <1>0, <1>11, <2>1, ReturnTyping DEF RecordOutcome, LeftStanding
<1>12. CASE CloseRun(p)
  BY <1>0, <1>12, ReturnTyping DEF CloseRun
<1>13. CASE JournalFails(p) \/ RecoverDies(p)
  BY <1>13, FaultTyping, ReturnTyping DEF JournalFails, RecoverDies
<1>14. CASE RecoverCommand(p)
  BY <1>14 DEF RecoverCommand, RecTypeOK, Goto, Steps
<1> QED
  BY <1>1, <1>2, <1>3, <1>4, <1>5, <1>6, <1>7, <1>8, <1>9, <1>10, <1>11,
     <1>12, <1>13, <1>14
  DEF RecoveryStep, RecoverStep, AbortStep

LEMMA RecoverLndTyping ==
  ASSUME LndTypeOK, RecTypeOK, NEW p \in Procs, RecoveryStep(p)
  PROVE  LndTypeOK'
<1> USE DEF LndTypeOK
<1>1. CASE UNCHANGED lndVars
  BY <1>1 DEF lndVars
<1>2. ASSUME NEW c \in Channels, RemoveChannel(c) \/ DropShim(c) PROVE LndTypeOK'
  BY <1>2 DEF RemoveChannel, DropShim, EndedStream
<1>3. ASSUME AbandonBluntly(p) PROVE LndTypeOK'
  BY <1>2, <1>3 DEF AbandonBluntly, RecTypeOK
<1> QED
  BY <1>1, <1>2, <1>3 DEF RecoveryStep, RecoverStep, AbortStep, RecoverCommand,
     RecoverDies, LoadRun, ReloadRun, RefuseTarget, LoadRows, MarkAborting,
     AbandonSafely, SafeFlagDeclined, AbandonFails, CancelShim, CancelFails,
     LookupPending, LookupNotPending, OperatorConfirms, AbortDone,
     RecordOutcome, LeftStanding, CloseRun, JournalFails

LEMMA LndTyping ==
  ASSUME TypeOK, LndStep
  PROVE  LndTypeOK' /\ RecTypeOK'
<1> USE DEF TypeOK, LndTypeOK
<1>1. RecTypeOK'
  BY FaultTyping DEF LndStep, RecTypeOK
<1>2. ASSUME NEW c \in Channels, ActOnVerify(c, built) PROVE LndTypeOK'
  BY <1>2 DEF ActOnVerify
<1>3. ASSUME NEW c \in Channels, FundingSigned(c) PROVE LndTypeOK'
  BY <1>3 DEF FundingSigned
<1>4. ASSUME NEW c \in Channels, PeerFails(c) PROVE LndTypeOK'
  BY <1>4 DEF PeerFails, DropShim, EndedStream
<1>5. ASSUME NEW c \in Channels, StreamBreaks(c) PROVE LndTypeOK'
  BY <1>5 DEF StreamBreaks
<1>6. ASSUME NEW a \in BOOLEAN, ActOnPublish(a) PROVE LndTypeOK'
  BY <1>6 DEF ActOnPublish
<1>7. ASSUME LndRestarts PROVE LndTypeOK'
  <2>1. shim' \in [Channels -> {"none", "registered", "completing"}]
    BY <1>7 DEF LndRestarts
  <2>2. stream' \in [Channels -> {"none", "up", "receipt", "down", "unreadable"}]
    BY <1>7 DEF LndRestarts, EndedStream
  <2> QED
    BY <1>7, <2>1, <2>2 DEF LndRestarts
<1>8. ASSUME Confirm PROVE LndTypeOK'
  <2>1. chan' \in [Channels -> {"none", "pending", "open", "abandoned"}]
    BY <1>8 DEF Confirm
  <2> QED
    BY <1>8, <2>1 DEF Confirm
<1> QED
  BY <1>1, <1>2, <1>3, <1>4, <1>5, <1>6, <1>7, <1>8 DEF LndStep

LEMMA RunLndTyping ==
  ASSUME TypeOK, PinInv, RunStep
  PROVE  LndTypeOK' /\ RecTypeOK'
<1> USE DEF TypeOK
<1>0. faults \in 0 .. MaxFaults
  BY DEF RecTypeOK
<1>1. ASSUME NEW c \in Channels, NEW s \in {"none", "up", "unreadable"},
             RegisterShim(c, s)
      PROVE  LndTypeOK'
  BY <1>1 DEF RegisterShim, LndTypeOK
<1>2. CASE CallVerify
  BY <1>2 DEF CallVerify, SendVerify, LndTypeOK, PinInv, recVars, RecTypeOK
<1>3. CASE CallPublish
  BY <1>3 DEF CallPublish, SendPublish, LndTypeOK, PinInv, PublishSteps,
     Verified, Pinned, recVars, RecTypeOK
<1>4. CASE TearDown
  <2>1. UNCHANGED lndVars
    BY <1>4 DEF TearDown
  <2>2. LndTypeOK'
    BY <2>1 DEF lndVars, LndTypeOK
  <2>3. RecTypeOK'
    BY <1>4, RunnerAssumption DEF TearDown, RecTypeOK, Goto, Steps
  <2> QED
    BY <2>2, <2>3
<1>5. CASE RunnerDies
  <2>1. RecTypeOK'
    BY <1>5, RunnerAssumption, FaultTyping, ReturnTyping DEF RunnerDies
  <2> QED
    BY <1>5, <2>1 DEF RunnerDies, lndVars, LndTypeOK
<1>6. ASSUME UNCHANGED recVars PROVE RecTypeOK'
  BY <1>6 DEF recVars, RecTypeOK
<1>7. ASSUME UNCHANGED lndVars PROVE LndTypeOK'
  BY <1>7 DEF lndVars, LndTypeOK
<1>8. ASSUME NEW c \in Channels,
             OpenStream(c) \/ OpenInterrupted(c) \/ CancelUnreadableFails(c)
      PROVE  LndTypeOK' /\ RecTypeOK'
  BY <1>1, <1>6, <1>8
  DEF OpenStream, OpenInterrupted, CancelUnreadableFails, OpenGivesUp
<1> QED
  BY <1>2, <1>3, <1>4, <1>5, <1>6, <1>7, <1>8
  DEF RunStep, OpenRefused, OpenGivesUp, BeginRun, BeginFails, BuildUnsigned,
      PinTxID, JournalVerify, VerifyAnswered, TakeReceipt, GateOpens,
      StartSigning, AskWallet, WalletReturns, AcceptSigned, FinalizeTx,
      EnterPublishing, PublishAnswered, FinishPublish, PublishFails,
      WindowFails, StopBeforePublish, TornDown

(* The run's own variables. *)
RunTypeOK ==
  /\ pc \in {"open", "begin", "teardown", "tearing", "done", "dead"}
            \cup Window \cup PublishSteps
  /\ openFailed \in BOOLEAN
  /\ todo \in SUBSET Channels
  /\ cur \in Channels \cup {NoChannel}
  /\ built \in TxIds \cup {NoTx}
  /\ file \in Files \cup {NoFile}
  /\ told \in SUBSET Channels

LEMMA RunTyping ==
  ASSUME RunTypeOK, RunStep
  PROVE  RunTypeOK'
<1> USE DEF RunTypeOK, Window, PublishSteps
<1>1. ASSUME NEW c \in Channels,
             OpenStream(c) \/ OpenInterrupted(c) \/ CancelUnreadableFails(c)
      PROVE  RunTypeOK'
  BY <1>1 DEF OpenStream, OpenInterrupted, CancelUnreadableFails, OpenGivesUp
<1>2. ASSUME NEW c \in Channels, JournalVerify(c) \/ TakeReceipt(c)
      PROVE  RunTypeOK'
  BY <1>2 DEF JournalVerify, TakeReceipt
<1>3. CASE OpenRefused \/ BeginRun \/ BeginFails
  BY <1>3 DEF OpenRefused, OpenGivesUp, BeginRun, BeginFails, Opened, Answered
<1>4. ASSUME NEW t \in TxIds, BuildUnsigned(t) PROVE RunTypeOK'
  BY <1>4 DEF BuildUnsigned
<1>5. CASE PinTxID \/ CallVerify \/ VerifyAnswered \/ GateOpens
  BY <1>5 DEF PinTxID, CallVerify, VerifyAnswered, GateOpens
<1>6. ASSUME NEW f \in Files, WalletReturns(f) PROVE RunTypeOK'
  BY <1>6 DEF WalletReturns
<1>7. CASE StartSigning \/ AskWallet \/ AcceptSigned
  BY <1>7 DEF StartSigning, AskWallet, AcceptSigned
<1>8. CASE FinalizeTx \/ EnterPublishing \/ CallPublish \/ PublishAnswered
  BY <1>8 DEF FinalizeTx, EnterPublishing, CallPublish, PublishAnswered
<1>9. CASE FinishPublish \/ PublishFails \/ WindowFails \/ StopBeforePublish
  BY <1>9 DEF FinishPublish, PublishFails, WindowFails, StopBeforePublish
<1>10. CASE TearDown \/ TornDown \/ RunnerDies
  BY <1>10 DEF TearDown, TornDown, RunnerDies
<1> QED
  BY <1>1, <1>2, <1>3, <1>4, <1>5, <1>6, <1>7, <1>8, <1>9, <1>10 DEF RunStep

(***************************************************************************)
(* Every step keeps the types.  It needs PinInv, for the transactions that *)
(* a step takes out of the run's variables.                                *)
(***************************************************************************)
LEMMA Typing == ASSUME Inv, [Next]_vars PROVE TypeOK'
<1>1. JTypeOK'
  <2>1. ASSUME JTypeOK, [JNext]_jvars PROVE JTypeOK'
    BY <2>1, JTyping
  <2> QED
    BY <2>1, WritesAreOperations DEF Inv, TypeOK
<1>2. TypeOK <=> JTypeOK /\ LndTypeOK /\ RecTypeOK /\ RunTypeOK
  BY DEF TypeOK, RunTypeOK
<1>3. TypeOK' <=> JTypeOK' /\ LndTypeOK' /\ RecTypeOK' /\ RunTypeOK'
  BY DEF TypeOK, RunTypeOK
<1>4. CASE RunStep
  BY <1>1, <1>2, <1>3, <1>4, RunLndTyping, RunTyping DEF Inv
<1>5. ASSUME NEW p \in Procs, RecoveryStep(p) PROVE TypeOK'
  <2>1. RunTypeOK'
    BY <1>2, <1>5, RecoveryKeepsPins DEF pinVars, runVars, RunTypeOK, Inv
  <2> QED
    BY <1>1, <1>2, <1>3, <1>5, <2>1, RecoverTyping, RecoverLndTyping
    DEF Inv, JTypeOK
<1>6. CASE LndStep
  BY <1>1, <1>2, <1>3, <1>6, LndTyping DEF Inv, LndStep, runVars, RunTypeOK
<1>7. CASE UNCHANGED vars
  BY <1>7 DEF Inv, vars, jvars, lndVars, recVars, runVars, TypeOK, JTypeOK,
     LndTypeOK, RecTypeOK
<1> QED
  BY <1>4, <1>5, <1>6, <1>7 DEF Next, Over

----------------------------------------------------------------------------
(* The pin *)

(***************************************************************************)
(* A step of the run, one action at a time.                                *)
(***************************************************************************)
LEMMA RunKeepsPin == ASSUME Inv, RunStep PROVE PinInv'
<1> USE NoTxAssumption
    DEF Inv, TypeOK, JTypeOK, LndTypeOK, PinInv, PublicIsPinned, NothingShown,
        Pinned, Early, Verifying, Verified, Window, PublishSteps
<1>1. ASSUME NEW c \in Channels,
             OpenStream(c) \/ OpenInterrupted(c) \/ CancelUnreadableFails(c)
      PROVE  PinInv'
  BY <1>1 DEF OpenStream, OpenInterrupted, CancelUnreadableFails, OpenGivesUp,
     RegisterShim, jvars, recVars
<1>2. CASE OpenRefused \/ BeginRun \/ BeginFails
  BY <1>2 DEF OpenRefused, OpenGivesUp, BeginRun, BeginFails, Begin, jvars,
     lndVars
<1>3. ASSUME NEW t \in TxIds, BuildUnsigned(t) PROVE PinInv'
  BY <1>3 DEF BuildUnsigned, jvars, lndVars
<1>4. CASE PinTxID
  BY <1>4 DEF PinTxID, RecordPinnedTxID, lndVars
<1>5. ASSUME NEW c \in Channels, JournalVerify(c) PROVE PinInv'
  BY <1>5 DEF JournalVerify, MarkVerified, lndVars
<1>6. CASE CallVerify
  BY <1>6 DEF CallVerify, SendVerify, jvars
<1>7. CASE VerifyAnswered
  BY <1>7 DEF VerifyAnswered, jvars, lndVars
<1>8. ASSUME NEW c \in Channels, TakeReceipt(c) PROVE PinInv'
  BY <1>8 DEF TakeReceipt, MarkPending, lndVars
<1>9. CASE GateOpens \/ StartSigning \/ AskWallet
  BY <1>9 DEF GateOpens, StartSigning, AskWallet, MarkSigning, RecordSigner,
     jvars, lndVars
<1>10. ASSUME NEW f \in Files, WalletReturns(f) PROVE PinInv'
  BY <1>10 DEF WalletReturns, jvars, lndVars
<1>11. CASE AcceptSigned
  BY <1>11 DEF AcceptSigned, Acceptable, HashesTo, RecordSigner, lndVars
<1>12. CASE FinalizeTx
  BY <1>12 DEF FinalizeTx, HashesTo, RecordFinalizedTx, lndVars
<1>13. CASE EnterPublishing
  BY <1>13 DEF EnterPublishing, MarkPublishing, lndVars
<1>14. CASE CallPublish
  BY <1>14 DEF CallPublish, SendPublish, jvars
<1>15. CASE PublishAnswered \/ PublishFails
  BY <1>15 DEF PublishAnswered, PublishFails, jvars, lndVars
<1>16. CASE FinishPublish
  BY <1>16 DEF FinishPublish, MarkPublished, lndVars
<1>17. CASE WindowFails \/ StopBeforePublish
  BY <1>17 DEF WindowFails, StopBeforePublish, jvars, lndVars
<1>18. CASE TearDown \/ TornDown \/ RunnerDies
  BY <1>18 DEF TearDown, TornDown, RunnerDies, jvars, lndVars
<1> QED
  BY <1>1, <1>2, <1>3, <1>4, <1>5, <1>6, <1>7, <1>8, <1>9, <1>10, <1>11,
     <1>12, <1>13, <1>14, <1>15, <1>16, <1>17, <1>18 DEF RunStep

(***************************************************************************)
(* LND acts on a psbt_verify, on a publish call, or by itself.             *)
(***************************************************************************)
LEMMA LndKeepsPin == ASSUME Inv, LndStep PROVE PinInv'
<1> USE NoTxAssumption
    DEF Inv, TypeOK, LndTypeOK, PinInv, PublicIsPinned, NothingShown, Pinned,
        Early, Verifying, Verified
<1>0. UNCHANGED <<jvars, runVars>>
  BY DEF LndStep
<1>1. ASSUME NEW c \in Channels, ActOnVerify(c, built) PROVE PinInv'
  BY <1>0, <1>1 DEF ActOnVerify, jvars, runVars
<1>2. ASSUME NEW c \in Channels,
             FundingSigned(c) \/ PeerFails(c) \/ StreamBreaks(c)
      PROVE  PinInv'
  BY <1>0, <1>2 DEF FundingSigned, PeerFails, DropShim, StreamBreaks, jvars,
     runVars
<1>3. ASSUME NEW a \in BOOLEAN, ActOnPublish(a) PROVE PinInv'
  BY <1>0, <1>3 DEF ActOnPublish, jvars, runVars
<1>4. CASE Confirm \/ LndRestarts
  BY <1>0, <1>4 DEF Confirm, LndRestarts, jvars, runVars
<1> QED
  BY <1>1, <1>2, <1>3, <1>4 DEF LndStep

LEMMA PinStays ==
  ASSUME PinInv, UNCHANGED pinVars
  PROVE  PinInv'
BY DEF pinVars, runVars, PinInv, PublicIsPinned, NothingShown, Pinned

(***************************************************************************)
(* Inv is inductive.                                                       *)
(***************************************************************************)
LEMMA InvInductive == Spec => []Inv
<1>1. Init => Inv
  <2> SUFFICES ASSUME Init PROVE Inv
    OBVIOUS
  <2>1. JTypeOK
    BY DEF Init, JInit, JTypeOK, RunStates, ChannelStates, SignerStates
  <2>2. LndTypeOK
    BY DEF Init, LndInit, LndTypeOK
  <2>3. RecTypeOK
    BY FaultsAssumption DEF Init, RecInit, RecTypeOK, Steps, RunStates,
       Targets, EmptyTarget, Reports, EmptyReport
  <2>4. TypeOK
    BY <2>1, <2>2, <2>3 DEF Init, TypeOK
  <2>5. PinInv
    BY DEF Init, JInit, LndInit, PinInv, PublicIsPinned, NothingShown, Pinned,
       Early, Verifying, Verified, PublishSteps
  <2> QED
    BY <2>4, <2>5 DEF Inv
<1>2. Inv /\ [Next]_vars => Inv'
  <2> SUFFICES ASSUME Inv, [Next]_vars PROVE Inv'
    OBVIOUS
  <2>1. PinInv'
    <3>1. ASSUME NEW p \in Procs, RecoveryStep(p) PROVE PinInv'
      BY <3>1, RecoveryKeepsPins, PinStays DEF Inv
    <3>2. CASE UNCHANGED vars
      BY <3>2, PinStays DEF Inv, vars, pinVars, jvars, lndVars, runVars
    <3> QED
      BY <3>1, <3>2, RunKeepsPin, LndKeepsPin DEF Next, Over
  <2> QED
    BY <2>1, Typing DEF Inv
<1> QED
  BY <1>1, <1>2, PTL DEF Spec

----------------------------------------------------------------------------
(* The theorems *)

(***************************************************************************)
(* Every variable of the run, of LND, of the journal and of every recover  *)
(* process keeps its type.                                                 *)
(***************************************************************************)
THEOREM WindowTypes == Spec => []TypeOK
BY InvInductive, PTL DEF Inv

(***************************************************************************)
(* I-3 and the rebroadcast duty, with any number of recover commands       *)
(* running against a live run: what the network may have is the one        *)
(* transaction every channel was committed to, and it is on disk.          *)
(***************************************************************************)
THEOREM WindowPublishesThePin == Spec => []PublicIsPinned
BY InvInductive, PTL DEF Inv, PinInv

(***************************************************************************)
(* The run and its recovery implement the journal's own specification, so  *)
(* they inherit what JournalProofs shows of any callers.                   *)
(***************************************************************************)
THEOREM WindowUsesTheJournal == Spec => JSpec
<1>1. Init => JInit
  BY DEF Init
<1>2. Inv /\ [Next]_vars => [JNext]_jvars
  BY WritesAreOperations
<1> QED
  BY <1>1, <1>2, InvInductive, PTL DEF Spec, JSpec

(***************************************************************************)
(* I-3 on disk, in the composed system: pins, recorded bytes and outpoints *)
(* never move.                                                             *)
(***************************************************************************)
THEOREM WindowPins == Spec => PinsNeverMove
BY WindowUsesTheJournal, JournalPins, PTL

----------------------------------------------------------------------------
(***************************************************************************)
(* What the journal's rows are worth: a row that lets an abort skip a      *)
(* channel is true (issue #32), the row that says the wallet signed is     *)
(* true (issue #37), and every stream is journalled or named.              *)
(***************************************************************************)

(***************************************************************************)
(* The signed row.  It is written last of all that it speaks of: the file  *)
(* is not replaced after it, and the pin was there before it.              *)
(***************************************************************************)
Ended == {"teardown", "tearing", "done", "dead"}

SignedInv ==
  /\ SignedRowIsTrue
  /\ signer = "signed" => pc \in PublishSteps \cup Ended

LEMMA RecoveryKeepsSigner ==
  ASSUME NEW p \in Procs, RecoveryStep(p)
  PROVE  UNCHANGED signer
<1>1. ASSUME NEW c \in Channels,
             \/ AbandonSafely(p, c) \/ SafeFlagDeclined(p, c) \/ AbandonFails(p, c)
             \/ CancelShim(p, c) \/ CancelFails(p, c)
      PROVE  UNCHANGED signer
  BY <1>1 DEF AbandonSafely, SafeFlagDeclined, AbandonFails, CancelShim,
     CancelFails, ChannelDone, jvars
<1> QED
  BY <1>1 DEF RecoveryStep, RecoverStep, AbortStep, RecoverCommand, RecoverDies,
     LoadRun, RefuseTarget, LoadRows, MarkAborting, SetAborting, LookupPending,
     LookupNotPending, OperatorConfirms, AbandonBluntly, AbortDone, ChannelDone,
     RecordOutcome, RecordAbort, ReloadRun, LeftStanding, CloseRun, SetAborted,
     JournalFails, jvars

LEMMA RunKeepsSigned == ASSUME Inv, SignedInv, RunStep PROVE SignedInv'
<1> USE DEF SignedInv, SignedRowIsTrue, Ended, PublishSteps
<1>1. ASSUME NEW c \in Channels,
             OpenStream(c) \/ OpenInterrupted(c) \/ CancelUnreadableFails(c)
      PROVE  SignedInv'
  BY <1>1 DEF OpenStream, OpenInterrupted, CancelUnreadableFails, OpenGivesUp,
     jvars
<1>2. CASE OpenRefused \/ BeginRun \/ BeginFails
  BY <1>2 DEF OpenRefused, OpenGivesUp, BeginRun, BeginFails, Begin, jvars
<1>3. ASSUME NEW t \in TxIds, BuildUnsigned(t) PROVE SignedInv'
  BY <1>3 DEF BuildUnsigned, jvars
<1>4. CASE PinTxID
  BY <1>4 DEF PinTxID, RecordPinnedTxID
<1>5. ASSUME NEW c \in Channels, JournalVerify(c) \/ TakeReceipt(c)
      PROVE  SignedInv'
  BY <1>5 DEF JournalVerify, MarkVerified, TakeReceipt, MarkPending
<1>6. CASE CallVerify \/ VerifyAnswered \/ GateOpens
  BY <1>6 DEF CallVerify, VerifyAnswered, GateOpens, jvars
<1>7. CASE StartSigning \/ AskWallet
  BY <1>7 DEF StartSigning, AskWallet, MarkSigning, RecordSigner
<1>8. ASSUME NEW f \in Files, WalletReturns(f) PROVE SignedInv'
  BY <1>8 DEF WalletReturns, jvars
<1>9. CASE AcceptSigned
  <2>1. txid = built
    BY <1>9 DEF AcceptSigned, Inv, PinInv, Pinned, Verified
  <2> QED
    BY <1>9, <2>1 DEF AcceptSigned, Acceptable, HashesTo, RecordSigner
<1>10. CASE FinalizeTx
  <2>1. txid = built
    BY <1>10 DEF FinalizeTx, Inv, PinInv, Pinned, Verified
  <2> QED
    BY <1>10, <2>1 DEF FinalizeTx, RecordFinalizedTx
<1>11. CASE EnterPublishing \/ CallPublish \/ PublishAnswered \/ FinishPublish
  BY <1>11 DEF EnterPublishing, MarkPublishing, CallPublish, PublishAnswered,
     FinishPublish, MarkPublished, jvars
<1>12. CASE PublishFails \/ WindowFails \/ StopBeforePublish
  BY <1>12 DEF PublishFails, WindowFails, StopBeforePublish, jvars
<1>13. CASE TearDown \/ TornDown \/ RunnerDies
  BY <1>13 DEF TearDown, TornDown, RunnerDies, jvars
<1> QED
  BY <1>1, <1>2, <1>3, <1>4, <1>5, <1>6, <1>7, <1>8, <1>9, <1>10, <1>11, <1>12,
     <1>13 DEF RunStep

(***************************************************************************)
(* Issue #37: the row that says the wallet signed is written over a file   *)
(* with every witness on it, for the transaction the journal pinned.       *)
(***************************************************************************)
THEOREM SignedIsTrue == Spec => []SignedRowIsTrue
<1>1. Init => SignedInv
  BY DEF Init, JInit, SignedInv, SignedRowIsTrue
<1>2. Inv /\ SignedInv /\ [Next]_vars => SignedInv'
  <2> SUFFICES ASSUME Inv, SignedInv, [Next]_vars PROVE SignedInv'
    OBVIOUS
  <2>1. ASSUME UNCHANGED <<signer, txid, runVars>> PROVE SignedInv'
    BY <2>1 DEF SignedInv, SignedRowIsTrue, runVars
  <2>2. ASSUME NEW p \in Procs, RecoveryStep(p) PROVE SignedInv'
    BY <2>1, <2>2, RecoveryKeepsSigner, RecoveryKeepsPins DEF pinVars
  <2>3. CASE LndStep \/ Over \/ UNCHANGED vars
    BY <2>1, <2>3 DEF LndStep, Over, vars, jvars
  <2> QED
    BY <2>2, <2>3, RunKeepsSigned DEF Next
<1>3. SignedInv => SignedRowIsTrue
  BY DEF SignedInv
<1> QED
  BY <1>1, <1>2, <1>3, InvInductive, PTL DEF Spec

----------------------------------------------------------------------------
(***************************************************************************)
(* Named streams.  A stream is opened at one place only, and leaves it     *)
(* with its id in the journal or in the error; rows do not disappear.      *)
(***************************************************************************)
Unread == Answered \ Opened

NamedInv ==
  /\ pc \notin {"open", "begin", "dead"} => Answered \subseteq Rows \cup told
  /\ Unread \subseteq told

LEMMA RowsStay == ASSUME JTypeOK, [JNext]_jvars PROVE Rows \subseteq Rows'
<1> SUFFICES ASSUME NEW c \in Channels, chanState[c] # "absent"
             PROVE  chanState'[c] # "absent"
  BY DEF Rows
<1> USE DEF JTypeOK
<1>1. ASSUME NEW S \in SUBSET Channels, Begin(S) PROVE chanState'[c] # "absent"
  BY <1>1 DEF Begin
<1>2. ASSUME NEW d \in Channels, MarkVerified(d) PROVE chanState'[c] # "absent"
  BY <1>2 DEF MarkVerified
<1>3. ASSUME NEW d \in Channels, NEW t \in TxIds, MarkPending(d, t)
      PROVE  chanState'[c] # "absent"
  BY <1>3 DEF MarkPending
<1>4. ASSUME NEW A, NEW K, NEW G, RecordAbort(A, K, G)
      PROVE  chanState'[c] # "absent"
  BY <1>4 DEF RecordAbort
<1>5. CASE UNCHANGED chanState
  BY <1>5
<1> QED
  BY <1>1, <1>2, <1>3, <1>4, <1>5
  DEF JNext, jvars, RecordPinnedTxID, RecordFinalizedTx, RecordSigner,
      MarkSigning, MarkPublishing, MarkPublished, SetAborting, SetAborted

Unopened == {"none", "unreadable"}

(* LND ends streams; it makes none. *)
LEMMA DroppedStreams ==
  ASSUME LndTypeOK, NEW c \in Channels, DropShim(c)
  PROVE  \A d \in Channels : \/ stream'[d] = stream[d]
                             \/ stream[d] \notin Unopened /\ stream'[d] = "down"
<1>1. \A d \in Channels \ {c} : stream'[d] = stream[d]
  BY DEF LndTypeOK, DropShim
<1>2. stream'[c] = IF stream[c] \in Unopened THEN stream[c] ELSE "down"
  BY DEF LndTypeOK, DropShim, EndedStream, Unopened
<1> QED
  BY <1>1, <1>2

LEMMA RestartedStreams ==
  ASSUME LndRestarts
  PROVE  \A d \in Channels : \/ stream'[d] = stream[d]
                             \/ stream[d] \notin Unopened /\ stream'[d] = "down"
BY DEF LndRestarts, EndedStream, Unopened

(* A step that opens no stream and misreads none. *)
NothingNew == Answered' \subseteq Answered /\ Unread' \subseteq Unread

LEMMA StreamsOnlyEnd ==
  ASSUME \A d \in Channels : \/ stream'[d] = stream[d]
                             \/ stream[d] \notin Unopened /\ stream'[d] \notin Unopened
  PROVE  NothingNew
BY DEF NothingNew, Unread, Answered, Opened, Unopened

LEMMA RecoveryOpensNothing ==
  ASSUME LndTypeOK, RecTypeOK, NEW p \in Procs, RecoveryStep(p)
  PROVE  NothingNew
<1> USE DEF LndTypeOK, Unopened
<1>1. ASSUME UNCHANGED stream PROVE NothingNew
  BY <1>1, StreamsOnlyEnd
<1>2. ASSUME NEW c \in Channels, DropShim(c) PROVE NothingNew
  BY <1>2, DroppedStreams, StreamsOnlyEnd
<1>3. ASSUME NEW c \in Channels, CancelShim(p, c) \/ CancelFails(p, c)
      PROVE  NothingNew
  BY <1>1, <1>2, <1>3 DEF CancelShim, CancelFails, lndVars
<1>4. ASSUME NEW c \in Channels,
             AbandonSafely(p, c) \/ SafeFlagDeclined(p, c) \/ AbandonFails(p, c)
      PROVE  NothingNew
  BY <1>1, <1>4 DEF AbandonSafely, SafeFlagDeclined, AbandonFails, RemoveChannel,
     lndVars
<1> QED
  BY <1>1, <1>3, <1>4 DEF RecoveryStep, RecoverStep, AbortStep, RecoverCommand,
     RecoverDies, LoadRun, RefuseTarget, LoadRows, MarkAborting, LookupPending,
     LookupNotPending, OperatorConfirms, AbandonBluntly, RemoveChannel, AbortDone,
     RecordOutcome, ReloadRun, LeftStanding, CloseRun, JournalFails, lndVars

LEMMA LndOpensNothing ==
  ASSUME LndTypeOK, LndStep
  PROVE  NothingNew
<1> USE DEF LndTypeOK, Unopened
<1>1. ASSUME NEW c \in Channels, FundingSigned(c) PROVE NothingNew
  BY <1>1, StreamsOnlyEnd DEF FundingSigned
<1>2. ASSUME NEW c \in Channels, PeerFails(c) PROVE NothingNew
  BY <1>2, DroppedStreams, StreamsOnlyEnd DEF PeerFails
<1>3. ASSUME NEW c \in Channels, StreamBreaks(c) PROVE NothingNew
  BY <1>3, StreamsOnlyEnd DEF StreamBreaks
<1>4. CASE LndRestarts
  BY <1>4, RestartedStreams, StreamsOnlyEnd
<1>5. CASE UNCHANGED stream
  BY <1>5, StreamsOnlyEnd
<1> QED
  BY <1>1, <1>2, <1>3, <1>4, <1>5 DEF LndStep, ActOnVerify, ActOnPublish, Confirm

LEMMA RunNamesStreams == ASSUME Inv, NamedInv, RunStep PROVE NamedInv'
<1> USE DEF NamedInv
<1>1. ASSUME NEW c \in Channels, OpenStream(c) PROVE NamedInv'
  <2>1. Unread' \subseteq Unread
    BY <1>1 DEF OpenStream, RegisterShim, Unread, Answered, Opened, Inv, TypeOK,
       LndTypeOK
  <2> QED
    BY <1>1, <2>1 DEF OpenStream
<1>2. CASE OpenRefused
  <2>1. UNCHANGED <<Answered, Unread>>
    BY <1>2 DEF OpenRefused, Unread, Answered, Opened, lndVars
  <2>2. pc' # "teardown" \/ Answered \subseteq told
    BY <1>2 DEF OpenRefused, OpenGivesUp, Unread
  <2> QED
    BY <1>2, <2>1, <2>2 DEF OpenRefused, OpenGivesUp
<1>3. ASSUME NEW c \in Channels, OpenInterrupted(c) \/ CancelUnreadableFails(c)
      PROVE  NamedInv'
  <2>1. told \subseteq told'
    BY <1>3 DEF OpenInterrupted, CancelUnreadableFails
  <2>2. /\ Answered' \subseteq Answered \cup told'
        /\ Unread' \subseteq Unread \cup told'
    BY <1>3 DEF OpenInterrupted, CancelUnreadableFails, RegisterShim, Unread,
       Answered, Opened, Inv, TypeOK, LndTypeOK
  <2>3. pc' # "teardown" \/ Answered \subseteq told
    BY <1>3 DEF OpenInterrupted, CancelUnreadableFails, OpenGivesUp, Unread
  <2>4. pc' \in {"teardown", "begin"}
    BY <1>3 DEF OpenInterrupted, CancelUnreadableFails, OpenGivesUp
  <2> QED
    BY <2>1, <2>2, <2>3, <2>4
<1>4. CASE BeginRun
  <2>1. UNCHANGED <<Answered, Unread>> /\ Opened \subseteq Channels
    BY <1>4 DEF BeginRun, Unread, Answered, Opened, lndVars
  <2>2. Opened \subseteq Rows'
    BY <1>4, <2>1 DEF BeginRun, Begin, Rows
  <2>3. Answered \subseteq Rows' \cup told
    BY <2>2 DEF Unread
  <2> QED
    BY <1>4, <2>1, <2>3 DEF BeginRun
<1>5. CASE BeginFails
  <2>1. UNCHANGED <<Answered, Unread>>
    BY <1>5 DEF BeginFails, Unread, Answered, Opened, lndVars
  <2> QED
    BY <1>5, <2>1 DEF BeginFails, Unread
<1>6. CASE RunnerDies
  BY <1>6 DEF RunnerDies, Unread, Answered, Opened, lndVars
<1>7. ASSUME pc \notin {"open", "begin", "dead"}, UNCHANGED <<stream, told>>
      PROVE  NamedInv'
  <2>1. Rows \subseteq Rows'
    BY WritesAreOperations, RowsStay DEF Next, Inv, TypeOK
  <2>2. UNCHANGED <<Answered, Unread>>
    BY <1>7 DEF Unread, Answered, Opened
  <2> QED
    BY <1>7, <2>1, <2>2
<1>8. ASSUME NEW c \in Channels, JournalVerify(c) \/ TakeReceipt(c) PROVE NamedInv'
  BY <1>7, <1>8 DEF JournalVerify, TakeReceipt, lndVars
<1>9. CASE \/ \E t \in TxIds : BuildUnsigned(t)
           \/ PinTxID \/ VerifyAnswered \/ GateOpens \/ StartSigning \/ AskWallet
           \/ \E f \in Files : WalletReturns(f)
           \/ AcceptSigned \/ FinalizeTx \/ EnterPublishing
  BY <1>7, <1>9 DEF BuildUnsigned, PinTxID, VerifyAnswered, GateOpens, StartSigning,
     AskWallet, WalletReturns, AcceptSigned, FinalizeTx, EnterPublishing, lndVars
<1>10. CASE CallVerify \/ CallPublish
  BY <1>7, <1>10 DEF CallVerify, CallPublish, SendVerify, SendPublish
<1>11. CASE \/ PublishAnswered \/ FinishPublish \/ PublishFails \/ WindowFails
            \/ StopBeforePublish \/ TearDown \/ TornDown
  BY <1>7, <1>11 DEF PublishAnswered, FinishPublish, PublishFails, WindowFails,
     StopBeforePublish, TearDown, TornDown, Window, PublishSteps, lndVars
<1> QED
  BY <1>1, <1>2, <1>3, <1>4, <1>5, <1>6, <1>8, <1>9, <1>10, <1>11 DEF RunStep

(***************************************************************************)
(* A batch that ended without dying journalled or named in its error the   *)
(* id of every stream LND answered for, one it could not read included.    *)
(***************************************************************************)
THEOREM StreamsAreNamed == Spec => []NoStreamIsForgotten
<1>1. Init => NamedInv
  BY DEF Init, LndInit, NamedInv, Unread, Answered, Opened
<1>2. Inv /\ NamedInv /\ [Next]_vars => NamedInv'
  <2> SUFFICES ASSUME Inv, NamedInv, [Next]_vars PROVE NamedInv'
    OBVIOUS
  <2>1. Rows \subseteq Rows'
    BY WritesAreOperations, RowsStay DEF Inv, TypeOK
  <2>2. ASSUME NothingNew, UNCHANGED runVars PROVE NamedInv'
    BY <2>1, <2>2 DEF NamedInv, NothingNew, runVars
  <2>3. ASSUME NEW p \in Procs, RecoveryStep(p) PROVE NamedInv'
    BY <2>2, <2>3, RecoveryKeepsPins, RecoveryOpensNothing DEF pinVars, Inv, TypeOK
  <2>4. CASE LndStep
    BY <2>2, <2>4, LndOpensNothing DEF LndStep, Inv, TypeOK
  <2>5. CASE Over \/ UNCHANGED vars
    BY <2>2, <2>5 DEF Over, vars, lndVars, NothingNew, Unread, Answered, Opened
  <2> QED
    BY <2>3, <2>4, <2>5, RunNamesStreams DEF Next
<1>3. NamedInv => NoStreamIsForgotten
  BY DEF NamedInv, NoStreamIsForgotten
<1> QED
  BY <1>1, <1>2, <1>3, InvInductive, PTL DEF Spec

----------------------------------------------------------------------------
(***************************************************************************)
(* Settled rows.  A row leaves shim_registered before LND is shown a       *)
(* transaction for the channel, and does not return to it; what an abort   *)
(* reports as cancelled had an intent, hence no channel, and has neither   *)
(* afterwards; an intent that is gone never comes back, because intents    *)
(* are registered before there is a row and rows before there is an abort. *)
(***************************************************************************)
Empty(c) == shim[c] = "none" /\ chan[c] = "none"

Untouched(state) == state \in {"absent", "shim_registered"}

BeforeTheRow ==
  /\ pc \in {"open", "begin"} => ~RunExists
  /\ ~RunExists => \A c \in Channels : chanState[c] = "absent"
  /\ ~RunExists => \A p \in Procs : /\ step[p] = "idle"
                                    /\ report[p].cancelled = {}
                                    /\ report[p].gone = {}

ChannelOf(c) ==
  /\ shim[c] # "none" => chan[c] = "none"
  /\ chan[c] # "none" \/ shim[c] = "completing" => committed[c] # NoTx

RowOf(c) ==
  /\ c \in asked \/ committed[c] # NoTx => ~Untouched(chanState[c])
  /\ pc = "verify_rpc" /\ cur = c => ~Untouched(chanState[c])
  /\ chanState[c] \in {"shim_gone", "cancelled"} => Empty(c)

ReportOf(p, c) ==
  /\ c \in report[p].cancelled => Empty(c)
  /\ c \in report[p].gone => shim[c] = "none"

RowsInv ==
  /\ BeforeTheRow
  /\ \A c \in Channels : ChannelOf(c) /\ RowOf(c)
  /\ \A p \in Procs, c \in Channels : ReportOf(p, c)

LEMMA RunKeepsRows == ASSUME Inv, RowsInv, RunStep PROVE RowsInv'
<1> USE DEF Inv, TypeOK, JTypeOK, LndTypeOK, RowsInv, BeforeTheRow, ChannelOf,
            RowOf, ReportOf, Empty, Untouched, RunExists
<1>1. ASSUME NEW c \in Channels,
             OpenStream(c) \/ OpenInterrupted(c) \/ CancelUnreadableFails(c)
      PROVE  RowsInv'
  <2>1. pc = "open" /\ pc' # "verify_rpc" /\ UNCHANGED <<jvars, recVars>>
    BY <1>1 DEF OpenStream, OpenInterrupted, CancelUnreadableFails, OpenGivesUp
  <2>2. NothingShown
    BY <2>1 DEF PinInv, Early
  <2>3. /\ UNCHANGED <<chan, committed, asked>>
        /\ \A d \in Channels : shim'[d] = shim[d] \/ shim'[d] = "registered"
    BY <1>1 DEF OpenStream, OpenInterrupted, CancelUnreadableFails, RegisterShim
  <2> QED
    BY <2>1, <2>2, <2>3 DEF NothingShown, jvars, recVars
<1>2. CASE BeginRun
  <2>1. NothingShown
    BY <1>2 DEF BeginRun, PinInv, Early
  <2>2. \A c \in Channels : chanState'[c] \in {"absent", "shim_registered"}
    BY <1>2 DEF BeginRun, Begin
  <2> QED
    BY <1>2, <2>1, <2>2 DEF BeginRun, Begin, NothingShown, lndVars, recVars
<1>3. CASE OpenRefused \/ BeginFails
  BY <1>3 DEF OpenRefused, OpenGivesUp, BeginFails, jvars, lndVars, recVars
<1>4. ASSUME NEW c \in Channels, JournalVerify(c) PROVE RowsInv'
  BY <1>4 DEF JournalVerify, MarkVerified, Rows, lndVars, recVars
<1>5. CASE CallVerify
  BY <1>5 DEF CallVerify, SendVerify, PinInv, Verifying, jvars, recVars
<1>6. ASSUME NEW c \in Channels, TakeReceipt(c) PROVE RowsInv'
  BY <1>6 DEF TakeReceipt, MarkPending, Rows, lndVars, recVars
<1>7. ASSUME UNCHANGED <<chanState, lndVars, step, report>>,
             runState' = runState \/ runState # "absent",
             runState' # "absent" \/ runState' = runState,
             pc' \notin {"open", "begin", "verify_rpc"}
      PROVE  RowsInv'
  BY <1>7 DEF lndVars
<1>8. CASE \/ \E t \in TxIds : BuildUnsigned(t)
           \/ PinTxID \/ VerifyAnswered \/ GateOpens \/ StartSigning \/ AskWallet
           \/ \E f \in Files : WalletReturns(f)
           \/ AcceptSigned
  BY <1>7, <1>8 DEF BuildUnsigned, PinTxID, RecordPinnedTxID, VerifyAnswered,
     GateOpens, StartSigning, MarkSigning, AskWallet, RecordSigner, WalletReturns,
     AcceptSigned, jvars, recVars
<1>9. CASE FinalizeTx \/ EnterPublishing \/ PublishAnswered \/ FinishPublish
  BY <1>7, <1>9 DEF FinalizeTx, RecordFinalizedTx, EnterPublishing, MarkPublishing,
     PublishAnswered, FinishPublish, MarkPublished, jvars, recVars
<1>10. CASE CallPublish
  BY <1>10 DEF CallPublish, SendPublish, jvars, recVars
<1>11. CASE PublishFails \/ WindowFails \/ StopBeforePublish \/ TornDown
  BY <1>7, <1>11 DEF PublishFails, WindowFails, StopBeforePublish, TornDown, jvars,
     recVars
<1>12. CASE TearDown
  BY <1>12 DEF TearDown, Goto, RecTypeOK, jvars, lndVars
<1>13. CASE RunnerDies
  <2>1. \A p \in Procs : /\ step'[p] \in {step[p], "idle"}
                         /\ report'[p] \in {report[p], EmptyReport}
    BY <1>13 DEF RunnerDies, Return, Goto, RecTypeOK
  <2> QED
    BY <1>13, <2>1 DEF RunnerDies, EmptyReport, jvars, lndVars
<1> QED
  BY <1>1, <1>2, <1>3, <1>4, <1>5, <1>6, <1>8, <1>9, <1>10, <1>11, <1>12, <1>13
  DEF RunStep

LEMMA LndKeepsRows == ASSUME Inv, RowsInv, LndStep PROVE RowsInv'
<1> USE DEF Inv, TypeOK, JTypeOK, LndTypeOK, RowsInv, BeforeTheRow, ChannelOf,
            RowOf, ReportOf, Empty, Untouched, RunExists
<1>0. UNCHANGED <<runState, chanState, pc, cur, step, report>>
  BY DEF LndStep, jvars, runVars
<1>1. ASSUME NEW c \in Channels, ActOnVerify(c, built) PROVE RowsInv'
  <2>1. built # NoTx
    BY <1>1, NoTxAssumption DEF ActOnVerify, PinInv, Pinned
  <2> QED
    BY <1>0, <1>1, <2>1 DEF ActOnVerify
<1>2. ASSUME NEW c \in Channels, FundingSigned(c) PROVE RowsInv'
  BY <1>0, <1>2 DEF FundingSigned
<1>3. ASSUME NEW c \in Channels, PeerFails(c) PROVE RowsInv'
  BY <1>0, <1>3 DEF PeerFails, DropShim
<1>4. ASSUME NEW c \in Channels, StreamBreaks(c) PROVE RowsInv'
  BY <1>0, <1>4 DEF StreamBreaks
<1>5. CASE LndRestarts
  BY <1>0, <1>5 DEF LndRestarts
<1>6. ASSUME NEW a \in BOOLEAN, ActOnPublish(a) PROVE RowsInv'
  BY <1>0, <1>6 DEF ActOnPublish
<1>7. CASE Confirm
  BY <1>0, <1>7 DEF Confirm
<1> QED
  BY <1>1, <1>2, <1>3, <1>4, <1>5, <1>6, <1>7 DEF LndStep

(***************************************************************************)
(* Recover returns, or goes on with the report it has.                     *)
(***************************************************************************)
LEMMA QuietRecovery ==
  ASSUME Inv, RowsInv, NEW p \in Procs,
         UNCHANGED <<chanState, lndVars, pc, cur>>,
         RunExists, RunExists',
         \A q \in Procs : report'[q] \in {report[q], EmptyReport}
  PROVE  RowsInv'
BY DEF RowsInv, BeforeTheRow, ChannelOf, RowOf, ReportOf, Empty, lndVars,
   EmptyReport

LEMMA RecoveryKeepsRows ==
  ASSUME Inv, RowsInv, NEW p \in Procs, RecoveryStep(p)
  PROVE  RowsInv'
<1>0. /\ JTypeOK /\ LndTypeOK /\ RecTypeOK
      /\ UNCHANGED <<pc, cur, asked, committed>>
      /\ report[p] \in Reports /\ target[p] \in Targets
  BY RecoveryKeepsPins DEF Inv, TypeOK, pinVars, runVars, RecTypeOK
<1>1. RunExists
  BY DEF RowsInv, BeforeTheRow, RecoveryStep, RecoverStep, AbortStep, RecoverCommand,
     RecoverDies, LoadRun, RefuseTarget, LoadRows, MarkAborting, AbandonSafely,
     SafeFlagDeclined, AbandonFails, CancelShim, CancelFails, LookupPending,
     LookupNotPending, OperatorConfirms, AbandonBluntly, AbortDone, RecordOutcome,
     ReloadRun, LeftStanding, CloseRun, JournalFails
<1>2. ASSUME Return(p) PROVE \A q \in Procs : report'[q] \in {report[q], EmptyReport}
  BY <1>0, <1>2 DEF Return, RecTypeOK
<1>3. CASE \/ LoadRun(p) \/ RefuseTarget(p) \/ LoadRows(p) \/ AbortDone(p)
           \/ LookupPending(p) \/ OperatorConfirms(p) \/ ReloadRun(p)
           \/ LeftStanding(p) \/ JournalFails(p) \/ RecoverCommand(p)
           \/ RecoverDies(p)
  BY <1>0, <1>1, <1>2, <1>3, QuietRecovery
  DEF LoadRun, RefuseTarget, LoadRows, AbortDone, LookupPending, OperatorConfirms,
      ReloadRun, LeftStanding, JournalFails, RecoverCommand, RecoverDies, RunExists,
      jvars, lndVars
<1>4. CASE MarkAborting(p) \/ CloseRun(p)
  BY <1>0, <1>1, <1>2, <1>4, QuietRecovery
  DEF MarkAborting, SetAborting, CloseRun, SetAborted, RunExists, lndVars
<1>5. ASSUME NEW c \in Channels, SafeFlagDeclined(p, c) PROVE RowsInv'
  BY <1>0, <1>1, <1>5, QuietRecovery DEF SafeFlagDeclined, RunExists, jvars, lndVars
<1>6. ASSUME UNCHANGED <<runState, chanState, shim>>,
             \A q \in Procs : /\ report'[q].cancelled = report[q].cancelled
                              /\ report'[q].gone = report[q].gone,
             \A c \in Channels : chan'[c] = chan[c] \/ chan[c] # "none"
      PROVE  RowsInv'
  BY <1>0, <1>1, <1>6
  DEF RowsInv, BeforeTheRow, ChannelOf, RowOf, ReportOf, Empty, RunExists
<1>7. \A q \in Procs : report[q] \in Reports
  BY <1>0 DEF RecTypeOK
<1>8. ASSUME NEW c \in Channels, Abandoned(p, c) \/ Failed(p)
      PROVE  \A q \in Procs : /\ report'[q].cancelled = report[q].cancelled
                              /\ report'[q].gone = report[q].gone
  BY <1>0, <1>7, <1>8 DEF Abandoned, Failed, RecTypeOK, Reports
<1>9. ASSUME NEW c \in Channels, RemoveChannel(c) \/ UNCHANGED lndVars
      PROVE  /\ UNCHANGED shim
             /\ \A d \in Channels : chan'[d] = chan[d] \/ chan[d] # "none"
  BY <1>0, <1>9 DEF RemoveChannel, Standing, lndVars, LndTypeOK
<1>10. ASSUME NEW c \in Channels, AbandonSafely(p, c) \/ AbandonFails(p, c)
       PROVE  RowsInv'
  <2>1. UNCHANGED <<runState, chanState>>
    BY <1>10 DEF AbandonSafely, AbandonFails, ChannelDone, jvars
  <2>2. Abandoned(p, c) \/ Failed(p)
    BY <1>10 DEF AbandonSafely, AbandonFails
  <2>3. RemoveChannel(c) \/ UNCHANGED lndVars
    BY <1>10 DEF AbandonSafely, AbandonFails
  <2> QED
    BY <1>6, <1>8, <1>9, <2>1, <2>2, <2>3
<1>11. CASE LookupNotPending(p) \/ AbandonBluntly(p)
  <2>1. at[p] \in Channels
    BY <1>0, <1>11 DEF LookupNotPending, AbandonBluntly, RecTypeOK
  <2>2. UNCHANGED <<runState, chanState>>
    BY <1>11 DEF LookupNotPending, AbandonBluntly, ChannelDone, jvars
  <2>3. Abandoned(p, at[p]) \/ Failed(p)
    BY <1>11 DEF LookupNotPending, AbandonBluntly
  <2>4. RemoveChannel(at[p]) \/ UNCHANGED lndVars
    BY <1>11 DEF LookupNotPending, AbandonBluntly
  <2> QED
    BY <1>6, <1>8, <1>9, <2>1, <2>2, <2>3, <2>4
<1>12. ASSUME NEW c \in Channels, DropShim(c) \/ UNCHANGED lndVars
       PROVE  /\ chan' = chan /\ (shim[c] = "none" => shim' = shim)
              /\ DropShim(c) => shim'[c] = "none"
              /\ \A d \in Channels : shim'[d] = shim[d] \/ shim'[d] = "none"
  BY <1>0, <1>12 DEF DropShim, lndVars, LndTypeOK
<1>13. ASSUME NEW c \in Channels, CancelShim(p, c) PROVE RowsInv'
  <2>1. UNCHANGED <<runState, chanState>>
    BY <1>13 DEF CancelShim, jvars
  <2>2. DropShim(c) \/ UNCHANGED lndVars
    BY <1>13 DEF CancelShim
  <2>3. \A q \in Procs, d \in Channels :
          /\ d \in report'[q].cancelled =>
               d \in report[q].cancelled \/ (d = c /\ shim[c] # "none" /\ DropShim(c))
          /\ d \in report'[q].gone =>
               d \in report[q].gone \/ (d = c /\ shim[c] = "none")
    BY <1>0, <1>7, <1>13 DEF CancelShim, RecTypeOK, Reports
  <2>4. \A q \in Procs, d \in Channels : ReportOf(q, d)'
    BY <1>12, <2>2, <2>3 DEF RowsInv, ReportOf, ChannelOf, Empty
  <2>5. BeforeTheRow' /\ \A d \in Channels : ChannelOf(d)' /\ RowOf(d)'
    BY <1>0, <1>1, <1>12, <2>1, <2>2
    DEF RowsInv, BeforeTheRow, ChannelOf, RowOf, Empty, RunExists
  <2> QED
    BY <2>4, <2>5 DEF RowsInv
<1>14. ASSUME NEW c \in Channels, CancelFails(p, c) PROVE RowsInv'
  <2>1. UNCHANGED <<runState, chanState>>
    BY <1>14 DEF CancelFails, jvars
  <2>2. DropShim(c) \/ UNCHANGED lndVars
    BY <1>14 DEF CancelFails
  <2>3. \A q \in Procs : /\ report'[q].cancelled = report[q].cancelled
                         /\ report'[q].gone = report[q].gone
    BY <1>8, <1>14 DEF CancelFails
  <2> QED
    BY <1>0, <1>1, <1>12, <2>1, <2>2, <2>3
    DEF RowsInv, BeforeTheRow, ChannelOf, RowOf, ReportOf, Empty, RunExists
<1>15. CASE RecordOutcome(p)
  <2>1. /\ UNCHANGED <<runState, lndVars>>
        /\ \A q \in Procs : report'[q] \in {report[q], EmptyReport}
    BY <1>0, <1>2, <1>15 DEF RecordOutcome, RecordAbort
  <2>2. ASSUME NEW c \in Channels
        PROVE  /\ ~Untouched(chanState[c]) => ~Untouched(chanState'[c])
               /\ chanState'[c] \in {"shim_gone", "cancelled"} =>
                    \/ chanState[c] \in {"shim_gone", "cancelled"}
                    \/ c \in report[p].cancelled
                    \/ c \in report[p].gone /\ chanState[c] = "shim_registered"
    BY <1>0, <1>15 DEF RecordOutcome, RecordAbort, Untouched, JTypeOK
  <2>3. \A c \in Channels : RowOf(c)'
    BY <1>0, <2>1, <2>2
    DEF RowsInv, ChannelOf, RowOf, ReportOf, Empty, Untouched, lndVars
  <2>4. /\ BeforeTheRow'
        /\ \A c \in Channels : ChannelOf(c)'
        /\ \A q \in Procs, c \in Channels : ReportOf(q, c)'
    BY <1>0, <1>1, <2>1
    DEF RowsInv, BeforeTheRow, ChannelOf, ReportOf, Empty, RunExists, lndVars,
        EmptyReport
  <2> QED
    BY <2>3, <2>4 DEF RowsInv
<1> QED
  BY <1>3, <1>4, <1>5, <1>10, <1>11, <1>13, <1>14, <1>15
  DEF RecoveryStep, RecoverStep, AbortStep

LEMMA RowsInductive == Spec => []RowsInv
<1>1. Init => RowsInv
  BY DEF Init, JInit, LndInit, RecInit, RowsInv, BeforeTheRow, ChannelOf, RowOf,
     ReportOf, Empty, RunExists, EmptyReport, Untouched
<1>2. Inv /\ RowsInv /\ [Next]_vars => RowsInv'
  <2>1. ASSUME Inv, RowsInv, UNCHANGED vars PROVE RowsInv'
    BY <2>1 DEF vars, jvars, lndVars, recVars, runVars, RowsInv, BeforeTheRow,
       ChannelOf, RowOf, ReportOf, Empty, RunExists
  <2> QED
    BY <2>1, RunKeepsRows, LndKeepsRows, RecoveryKeepsRows DEF Next, Over
<1> QED
  BY <1>1, <1>2, InvInductive, PTL DEF Spec

(***************************************************************************)
(* Issue #32: a row that lets an abort skip a channel is true.             *)
(***************************************************************************)
THEOREM SettledIsEmpty == Spec => []SettledRowsAreEmpty
<1>1. RowsInv => SettledRowsAreEmpty
  BY DEF RowsInv, ChannelOf, RowOf, Empty, Untouched, SettledRowsAreEmpty
<1> QED
  BY <1>1, RowsInductive, PTL
============================================================================
