------------------------- MODULE WindowGateProofs -------------------------
(***************************************************************************)
(* What holds of a run whose recovery waits for it to stop: the gate (I-1) *)
(* and what an aborted run leaves behind, for any batch, any number of     *)
(* recover commands and any number of faults.                              *)
(***************************************************************************)
EXTENDS ArmedWindowProofs

Stopping == {"tearing", "done", "dead"}

PastGate == {"gate", "signing", "ask", "sign", "accept"} \cup PublishSteps

Called == {"publish_rpc", "publish_wait", "mark_published"}

(***************************************************************************)
(* One process at a time: nobody recovers while the run is in its window,  *)
(* and afterwards one recovery at a time.                                  *)
(***************************************************************************)
AloneInv ==
  /\ pc \notin Stopping => \A p \in Procs : step[p] = "idle"
  /\ \A p, q \in Procs : step[p] # "idle" /\ step[q] # "idle" => p = q

(***************************************************************************)
(* A channel that was seen pending stands until an abort removes it, and   *)
(* no abort gets past its look at a run that may be published.             *)
(***************************************************************************)
Received(c) == Standing(c) /\ chanState[c] = "pending"

StandInv ==
  /\ \A c \in Channels : stream[c] = "receipt" => chan[c] # "none"
  /\ pc \notin Stopping => \A c \in Channels : chan[c] # "abandoned"
  /\ pc = "receipts" => \A c \in Channels \ todo : Received(c)
  /\ pc \in PastGate => \A c \in Channels : Received(c)
  /\ pc \in Called => MayBePublished(runState)
  /\ wire # NoTx \/ mempool # NoTx => MayBePublished(runState)
  /\ \A c \in Channels : chan[c] = "open" => mempool # NoTx
  /\ MayBePublished(runState) =>
       /\ pc \in Called \cup {"done", "dead"}
       /\ \A c \in Channels : Standing(c)
       /\ \A p \in Procs : \/ step[p] \in {"idle", "load"}
                           \/ step[p] = "rows" /\ MayBePublished(seen[p])

(***************************************************************************)
(* What a row, a target and a report say of a channel is so, and a run is  *)
(* closed only over rows that are settled.                                 *)
(***************************************************************************)
Settled ==
  \A c \in Channels : chanState[c] \in {"absent", "shim_gone", "cancelled", "abandoned"}

Existed(c) == chan[c] # "none"

AbortOf(p) ==
  /\ \A c \in target[p].channels : Existed(c)
  /\ step[p] \in {"lookup", "confirm", "blunt"} => Existed(at[p])
  /\ \A c \in report[p].abandoned : chan[c] = "abandoned"
  /\ step[p] = "close" => Settled

Reading(p) == \/ step[p] \in {"idle", "load", "mark"}
              \/ step[p] = "rows" /\ seen[p] = "aborted"

AbortInv ==
  /\ \A c \in Channels : chanState[c] = "pending" => Existed(c)
  /\ \A c \in Channels : chanState[c] = "abandoned" => chan[c] = "abandoned"
  /\ \A p \in Procs : AbortOf(p)
  /\ runState = "aborted" =>
       pc \in Stopping /\ Settled /\ \A p \in Procs : Reading(p)

----------------------------------------------------------------------------
(* One at a time *)

LEMMA OthersStandStill ==
  ASSUME RecTypeOK, NEW p \in Procs, RecoveryStep(p)
  PROVE  \A q \in Procs : q = p \/ /\ step'[q] = step[q] /\ seen'[q] = seen[q]
                                   /\ target'[q] = target[q] /\ at'[q] = at[q]
                                   /\ report'[q] = report[q]
<1> USE DEF RecTypeOK, Goto, Failed, Abandoned
<1>1. ASSUME NEW c \in Channels,
             \/ AbandonSafely(p, c) \/ SafeFlagDeclined(p, c) \/ AbandonFails(p, c)
             \/ CancelShim(p, c) \/ CancelFails(p, c)
      PROVE  \A q \in Procs : q = p \/ /\ step'[q] = step[q] /\ seen'[q] = seen[q]
                                       /\ target'[q] = target[q] /\ at'[q] = at[q]
                                       /\ report'[q] = report[q]
  BY <1>1 DEF AbandonSafely, SafeFlagDeclined, AbandonFails, CancelShim,
     CancelFails, ChannelDone
<1>2. CASE \/ LookupPending(p) \/ LookupNotPending(p) \/ OperatorConfirms(p)
           \/ AbandonBluntly(p) \/ AbortDone(p)
  BY <1>2 DEF LookupPending, LookupNotPending, OperatorConfirms, AbandonBluntly,
     AbortDone, ChannelDone
<1>3. CASE \/ LoadRun(p) \/ LoadRows(p) \/ MarkAborting(p) \/ ReloadRun(p)
           \/ RecoverCommand(p)
  BY <1>3 DEF LoadRun, LoadRows, MarkAborting, ReloadRun, RecoverCommand
<1>4. CASE \/ RefuseTarget(p) \/ RecordOutcome(p) \/ LeftStanding(p)
           \/ CloseRun(p) \/ JournalFails(p) \/ RecoverDies(p)
  BY <1>4 DEF RefuseTarget, RecordOutcome, LeftStanding, CloseRun, JournalFails,
     RecoverDies, Return
<1> QED
  BY <1>1, <1>2, <1>3, <1>4 DEF RecoveryStep, RecoverStep, AbortStep

LEMMA RecoveryIsAlone ==
  ASSUME ~Overlap, RecTypeOK, AloneInv, NEW p \in Procs, RecoveryStep(p)
  PROVE  /\ pc \in Stopping
         /\ \A q \in Procs : q = p \/ step[q] = "idle"
<1>1. CASE RecoverCommand(p)
  BY <1>1 DEF RecoverCommand, RunnerStopped, Stopping
<1>2. CASE ~RecoverCommand(p)
  <2>1. step[p] # "idle"
    BY <1>2 DEF RecoveryStep, RecoverStep, AbortStep, RecoverDies, LoadRun,
       RefuseTarget, LoadRows, MarkAborting, AbandonSafely, SafeFlagDeclined,
       AbandonFails, CancelShim, CancelFails, LookupPending, LookupNotPending,
       OperatorConfirms, AbandonBluntly, AbortDone, RecordOutcome, ReloadRun,
       LeftStanding, CloseRun, JournalFails
  <2> QED
    BY <2>1 DEF AloneInv
<1> QED
  BY <1>1, <1>2

LEMMA AloneStep ==
  ASSUME ~Overlap, Inv, AloneInv, [Next]_vars
  PROVE  AloneInv'
<1> USE DEF AloneInv, Stopping, Inv, TypeOK, RecTypeOK
<1>1. ASSUME NEW p \in Procs, RecoveryStep(p) PROVE AloneInv'
  <2>1. UNCHANGED pc
    BY <1>1, RecoveryKeepsPins DEF pinVars, runVars
  <2> QED
    BY <1>1, <2>1, OthersStandStill, RecoveryIsAlone
<1>2. CASE TearDown
  BY <1>2, RunnerAssumption DEF TearDown, Goto
<1>3. CASE RunnerDies
  BY <1>3 DEF RunnerDies, Return, Goto
<1>4. CASE RunStep /\ ~TearDown /\ ~RunnerDies
  <2>1. step' = step /\ (pc' \notin Stopping => pc \notin Stopping)
    BY <1>4 DEF RunStep, OpenStream, OpenInterrupted, CancelUnreadableFails,
       OpenGivesUp, OpenRefused, BeginRun, BeginFails, BuildUnsigned, PinTxID,
       JournalVerify, CallVerify, VerifyAnswered, TakeReceipt, GateOpens,
       StartSigning, AskWallet, WalletReturns, AcceptSigned, FinalizeTx,
       EnterPublishing, CallPublish, PublishAnswered, FinishPublish, PublishFails,
       WindowFails, StopBeforePublish, TornDown, recVars, PublishSteps, Window
  <2> QED
    BY <2>1
<1>5. CASE LndStep \/ Over \/ UNCHANGED vars
  BY <1>5 DEF LndStep, Over, vars, recVars, runVars
<1> QED
  BY <1>1, <1>2, <1>3, <1>4, <1>5 DEF Next
----------------------------------------------------------------------------
(* The gate *)

LEMMA RunKeepsStanding ==
  ASSUME Inv, AloneInv, StandInv, RunStep
  PROVE  StandInv'
<1> USE DEF Inv, TypeOK, LndTypeOK, JTypeOK, StandInv, Received, Standing, Stopping,
            PastGate, Called, PublishSteps, MayBePublished
<1>1. ASSUME NEW c \in Channels,
             OpenStream(c) \/ OpenInterrupted(c) \/ CancelUnreadableFails(c)
      PROVE  StandInv'
  BY <1>1 DEF OpenStream, OpenInterrupted, CancelUnreadableFails, OpenGivesUp,
     RegisterShim, jvars, recVars
<1>2. CASE OpenRefused \/ BeginRun \/ BeginFails
  BY <1>2 DEF OpenRefused, OpenGivesUp, BeginRun, Begin, BeginFails, jvars, lndVars,
     recVars
<1>3. CASE (\E t \in TxIds : BuildUnsigned(t)) \/ PinTxID
  BY <1>3 DEF BuildUnsigned, PinTxID, RecordPinnedTxID, jvars, lndVars, recVars
<1>4. ASSUME NEW c \in Channels, JournalVerify(c) PROVE StandInv'
  BY <1>4 DEF JournalVerify, MarkVerified, lndVars, recVars
<1>5. CASE CallVerify \/ VerifyAnswered
  BY <1>5 DEF CallVerify, SendVerify, VerifyAnswered, jvars, lndVars, recVars
<1>6. ASSUME NEW c \in Channels, TakeReceipt(c) PROVE StandInv'
  <2>1. Received(c)'
    BY <1>6 DEF TakeReceipt, ReceiptFor, MarkPending, lndVars
  <2>2. \A d \in Channels : Received(d) => Received(d)'
    BY <1>6 DEF TakeReceipt, MarkPending, lndVars
  <2> QED
    BY <1>6, <2>1, <2>2 DEF TakeReceipt, MarkPending, lndVars, recVars
<1>7. CASE GateOpens \/ StartSigning \/ AskWallet
  BY <1>7 DEF GateOpens, StartSigning, MarkSigning, AskWallet, RecordSigner, jvars,
     lndVars, recVars
<1>8. CASE (\E f \in Files : WalletReturns(f)) \/ AcceptSigned \/ FinalizeTx
  BY <1>8 DEF WalletReturns, AcceptSigned, RecordSigner, FinalizeTx,
     RecordFinalizedTx, jvars, lndVars, recVars
<1>9. CASE EnterPublishing
  BY <1>9 DEF EnterPublishing, MarkPublishing, AloneInv, lndVars, recVars
<1>10. CASE CallPublish \/ PublishAnswered
  BY <1>10 DEF CallPublish, SendPublish, PublishAnswered, jvars, lndVars, recVars
<1>11. CASE FinishPublish \/ PublishFails
  BY <1>11 DEF FinishPublish, MarkPublished, PublishFails, jvars, lndVars, recVars
<1>12. CASE WindowFails \/ StopBeforePublish \/ TornDown
  BY <1>12 DEF WindowFails, Window, StopBeforePublish, TornDown, jvars, lndVars,
     recVars
<1>13. CASE TearDown
  BY <1>13 DEF TearDown, jvars, lndVars
<1>14. CASE RunnerDies
  <2>1. \A p \in Procs : step'[p] = "idle" \/ (step'[p] = step[p] /\ seen'[p] = seen[p])
    BY <1>14 DEF RunnerDies, Return, Goto, RecTypeOK
  <2> QED
    BY <1>14, <2>1 DEF RunnerDies, RunnerStopped, jvars, lndVars
<1> QED
  BY <1>1, <1>2, <1>3, <1>4, <1>5, <1>6, <1>7, <1>8, <1>9, <1>10, <1>11, <1>12,
     <1>13, <1>14 DEF RunStep

LEMMA LndKeepsStanding ==
  ASSUME Inv, RowsInv, StandInv, LndStep
  PROVE  StandInv'
<1> USE DEF Inv, TypeOK, LndTypeOK, StandInv, Received, Standing
<1>0. UNCHANGED <<runState, chanState, pc, todo, step, seen>>
  BY DEF LndStep, jvars, runVars
<1>1. ASSUME NEW c \in Channels, ActOnVerify(c, built) PROVE StandInv'
  BY <1>0, <1>1 DEF ActOnVerify
<1>2. ASSUME NEW c \in Channels, FundingSigned(c) PROVE StandInv'
  BY <1>0, <1>2 DEF FundingSigned
<1>3. ASSUME NEW c \in Channels, PeerFails(c) PROVE StandInv'
  BY <1>0, <1>3, DroppedStreams DEF PeerFails, DropShim, Unopened
<1>4. ASSUME NEW c \in Channels, StreamBreaks(c) PROVE StandInv'
  BY <1>0, <1>4 DEF StreamBreaks
<1>5. CASE LndRestarts
  BY <1>0, <1>5, RestartedStreams DEF LndRestarts, Unopened
<1>6. ASSUME NEW a \in BOOLEAN, ActOnPublish(a) PROVE StandInv'
  BY <1>0, <1>6 DEF ActOnPublish
<1>7. CASE Confirm
  BY <1>0, <1>7 DEF Confirm
<1> QED
  BY <1>1, <1>2, <1>3, <1>4, <1>5, <1>6, <1>7 DEF LndStep

(***************************************************************************)
(* With a transaction that may be public an abort reads, and gives up.     *)
(***************************************************************************)
LEMMA PublicIsLeftAlone ==
  ASSUME RecTypeOK, NEW p \in Procs, RecoveryStep(p), MayBePublished(runState),
         \/ step[p] \in {"idle", "load"}
         \/ step[p] = "rows" /\ MayBePublished(seen[p])
  PROVE  /\ UNCHANGED <<jvars, lndVars>>
         /\ \/ step'[p] \in {"idle", "load"}
            \/ step'[p] = "rows" /\ MayBePublished(seen'[p])
<1>1. \/ LoadRun(p) \/ RefuseTarget(p) \/ JournalFails(p) \/ RecoverCommand(p)
      \/ RecoverDies(p)
  BY DEF RecoveryStep, RecoverStep, AbortStep, LoadRows, MarkAborting, AbandonSafely,
     SafeFlagDeclined, AbandonFails, CancelShim, CancelFails, LookupPending,
     LookupNotPending, OperatorConfirms, AbandonBluntly, AbortDone, RecordOutcome,
     ReloadRun, LeftStanding, CloseRun
<1> QED
  BY <1>1 DEF LoadRun, RefuseTarget, JournalFails, RecoverCommand, RecoverDies,
     Return, Goto, RecTypeOK

(***************************************************************************)
(* What an abort does to LND's channels and streams, and to the run.       *)
(***************************************************************************)
LEMMA RecoveryOnLnd ==
  ASSUME LndTypeOK, RecTypeOK, NEW p \in Procs, RecoveryStep(p)
  PROVE  /\ \A c \in Channels :
              /\ chan'[c] = chan[c] \/ (Standing(c) /\ chan'[c] = "abandoned")
              /\ stream'[c] = "receipt" => stream[c] = "receipt"
         /\ runState' \in {runState, "aborting", "aborted"}
<1> USE DEF LndTypeOK, RecTypeOK
<1> DEFINE Kept == \A c \in Channels :
             /\ chan'[c] = chan[c] \/ (Standing(c) /\ chan'[c] = "abandoned")
             /\ stream'[c] = "receipt" => stream[c] = "receipt"
<1>1. ASSUME UNCHANGED lndVars PROVE Kept
  BY <1>1 DEF lndVars
<1>2. ASSUME NEW c \in Channels, DropShim(c) \/ RemoveChannel(c) PROVE Kept
  BY <1>2, DroppedStreams DEF DropShim, RemoveChannel, Unopened
<1>3. ASSUME NEW c \in Channels,
             \/ AbandonSafely(p, c) \/ SafeFlagDeclined(p, c) \/ AbandonFails(p, c)
             \/ CancelShim(p, c) \/ CancelFails(p, c)
      PROVE  Kept /\ runState' = runState
  <2>1. UNCHANGED lndVars \/ DropShim(c) \/ RemoveChannel(c)
    BY <1>3 DEF AbandonSafely, SafeFlagDeclined, AbandonFails, CancelShim, CancelFails
  <2>2. runState' = runState
    BY <1>3 DEF AbandonSafely, SafeFlagDeclined, AbandonFails, CancelShim,
       CancelFails, ChannelDone, jvars
  <2> QED
    BY <1>1, <1>2, <2>1, <2>2
<1>4. CASE AbandonBluntly(p)
  <2>1. at[p] \in Channels /\ RemoveChannel(at[p]) /\ runState' = runState
    BY <1>4 DEF AbandonBluntly, ChannelDone, jvars
  <2> QED
    BY <1>2, <2>1
<1>5. CASE \/ LoadRun(p) \/ RefuseTarget(p) \/ LoadRows(p) \/ MarkAborting(p)
           \/ LookupPending(p) \/ LookupNotPending(p) \/ OperatorConfirms(p)
           \/ AbortDone(p) \/ RecordOutcome(p) \/ ReloadRun(p) \/ LeftStanding(p)
           \/ CloseRun(p) \/ JournalFails(p) \/ RecoverCommand(p) \/ RecoverDies(p)
  <2>1. UNCHANGED lndVars
    BY <1>5 DEF LoadRun, RefuseTarget, LoadRows, MarkAborting, LookupPending,
       LookupNotPending, OperatorConfirms, AbortDone, RecordOutcome, ReloadRun,
       LeftStanding, CloseRun, JournalFails, RecoverCommand, RecoverDies
  <2>2. runState' \in {runState, "aborting", "aborted"}
    BY <1>5 DEF LoadRun, RefuseTarget, LoadRows, MarkAborting, SetAborting,
       LookupPending, LookupNotPending, ChannelDone, OperatorConfirms, AbortDone,
       RecordOutcome, RecordAbort, ReloadRun, LeftStanding, CloseRun, SetAborted,
       JournalFails, RecoverCommand, RecoverDies, jvars
  <2> QED
    BY <1>1, <2>1, <2>2
<1> QED
  BY <1>3, <1>4, <1>5 DEF RecoveryStep, RecoverStep, AbortStep

LEMMA RecoveryKeepsStanding ==
  ASSUME ~Overlap, Inv, AloneInv, StandInv, NEW p \in Procs, RecoveryStep(p)
  PROVE  StandInv'
<1>1. /\ LndTypeOK /\ RecTypeOK
      /\ UNCHANGED <<pc, todo, wire, mempool>> /\ pc \in Stopping
  BY RecoveryIsAlone, RecoveryKeepsPins DEF Inv, TypeOK, pinVars, runVars
<1>2. CASE MayBePublished(runState)
  <2>1. /\ UNCHANGED <<jvars, lndVars>>
        /\ \/ step'[p] \in {"idle", "load"}
           \/ step'[p] = "rows" /\ MayBePublished(seen'[p])
    BY <1>1, <1>2, PublicIsLeftAlone DEF StandInv
  <2>2. \A q \in Procs : q = p \/ (step'[q] = step[q] /\ seen'[q] = seen[q])
    BY <1>1, OthersStandStill
  <2> QED
    BY <1>1, <1>2, <2>1, <2>2 DEF StandInv, Received, Standing, jvars, lndVars
<1>3. CASE ~MayBePublished(runState)
  <2>1. ~MayBePublished(runState')
    BY <1>1, <1>3, RecoveryOnLnd DEF MayBePublished
  <2> QED
    BY <1>1, <1>3, <2>1, RecoveryOnLnd
    DEF StandInv, Standing, Stopping, PastGate, PublishSteps, Called, LndTypeOK
<1> QED
  BY <1>2, <1>3

LEMMA StandInductive ==
  ASSUME ~Overlap
  PROVE  Spec => [](AloneInv /\ StandInv)
<1>1. Init => AloneInv /\ StandInv
  BY NoTxAssumption
  DEF Init, JInit, LndInit, RecInit, AloneInv, StandInv, PastGate, PublishSteps,
      Called, MayBePublished
<1>2. Inv /\ RowsInv /\ AloneInv /\ StandInv /\ [Next]_vars => AloneInv' /\ StandInv'
  <2> SUFFICES ASSUME Inv, RowsInv, AloneInv, StandInv, [Next]_vars
               PROVE  AloneInv' /\ StandInv'
    OBVIOUS
  <2>1. ASSUME UNCHANGED vars PROVE StandInv'
    BY <2>1 DEF vars, jvars, lndVars, recVars, runVars, StandInv, Received, Standing
  <2> QED
    BY <2>1, AloneStep, RunKeepsStanding, LndKeepsStanding, RecoveryKeepsStanding
    DEF Next, Over
<1> QED
  BY <1>1, <1>2, InvInductive, RowsInductive, PTL DEF Spec
----------------------------------------------------------------------------
(* The abort *)

LEMMA RunKeepsAborts ==
  ASSUME Inv, AloneInv, StandInv, AbortInv, RunStep
  PROVE  AbortInv'
<1> USE DEF AbortInv, AbortOf, Reading, Settled, Existed, Stopping
<1>1. /\ JTypeOK /\ LndTypeOK /\ RecTypeOK
      /\ \A p \in Procs : target[p] \in Targets /\ report[p] \in Reports
  BY DEF Inv, TypeOK, RecTypeOK
<1>2. ASSUME UNCHANGED <<runState, chanState, chan, recVars>>, pc \notin Stopping
      PROVE  AbortInv'
  BY <1>2 DEF recVars
<1>3. CASE \/ \E c \in Channels : \/ OpenStream(c) \/ OpenInterrupted(c)
                                  \/ CancelUnreadableFails(c)
           \/ OpenRefused \/ BeginFails \/ (\E t \in TxIds : BuildUnsigned(t))
           \/ PinTxID \/ CallVerify \/ VerifyAnswered \/ GateOpens
  BY <1>2, <1>3 DEF OpenStream, OpenInterrupted, CancelUnreadableFails, OpenGivesUp,
     RegisterShim, OpenRefused, BeginFails, BuildUnsigned, PinTxID,
     RecordPinnedTxID, CallVerify, SendVerify, VerifyAnswered, GateOpens, jvars,
     lndVars
<1>4. CASE \/ AskWallet \/ (\E f \in Files : WalletReturns(f)) \/ AcceptSigned
           \/ FinalizeTx \/ CallPublish \/ PublishAnswered \/ PublishFails
           \/ WindowFails \/ StopBeforePublish
  BY <1>2, <1>4 DEF AskWallet, WalletReturns, AcceptSigned, RecordSigner, FinalizeTx,
     RecordFinalizedTx, CallPublish, SendPublish, PublishAnswered, PublishFails,
     WindowFails, StopBeforePublish, Window, PublishSteps, jvars, lndVars
<1>5. CASE StartSigning \/ EnterPublishing \/ FinishPublish
  BY <1>5 DEF StartSigning, MarkSigning, EnterPublishing, MarkPublishing,
     FinishPublish, MarkPublished, lndVars, recVars
<1>6. CASE BeginRun
  BY <1>1, <1>6 DEF BeginRun, Begin, AloneInv, JTypeOK, lndVars, recVars
<1>7. ASSUME NEW c \in Channels, JournalVerify(c) PROVE AbortInv'
  BY <1>1, <1>7 DEF JournalVerify, MarkVerified, AloneInv, JTypeOK, lndVars, recVars
<1>8. ASSUME NEW c \in Channels, TakeReceipt(c) PROVE AbortInv'
  <2>1. Existed(c)
    BY <1>8 DEF TakeReceipt, ReceiptFor, StandInv
  <2> QED
    BY <1>1, <1>8, <2>1 DEF TakeReceipt, MarkPending, AloneInv, JTypeOK, lndVars,
       recVars
<1>9. CASE TearDown
  BY <1>1, <1>9 DEF TearDown, Goto, RecTypeOK, jvars, lndVars
<1>10. CASE TornDown
  BY <1>10 DEF TornDown, jvars, lndVars, recVars
<1>11. CASE RunnerDies
  <2>1. \A p \in Procs :
          \/ /\ step'[p] = "idle" /\ target'[p] = EmptyTarget
             /\ report'[p] = EmptyReport
          \/ /\ step'[p] = step[p] /\ seen'[p] = seen[p] /\ at'[p] = at[p]
             /\ target'[p] = target[p] /\ report'[p] = report[p]
    BY <1>1, <1>11 DEF RunnerDies, Return, Goto, RecTypeOK
  <2> QED
    BY <1>11, <2>1 DEF RunnerDies, EmptyTarget, EmptyReport, jvars, lndVars
<1> QED
  BY <1>3, <1>4, <1>5, <1>6, <1>7, <1>8, <1>9, <1>10, <1>11 DEF RunStep

LEMMA LndKeepsAborts ==
  ASSUME Inv, RowsInv, AbortInv, LndStep
  PROVE  AbortInv'
<1>1. LndTypeOK /\ RecTypeOK
  BY DEF Inv, TypeOK
<1>2. UNCHANGED <<runState, chanState, pc, step, seen, target, at, report>>
  BY DEF LndStep, jvars, runVars
<1>3. \A c \in Channels : /\ chan[c] = "abandoned" => chan'[c] = "abandoned"
                          /\ Existed(c) => Existed(c)'
  <2>1. ASSUME NEW d \in Channels, FundingSigned(d)
        PROVE  chan[d] = "none" /\ chan' = [chan EXCEPT ![d] = "pending"]
    BY <2>1 DEF FundingSigned, RowsInv, ChannelOf
  <2>2. CASE Confirm
    BY <1>1, <2>2 DEF Confirm, Existed, LndTypeOK
  <2>3. ASSUME ~Confirm, \A d \in Channels : ~FundingSigned(d)
        PROVE  chan' = chan
    BY <2>3 DEF LndStep, ActOnVerify, PeerFails, DropShim, ActOnPublish,
       StreamBreaks, LndRestarts
  <2> QED
    BY <1>1, <2>1, <2>2, <2>3 DEF Existed, LndTypeOK
<1>4. \A p \in Procs : AbortOf(p)'
  <2> SUFFICES ASSUME NEW p \in Procs PROVE AbortOf(p)'
    OBVIOUS
  <2>1. target[p] \in Targets /\ report[p] \in Reports
    BY <1>1 DEF RecTypeOK
  <2>2. step[p] \in {"lookup", "confirm", "blunt"} => at[p] \in Channels
    BY <1>1 DEF RecTypeOK
  <2> QED
    BY <1>2, <1>3, <2>1, <2>2 DEF AbortInv, AbortOf, Settled, Targets, Reports
<1> QED
  BY <1>2, <1>3, <1>4 DEF AbortInv, Settled, Reading

(***************************************************************************)
(* What one step of an abort makes of what it knows.                       *)
(***************************************************************************)
LEMMA AbortOfStep ==
  ASSUME LndTypeOK, RecTypeOK, JTypeOK, AbortInv, NEW p \in Procs, RecoveryStep(p)
  PROVE  AbortOf(p)'
<1> USE DEF AbortOf
<1>1. /\ target[p] \in Targets /\ report[p] \in Reports /\ AbortOf(p)
      /\ step[p] \in {"lookup", "confirm", "blunt"} => at[p] \in Channels
  BY DEF RecTypeOK, AbortInv
<1>2. \A c \in Channels : /\ chan[c] = "abandoned" => chan'[c] = "abandoned"
                          /\ Existed(c) => Existed(c)'
                          /\ Existed(c) /\ ~Standing(c) => chan[c] = "abandoned"
  BY RecoveryOnLnd DEF Existed, Standing, LndTypeOK
<1>3. ASSUME target'[p] = EmptyTarget, report'[p] = EmptyReport, step'[p] = "idle"
      PROVE  AbortOf(p)'
  BY <1>3 DEF EmptyTarget, EmptyReport
<1>4. ASSUME Return(p) PROVE AbortOf(p)'
  BY <1>3, <1>4 DEF Return, Goto, RecTypeOK
<1>5. ASSUME target'[p].channels \subseteq target[p].channels,
             report'[p].abandoned = report[p].abandoned,
             step'[p] # "close",
             step'[p] \in {"lookup", "confirm", "blunt"} =>
               step[p] \in {"lookup", "confirm", "blunt"} /\ at'[p] = at[p]
      PROVE  AbortOf(p)'
  BY <1>1, <1>2, <1>5 DEF Targets, Reports
<1>6. CASE \/ LoadRun(p) \/ MarkAborting(p) \/ LookupPending(p)
           \/ OperatorConfirms(p) \/ AbortDone(p) \/ ReloadRun(p)
           \/ RecoverCommand(p)
  BY <1>5, <1>6 DEF LoadRun, MarkAborting, LookupPending, OperatorConfirms,
     AbortDone, ReloadRun, RecoverCommand, Goto, RecTypeOK
<1>7. CASE \/ RefuseTarget(p) \/ CloseRun(p) \/ JournalFails(p) \/ RecoverDies(p)
  BY <1>4, <1>7 DEF RefuseTarget, CloseRun, JournalFails, RecoverDies
<1>8. CASE LoadRows(p)
  <2>1. /\ target'[p].channels = TargetChannels(chanState)
        /\ report' = report /\ step'[p] \in {"work", "mark"}
    BY <1>8 DEF LoadRows, Goto, RecTypeOK
  <2> QED
    BY <1>1, <1>2, <2>1 DEF TargetChannels, AbortInv, Reports
<1>9. ASSUME NEW c \in Channels, SafeFlagDeclined(p, c) PROVE AbortOf(p)'
  <2>1. /\ UNCHANGED <<target, report>> /\ step'[p] = "lookup" /\ at'[p] = c
        /\ Existed(c)
    BY <1>9 DEF SafeFlagDeclined, Goto, RecTypeOK, Standing, Existed
  <2> QED
    BY <1>1, <1>2, <2>1 DEF Targets, Reports
<1>10. ASSUME NEW c \in Channels, ChannelDone(p, c)
       PROVE  step'[p] = "work" /\ target'[p].channels = target[p].channels \ {c}
  BY <1>1, <1>10 DEF ChannelDone, Goto, RecTypeOK, Targets
<1>11. ASSUME NEW c \in Channels, Abandoned(p, c)
       PROVE  report'[p].abandoned = report[p].abandoned \cup {c}
  BY <1>1, <1>11 DEF Abandoned, RecTypeOK, Reports
<1>12. ASSUME Failed(p) PROVE report'[p].abandoned = report[p].abandoned
  BY <1>1, <1>12 DEF Failed, RecTypeOK, Reports
<1>13. ASSUME NEW c \in Channels, AbandonFails(p, c) PROVE AbortOf(p)'
  BY <1>5, <1>10, <1>12, <1>13 DEF AbandonFails
<1>14. CASE LookupNotPending(p)
  BY <1>1, <1>5, <1>10, <1>12, <1>14 DEF LookupNotPending
<1>15. ASSUME NEW c \in Channels, ChannelDone(p, c), Abandoned(p, c),
              chan'[c] = "abandoned"
       PROVE  AbortOf(p)'
  BY <1>1, <1>2, <1>10, <1>11, <1>15 DEF Targets, Reports
<1>16. ASSUME NEW c \in Channels, AbandonSafely(p, c) PROVE AbortOf(p)'
  BY <1>1, <1>2, <1>15, <1>16 DEF AbandonSafely
<1>17. CASE AbandonBluntly(p)
  <2>1. at[p] \in Channels /\ Existed(at[p])
    BY <1>1, <1>17 DEF AbandonBluntly
  <2>2. chan'[at[p]] = "abandoned"
    BY <1>2, <1>17, <2>1 DEF AbandonBluntly, RemoveChannel, LndTypeOK
  <2> QED
    BY <1>15, <1>17, <2>1, <2>2 DEF AbandonBluntly
<1>18. ASSUME NEW c \in Channels, CancelShim(p, c) \/ CancelFails(p, c)
       PROVE  AbortOf(p)'
  <2>1. /\ step' = step /\ at' = at /\ step[p] = "work"
        /\ target'[p].channels = target[p].channels
    BY <1>1, <1>18 DEF CancelShim, CancelFails, RecTypeOK, Targets
  <2>2. report'[p].abandoned = report[p].abandoned
    BY <1>1, <1>12, <1>18 DEF CancelShim, CancelFails, RecTypeOK, Reports
  <2> QED
    BY <1>5, <2>1, <2>2
<1>19. CASE RecordOutcome(p)
  <2>1. CASE ~Return(p)
    BY <1>5, <1>19, <2>1 DEF RecordOutcome, Goto, RecTypeOK
  <2> QED
    BY <1>4, <2>1
<1>20. CASE LeftStanding(p)
  <2>1. CASE ~Return(p)
    <3>1. /\ step'[p] = "close" /\ UNCHANGED <<target, report, jvars>>
          /\ TargetChannels(chanState) = {} /\ TargetShims(chanState) = {}
      BY <1>20, <2>1 DEF LeftStanding, Goto, RecTypeOK
    <3>2. Settled
      BY <3>1 DEF TargetChannels, TargetShims, Settled, JTypeOK, ChannelStates
    <3> QED
      BY <1>1, <1>2, <3>1, <3>2 DEF Targets, Reports, Settled, jvars
  <2> QED
    BY <1>4, <2>1
<1> QED
  BY <1>6, <1>7, <1>8, <1>9, <1>13, <1>14, <1>16, <1>17, <1>18, <1>19, <1>20
  DEF RecoveryStep, RecoverStep, AbortStep

(***************************************************************************)
(* The rows after a step of an abort.                                      *)
(***************************************************************************)
LEMMA RowsOfStep ==
  ASSUME JTypeOK, NEW p \in Procs, RecoveryStep(p)
  PROVE  \/ chanState' = chanState
         \/ /\ step[p] = "record"
            /\ \A c \in Channels :
                 /\ chanState'[c] = "pending" => chanState[c] = "pending"
                 /\ chanState'[c] = "abandoned" =>
                      chanState[c] = "abandoned" \/ c \in report[p].abandoned
<1>1. CASE RecordOutcome(p)
  BY <1>1 DEF RecordOutcome, RecordAbort, JTypeOK
<1>2. CASE ~RecordOutcome(p)
  BY <1>2 DEF RecoveryStep, RecoverStep, AbortStep, RecoverCommand, RecoverDies,
     LoadRun, RefuseTarget, LoadRows, MarkAborting, SetAborting, AbandonSafely,
     SafeFlagDeclined, AbandonFails, CancelShim, CancelFails, ChannelDone,
     LookupPending, LookupNotPending, OperatorConfirms, AbandonBluntly, AbortDone,
     ReloadRun, LeftStanding, CloseRun, SetAborted, JournalFails, jvars
<1> QED
  BY <1>1, <1>2

(***************************************************************************)
(* A run is closed by the one abort there is, and what another then reads  *)
(* is settled; it can only start the abort again.                          *)
(***************************************************************************)
LEMMA AbortedStep ==
  ASSUME ~Overlap, RecTypeOK, AloneInv, AbortInv, NEW p \in Procs, RecoveryStep(p),
         runState' = "aborted"
  PROVE  Settled' /\ \A q \in Procs : Reading(q)'
<1>1. \A q \in Procs : \/ q = p
                       \/ step[q] = "idle" /\ step'[q] = "idle"
  BY OthersStandStill, RecoveryIsAlone
<1>2. CASE CloseRun(p)
  <2>1. step'[p] = "idle" /\ chanState' = chanState /\ Settled
    BY <1>2 DEF CloseRun, SetAborted, Return, Goto, RecTypeOK, AbortInv, AbortOf
  <2> QED
    BY <1>1, <2>1 DEF Settled, Reading
<1>3. CASE ~CloseRun(p)
  <2>1. runState = "aborted"
    BY <1>3 DEF RecoveryStep, RecoverStep, AbortStep, RecoverCommand, RecoverDies,
       LoadRun, RefuseTarget, LoadRows, MarkAborting, SetAborting, AbandonSafely,
       SafeFlagDeclined, AbandonFails, CancelShim, CancelFails, ChannelDone,
       LookupPending, LookupNotPending, OperatorConfirms, AbandonBluntly, AbortDone,
       RecordOutcome, RecordAbort, ReloadRun, LeftStanding, JournalFails, jvars
  <2>2. Settled /\ Reading(p)
    BY <2>1 DEF AbortInv
  <2>3. \/ LoadRun(p) \/ RefuseTarget(p) \/ LoadRows(p) \/ JournalFails(p)
        \/ RecoverCommand(p) \/ RecoverDies(p)
    BY <1>3, <2>2 DEF Reading, RecoveryStep, RecoverStep, AbortStep, MarkAborting,
       SetAborting, AbandonSafely, SafeFlagDeclined, AbandonFails, CancelShim,
       CancelFails, LookupPending, LookupNotPending, OperatorConfirms,
       AbandonBluntly, AbortDone, RecordOutcome, ReloadRun, LeftStanding
  <2>4. chanState' = chanState /\ Reading(p)'
    BY <2>1, <2>2, <2>3 DEF Reading, LoadRun, RefuseTarget, LoadRows, JournalFails,
       RecoverCommand, RecoverDies, Return, Goto, RecTypeOK, jvars
  <2> QED
    BY <1>1, <2>2, <2>4 DEF Settled, Reading
<1> QED
  BY <1>2, <1>3

LEMMA RecoveryKeepsAborts ==
  ASSUME ~Overlap, Inv, AloneInv, AbortInv, NEW p \in Procs, RecoveryStep(p)
  PROVE  AbortInv'
<1>1. JTypeOK /\ LndTypeOK /\ RecTypeOK /\ UNCHANGED pc /\ pc \in Stopping
  BY RecoveryIsAlone, RecoveryKeepsPins DEF Inv, TypeOK, pinVars, runVars
<1>2. \A c \in Channels : /\ chan[c] = "abandoned" => chan'[c] = "abandoned"
                          /\ Existed(c) => Existed(c)'
  BY <1>1, RecoveryOnLnd DEF Existed, Standing
<1>3. \A c \in Channels : /\ chanState'[c] = "pending" => Existed(c)'
                          /\ chanState'[c] = "abandoned" => chan'[c] = "abandoned"
  BY <1>1, <1>2, RowsOfStep DEF AbortInv, AbortOf
<1>4. ASSUME NEW q \in Procs PROVE AbortOf(q)'
  <2>1. CASE q = p
    BY <1>1, <2>1, AbortOfStep
  <2>2. CASE q # p
    <3>1. step[q] = "idle" /\ target[q] \in Targets /\ report[q] \in Reports
      BY <1>1, <2>2, RecoveryIsAlone DEF RecTypeOK
    <3>2. step'[q] = "idle" /\ target'[q] = target[q] /\ report'[q] = report[q]
      BY <1>1, <2>2, <3>1, OthersStandStill
    <3> QED
      BY <1>2, <3>1, <3>2 DEF AbortInv, AbortOf, Targets, Reports
  <2> QED
    BY <2>1, <2>2
<1> QED
  BY <1>1, <1>3, <1>4, AbortedStep DEF AbortInv

LEMMA AbortInductive ==
  ASSUME ~Overlap
  PROVE  Spec => []AbortInv
<1>1. Init => AbortInv
  BY DEF Init, JInit, LndInit, RecInit, AbortInv, AbortOf, EmptyTarget, EmptyReport
<1>2. Inv /\ RowsInv /\ AloneInv /\ StandInv /\ AbortInv /\ [Next]_vars => AbortInv'
  <2>1. ASSUME AbortInv, UNCHANGED vars PROVE AbortInv'
    BY <2>1 DEF vars, jvars, lndVars, recVars, runVars, AbortInv, AbortOf, Settled,
       Existed, Reading
  <2> QED
    BY <2>1, RunKeepsAborts, LndKeepsAborts, RecoveryKeepsAborts DEF Next, Over
<1> QED
  BY <1>1, <1>2, InvInductive, RowsInductive, StandInductive, PTL DEF Spec
----------------------------------------------------------------------------
(***************************************************************************)
(* I-1: while the transaction may be public every channel it funds is in   *)
(* LND's database, and the journal has said so.                            *)
(***************************************************************************)
THEOREM PublicStands ==
  ASSUME ~Overlap
  PROVE  Spec => []PublicIsRecoverable
<1>1. StandInv => PublicIsRecoverable
  BY DEF StandInv, PublicIsRecoverable
<1> QED
  BY <1>1, StandInductive, PTL

(***************************************************************************)
(* A wallet returns a file only when every channel is pending, in LND and  *)
(* in the journal.                                                         *)
(***************************************************************************)
THEOREM SignedAfterTheGate ==
  ASSUME ~Overlap
  PROVE  Spec => NothingSignedEarly
<1>1. Inv /\ StandInv /\ [Next]_vars =>
        (file' # file => \A c \in Channels : chan[c] = "pending" /\ chanState[c] = "pending")
  <2> SUFFICES ASSUME Inv, StandInv, [Next]_vars, file' # file
               PROVE  \A c \in Channels : chan[c] = "pending" /\ chanState[c] = "pending"
    OBVIOUS
  <2>1. pc = "sign"
    <3>1. ASSUME NEW p \in Procs, RecoveryStep(p) PROVE file' = file
      BY <3>1, RecoveryKeepsPins DEF pinVars, runVars
    <3>2. ASSUME LndStep \/ Over \/ UNCHANGED vars PROVE file' = file
      BY <3>2 DEF LndStep, Over, vars, runVars
    <3>3. ASSUME RunStep, \A f \in Files : ~WalletReturns(f) PROVE file' = file
      BY <3>3 DEF RunStep, OpenStream, OpenInterrupted, CancelUnreadableFails,
         OpenGivesUp, OpenRefused, BeginRun, BeginFails, BuildUnsigned, PinTxID,
         JournalVerify, CallVerify, VerifyAnswered, TakeReceipt, GateOpens,
         StartSigning, AskWallet, AcceptSigned, FinalizeTx, EnterPublishing,
         CallPublish, PublishAnswered, FinishPublish, PublishFails, WindowFails,
         StopBeforePublish, TearDown, TornDown, RunnerDies
    <3> QED
      BY <3>1, <3>2, <3>3 DEF Next, WalletReturns
  <2> QED
    BY <2>1 DEF StandInv, PastGate, Received, Standing, Called
<1> QED
  BY <1>1, InvInductive, StandInductive, PTL DEF Spec, NothingSignedEarly

(***************************************************************************)
(* An aborted run has no channel in LND and no shim of a journalled one.   *)
(***************************************************************************)
THEOREM AbortedIsEmpty ==
  ASSUME ~Overlap
  PROVE  Spec => []AbortedLeavesNothing
<1>1. Inv /\ RowsInv /\ AbortInv => AbortedLeavesNothing
  BY DEF RowsInv, ChannelOf, RowOf, Empty, AbortInv, Settled, AbortedLeavesNothing,
     Rows, Standing
<1> QED
  BY <1>1, InvInductive, RowsInductive, AbortInductive, PTL

----------------------------------------------------------------------------
(***************************************************************************)
(* The refinement.  Channels become recoverable when the peer signs and    *)
(* are undone when an abort removes them; the one other step of BatchGate  *)
(* is the journal's row that says the transaction may be public.           *)
(***************************************************************************)
Funded(c, state) == Fund' = [Fund EXCEPT ![c] = state]

GateMoves ==
  \/ Fund' = Fund /\ (Public' <=> Public)
  \/ Fund' = Fund /\ Public' /\ \A c \in Channels : Fund[c] = "recoverable"
  \/ /\ ~Public /\ ~Public'
     /\ \E c \in Channels : \/ Fund[c] = "none" /\ Funded(c, "recoverable")
                            \/ Fund[c] = "recoverable" /\ Funded(c, "undone")

LEMMA SameFund ==
  ASSUME \A c \in Channels : /\ Standing(c)' <=> Standing(c)
                             /\ chan'[c] = "abandoned" <=> chan[c] = "abandoned"
  PROVE  Fund' = Fund
BY DEF Fund, Standing

LEMMA RunOnTheGate == ASSUME Inv, StandInv, RunStep PROVE GateMoves
<1> USE DEF GateMoves, Public, MayBePublished
<1>1. chan' = chan
  BY DEF RunStep, OpenStream, OpenInterrupted, CancelUnreadableFails, OpenGivesUp,
     RegisterShim, OpenRefused, BeginRun, BeginFails, BuildUnsigned, PinTxID,
     JournalVerify, CallVerify, SendVerify, VerifyAnswered, TakeReceipt, GateOpens,
     StartSigning, AskWallet, WalletReturns, AcceptSigned, FinalizeTx,
     EnterPublishing, CallPublish, SendPublish, PublishAnswered, FinishPublish,
     PublishFails, WindowFails, StopBeforePublish, TearDown, TornDown, RunnerDies,
     lndVars
<1>2. Fund' = Fund
  BY <1>1, SameFund DEF Standing
<1>3. CASE EnterPublishing
  BY <1>2, <1>3 DEF EnterPublishing, MarkPublishing, StandInv, PastGate, PublishSteps,
     Received, Fund
<1>4. CASE FinishPublish
  BY <1>2, <1>4 DEF FinishPublish, MarkPublished, StandInv, Called
<1>5. ASSUME NEW c \in Channels, TakeReceipt(c) PROVE GateMoves
  BY <1>2, <1>5 DEF TakeReceipt, MarkPending, StandInv, Called
<1>6. CASE BeginRun \/ StartSigning
  BY <1>2, <1>6 DEF BeginRun, Begin, StartSigning, MarkSigning, StandInv, Called
<1>7. CASE /\ RunStep /\ ~EnterPublishing /\ ~FinishPublish /\ ~BeginRun /\ ~StartSigning
           /\ \A c \in Channels : ~TakeReceipt(c)
  <2>1. runState' = runState
    BY <1>7 DEF RunStep, OpenStream, OpenInterrupted, CancelUnreadableFails,
       OpenGivesUp, OpenRefused, BeginFails, BuildUnsigned, PinTxID,
       RecordPinnedTxID, JournalVerify, MarkVerified, CallVerify, VerifyAnswered,
       GateOpens, AskWallet, RecordSigner, WalletReturns, AcceptSigned, FinalizeTx,
       RecordFinalizedTx, CallPublish, PublishAnswered, PublishFails, WindowFails,
       StopBeforePublish, TearDown, TornDown, RunnerDies, jvars
  <2> QED
    BY <1>2, <2>1
<1> QED
  BY <1>3, <1>4, <1>5, <1>6, <1>7

LEMMA LndOnTheGate == ASSUME Inv, RowsInv, StandInv, LndStep PROVE GateMoves
<1> USE DEF GateMoves, Public
<1>1. runState' = runState /\ LndTypeOK
  BY DEF LndStep, jvars, Inv, TypeOK
<1>2. ASSUME NEW c \in Channels, FundingSigned(c) PROVE GateMoves
  <2>1. chan[c] = "none" /\ chan' = [chan EXCEPT ![c] = "pending"]
    BY <1>2 DEF FundingSigned, RowsInv, ChannelOf
  <2>2. ~Public
    BY <2>1 DEF StandInv, Standing
  <2>3. Fund[c] = "none" /\ Funded(c, "recoverable")
    BY <1>1, <2>1 DEF Fund, Funded, Standing, LndTypeOK
  <2> QED
    BY <1>1, <2>2, <2>3
<1>3. CASE Confirm
  <2>1. Fund' = Fund
    BY <1>1, <1>3, SameFund DEF Confirm, Standing, LndTypeOK
  <2> QED
    BY <1>1, <2>1
<1>4. CASE ~Confirm /\ \A c \in Channels : ~FundingSigned(c)
  <2>1. chan' = chan
    BY <1>4 DEF LndStep, ActOnVerify, PeerFails, DropShim, ActOnPublish, StreamBreaks,
       LndRestarts
  <2> QED
    BY <1>1, <2>1, SameFund DEF Standing
<1> QED
  BY <1>2, <1>3, <1>4

(***************************************************************************)
(* An abort removes one channel at a time.                                 *)
(***************************************************************************)
LEMMA RecoveryRemovesOne ==
  ASSUME LndTypeOK, RecTypeOK, NEW p \in Procs, RecoveryStep(p)
  PROVE  chan' = chan \/ \E c \in Channels : RemoveChannel(c)
<1>1. CASE AbandonBluntly(p)
  BY <1>1 DEF AbandonBluntly, RecTypeOK
<1>2. CASE ~AbandonBluntly(p)
  BY <1>2 DEF RecoveryStep, RecoverStep, AbortStep, RecoverCommand, RecoverDies,
     LoadRun, RefuseTarget, LoadRows, MarkAborting, AbandonSafely, SafeFlagDeclined,
     AbandonFails, CancelShim, CancelFails, DropShim, LookupPending,
     LookupNotPending, OperatorConfirms, AbortDone, RecordOutcome, ReloadRun,
     LeftStanding, CloseRun, JournalFails, lndVars
<1> QED
  BY <1>1, <1>2

LEMMA RecoveryOnTheGate ==
  ASSUME Inv, StandInv, NEW p \in Procs, RecoveryStep(p)
  PROVE  GateMoves
<1>1. LndTypeOK /\ RecTypeOK
  BY DEF Inv, TypeOK
<1>2. CASE Public
  <2>1. UNCHANGED <<jvars, lndVars>>
    BY <1>1, <1>2, PublicIsLeftAlone DEF StandInv, Public
  <2> QED
    BY <2>1, SameFund DEF GateMoves, Public, Standing, jvars, lndVars
<1>3. CASE ~Public
  <2>1. ~Public'
    BY <1>1, <1>3, RecoveryOnLnd DEF Public, MayBePublished
  <2>2. CASE chan' = chan
    BY <1>3, <2>1, <2>2, SameFund DEF GateMoves, Standing
  <2>3. ASSUME NEW c \in Channels, RemoveChannel(c), chan' # chan PROVE GateMoves
    <3>1. Standing(c) /\ chan' = [chan EXCEPT ![c] = "abandoned"]
      BY <1>1, <2>3 DEF RemoveChannel, LndTypeOK
    <3>2. Fund[c] = "recoverable" /\ Funded(c, "undone")
      BY <1>1, <3>1 DEF Fund, Funded, Standing, LndTypeOK
    <3> QED
      BY <1>3, <2>1, <3>2 DEF GateMoves
  <2> QED
    BY <1>1, <2>2, <2>3, RecoveryRemovesOne
<1> QED
  BY <1>2, <1>3

(***************************************************************************)
(* The whole program, taken one recovery at a time, implements BatchGate:  *)
(* a batch is public or undone, never both, and never in part.             *)
(***************************************************************************)
THEOREM ImplementsTheGate ==
  ASSUME ~Overlap
  PROVE  Spec => KeepsTheGate
<1>1. Init => Gate!GateInit
  BY DEF Init, JInit, LndInit, Gate!GateInit, Fund, Public, Standing, MayBePublished
<1>2. Inv /\ RowsInv /\ StandInv /\ [Next]_vars => [Gate!GateNext]_Gate!gvars
  <2> SUFFICES ASSUME Inv, RowsInv, StandInv, [Next]_vars
               PROVE  [Gate!GateNext]_Gate!gvars
    OBVIOUS
  <2>1. ASSUME UNCHANGED vars PROVE GateMoves
    BY <2>1, SameFund DEF GateMoves, Public, Standing, vars, jvars, lndVars
  <2>2. GateMoves
    BY <2>1, RunOnTheGate, LndOnTheGate, RecoveryOnTheGate DEF Next, Over
  <2>3. Public \in BOOLEAN /\ Public' \in BOOLEAN
    BY DEF Public, MayBePublished
  <2>4. CASE Fund' = Fund /\ (Public' <=> Public)
    BY <2>3, <2>4 DEF Gate!gvars
  <2>5. CASE Fund' = Fund /\ Public' /\ \A c \in Channels : Fund[c] = "recoverable"
    <3>1. Public' = TRUE
      BY <2>3, <2>5
    <3>2. Gate!Publish
      BY <2>5, <3>1 DEF Gate!Publish
    <3> QED
      BY <3>2 DEF Gate!GateNext
  <2>6. ASSUME NEW c \in Channels, ~Public, ~Public',
               \/ Fund[c] = "none" /\ Funded(c, "recoverable")
               \/ Fund[c] = "recoverable" /\ Funded(c, "undone")
        PROVE  [Gate!GateNext]_Gate!gvars
    <3>1. Public' = Public
      BY <2>3, <2>6
    <3>2. Gate!BecomeRecoverable(c) \/ Gate!Undo(c)
      BY <2>6, <3>1 DEF Funded, Gate!BecomeRecoverable, Gate!Undo
    <3> QED
      BY <3>2 DEF Gate!GateNext
  <2> QED
    BY <2>2, <2>4, <2>5, <2>6 DEF GateMoves
<1> QED
  BY <1>1, <1>2, InvInductive, RowsInductive, StandInductive, PTL
  DEF Spec, KeepsTheGate, Gate!GateSpec
===========================================================================
