---------------------------- MODULE ArmedWindow ----------------------------
(***************************************************************************)
(* One run of `winthistle run` from the first funding stream to the        *)
(* publish call (run.Do, run.armWindow over arm.Open, arm.Verify,          *)
(* arm.Receipts and arm.Publish), with the journal it writes, the LND it   *)
(* drives and the recovery that takes it apart.  The order of the journal  *)
(* writes against the LND calls they describe is the subject, so each      *)
(* write and each call is a step of its own and the process may die, or be *)
(* interrupted, between any two of them.                                   *)
(*                                                                         *)
(* Abstracted: steps 1 to 4 that only read (the peer checks, the reserve,  *)
(* the plan and its verification) appear as the choice of a transaction    *)
(* that passed them; WindowFails stands for every check that says no and   *)
(* every call that returns an error.                                       *)
(***************************************************************************)
EXTENDS Recovery

CONSTANTS Runner,   \* the process that runs the batch; the others only recover
          Overlap   \* may a recover command start while the run is alive?

ASSUME RunnerAssumption == Runner \in Procs
ASSUME OverlapAssumption == Overlap \in BOOLEAN

VARIABLES pc,          \* where the run is
          openFailed,  \* arm.Open returned an error beside its streams
          todo,        \* streams the current loop has not finished
          cur,         \* the stream a psbt_verify is being made for
          built,       \* the unsigned transaction
          file,        \* what the signing wallet handed back
          told         \* pending channel ids named in an error message

runVars == <<pc, openFailed, todo, cur, built, file, told>>

vars == <<jvars, lndVars, recVars, runVars>>

NoFile == [tx |-> NoTx, signed |-> FALSE]

Files == [tx : TxIds, signed : BOOLEAN]

(* The steps of armWindow after Begin, whose errors lead to the teardown. *)
Window == {"build", "pin", "verify", "verify_rpc", "verify_wait", "receipts",
           "gate", "signing", "ask", "sign", "accept"}

PublishSteps == {"ready", "publishing", "publish_rpc", "publish_wait",
                 "mark_published"}

TypeOK ==
  /\ JTypeOK
  /\ LndTypeOK
  /\ RecTypeOK
  /\ pc \in {"open", "begin", "teardown", "tearing", "done", "dead"}
            \cup Window \cup PublishSteps
  /\ openFailed \in BOOLEAN
  /\ todo \in SUBSET Channels
  /\ cur \in Channels \cup {NoChannel}
  /\ built \in TxIds \cup {NoTx}
  /\ file \in Files \cup {NoFile}
  /\ told \in SUBSET Channels

Init ==
  /\ JInit
  /\ LndInit
  /\ RecInit
  /\ pc = "open"
  /\ openFailed = FALSE
  /\ todo = Channels
  /\ cur = NoChannel
  /\ built = NoTx
  /\ file = NoFile
  /\ told = {}

(* The streams LND answered for, and those of them that arm.Open returns. *)
Answered == {c \in Channels : stream[c] # "none"}

Opened == {c \in Answered : stream[c] # "unreadable"}

RunnerStopped == pc \in {"done", "dead"}

----------------------------------------------------------------------------
(* Step 2: the streams, and the first thing on disk *)

OpenStream(c) ==
  /\ pc = "open"
  /\ c \in todo
  /\ RegisterShim(c, "up")
  /\ todo' = todo \ {c}
  /\ pc' = IF todo' = {} THEN "begin" ELSE "open"
  /\ UNCHANGED <<openFailed, cur, built, file, told, jvars, recVars>>

(* Open gives up at the first stream that fails; what is open is journalled *)
(* all the same.                                                            *)
OpenGivesUp ==
  /\ pc = "open"
  /\ openFailed' = TRUE
  /\ pc' = IF Opened = {} THEN "teardown" ELSE "begin"
  /\ UNCHANGED <<todo, cur, built, file, jvars, recVars>>

(* The peer or LND refuses, and LND clears its own intent; or LND answers   *)
(* something that cannot be read, and cancelUnreadable cancels the shim.    *)
OpenRefused ==
  /\ OpenGivesUp
  /\ UNCHANGED <<told, lndVars>>

(* The cancel fails too, so the id is named in the error, and the stream is *)
(* not among those that Begin is given.                                     *)
CancelUnreadableFails(c) ==
  /\ c \in todo
  /\ OpenGivesUp
  /\ RegisterShim(c, "unreadable")
  /\ told' = told \cup {c}

(* Ctrl-C, or a lost connection, while the peer is still thinking: Recv     *)
(* returns an error and the intent stays registered.                        *)
OpenInterrupted(c) ==
  /\ c \in todo
  /\ OpenGivesUp
  /\ RegisterShim(c, "none")
  /\ UNCHANGED told

BeginRun ==
  /\ pc = "begin"
  /\ Begin(Opened)
  /\ pc' = IF openFailed THEN "teardown" ELSE "build"
  /\ UNCHANGED <<openFailed, todo, cur, built, file, told, lndVars, recVars>>

(* Mutant of BeginFails: the ids of the open streams are named, and what    *)
(* opening had to say is dropped for the journal's complaint.               *)
BeginFailsOverOpen ==
  /\ pc = "begin"
  /\ told' = Opened
  /\ pc' = "teardown"
  /\ UNCHANGED <<openFailed, todo, cur, built, file, jvars, lndVars, recVars>>

(* unjournalledStreams: the ids go in the error, beside what opening said. *)
BeginFails ==
  /\ pc = "begin"
  /\ told' = told \cup Opened
  /\ pc' = "teardown"
  /\ UNCHANGED <<openFailed, todo, cur, built, file, jvars, lndVars, recVars>>

----------------------------------------------------------------------------
(* Steps 3 to 5: the transaction, the pin, and psbt_verify per channel *)

BuildUnsigned(t) ==
  /\ pc = "build"
  /\ built' = t
  /\ pc' = "pin"
  /\ UNCHANGED <<openFailed, todo, cur, file, told, jvars, lndVars, recVars>>

PinTxID ==
  /\ pc = "pin"
  /\ RecordPinnedTxID(built)
  /\ todo' = Channels
  /\ pc' = "verify"
  /\ UNCHANGED <<openFailed, cur, built, file, told, lndVars, recVars>>

(* Mutant of JournalVerify: the row is left to be written after the call, *)
(* and no further than that.                                               *)
VerifyUnjournalled(c) ==
  /\ pc = "verify"
  /\ c \in todo
  /\ cur' = c
  /\ pc' = "verify_rpc"
  /\ UNCHANGED <<openFailed, todo, built, file, told, jvars, lndVars, recVars>>

(* The row first, the call second. *)
JournalVerify(c) ==
  /\ pc = "verify"
  /\ c \in todo
  /\ MarkVerified(c)
  /\ cur' = c
  /\ pc' = "verify_rpc"
  /\ UNCHANGED <<openFailed, todo, built, file, told, lndVars, recVars>>

CallVerify ==
  /\ pc = "verify_rpc"
  /\ SendVerify(cur)
  /\ pc' = "verify_wait"
  /\ UNCHANGED <<openFailed, todo, cur, built, file, told, jvars, recVars>>

VerifyAnswered ==
  /\ pc = "verify_wait"
  /\ cur \notin asked
  /\ committed[cur] # NoTx
  /\ todo' = IF todo = {cur} THEN Channels ELSE todo \ {cur}
  /\ pc' = IF todo = {cur} THEN "receipts" ELSE "verify"
  /\ cur' = NoChannel
  /\ UNCHANGED <<openFailed, built, file, told, jvars, lndVars, recVars>>

----------------------------------------------------------------------------
(* Step 6: the receipts and the gate *)

(* Mutant of ReceiptFor: a stream that ended after psbt_verify succeeded is *)
(* taken for a receipt, and PendingChannels is not asked.                   *)
ReceiptAssumed(c) == stream[c] \in {"receipt", "down"}

(* Mutant of ReceiptFor: psbt_verify is taken for the receipt. *)
VerifyIsReceipt(c) == committed[c] # NoTx

(* The receipt off the stream, or PendingChannels when the stream is gone. *)
ReceiptFor(c) ==
  \/ stream[c] = "receipt"
  \/ stream[c] = "down" /\ chan[c] = "pending"

TakeReceipt(c) ==
  /\ pc = "receipts"
  /\ c \in todo
  /\ ReceiptFor(c)
  /\ committed[c] = built
  /\ MarkPending(c, committed[c])
  /\ todo' = todo \ {c}
  /\ pc' = IF todo' = {} THEN "gate" ELSE "receipts"
  /\ UNCHANGED <<openFailed, cur, built, file, told, lndVars, recVars>>

(* The journal's own count is read back, and the backups are exported. *)
GateOpens ==
  /\ pc = "gate"
  /\ runState = "armed"
  /\ pc' = "signing"
  /\ UNCHANGED <<openFailed, todo, cur, built, file, told, jvars, lndVars, recVars>>

----------------------------------------------------------------------------
(* Step 7: signing *)

StartSigning ==
  /\ pc = "signing"
  /\ MarkSigning
  /\ pc' = "ask"
  /\ UNCHANGED <<openFailed, todo, cur, built, file, told, lndVars, recVars>>

AskWallet ==
  /\ pc = "ask"
  /\ RecordSigner("awaiting")
  /\ pc' = "sign"
  /\ UNCHANGED <<openFailed, todo, cur, built, file, told, lndVars, recVars>>

(* Mutant of WalletReturns: what it journalled before #37. *)
ReturnIsSignature(f) ==
  /\ pc = "sign"
  /\ RecordSigner("signed")
  /\ file' = f
  /\ pc' = "accept"
  /\ UNCHANGED <<openFailed, todo, cur, built, told, lndVars, recVars>>

(* A file came back; nobody has looked inside it. *)
WalletReturns(f) ==
  /\ pc = "sign"
  /\ file' = f
  /\ pc' = "accept"
  /\ UNCHANGED <<openFailed, todo, cur, built, told, jvars, lndVars, recVars>>

(* Mutant of HashesTo: the txid the batch carries is compared with itself. *)
FieldNames(f, t) == t = built

(* I-3 is asked of the bytes, never of a field that names a txid. *)
HashesTo(f, t) == f.tx = t

(* Mutant of Acceptable: no witness is executed. *)
SameTransaction(f) == HashesTo(f, built)

(* combine.Accept: the same transaction, and every witness executes. *)
Acceptable(f) == HashesTo(f, built) /\ f.signed

AcceptSigned ==
  /\ pc = "accept"
  /\ Acceptable(file)
  /\ RecordSigner("signed")
  /\ pc' = "ready"
  /\ UNCHANGED <<openFailed, todo, cur, built, file, told, lndVars, recVars>>

----------------------------------------------------------------------------
(* Step 8: publish, once *)

FinalizeTx ==
  /\ pc = "ready"
  /\ HashesTo(file, built)
  /\ RecordFinalizedTx(built, file.tx)
  /\ pc' = "publishing"
  /\ UNCHANGED <<openFailed, todo, cur, built, file, told, lndVars, recVars>>

EnterPublishing ==
  /\ pc = "publishing"
  /\ MarkPublishing
  /\ pc' = "publish_rpc"
  /\ UNCHANGED <<openFailed, todo, cur, built, file, told, lndVars, recVars>>

CallPublish ==
  /\ pc = "publish_rpc"
  /\ SendPublish(file.tx)
  /\ pc' = "publish_wait"
  /\ UNCHANGED <<openFailed, todo, cur, built, file, told, jvars, recVars>>

PublishAnswered ==
  /\ pc = "publish_wait"
  /\ wire = NoTx
  /\ mempool = file.tx
  /\ pc' = "mark_published"
  /\ UNCHANGED <<openFailed, todo, cur, built, file, told, jvars, lndVars, recVars>>

FinishPublish ==
  /\ pc = "mark_published"
  /\ MarkPublished
  /\ pc' = "done"
  /\ UNCHANGED <<openFailed, todo, cur, built, file, told, lndVars, recVars>>

(* A refusal, an error or no answer at all: nothing is torn down. *)
PublishFails ==
  /\ pc \in PublishSteps
  /\ pc' = "done"
  /\ UNCHANGED <<openFailed, todo, cur, built, file, told, jvars, lndVars, recVars>>

----------------------------------------------------------------------------
(* Failure, teardown, death *)

WindowFails ==
  /\ pc \in Window
  /\ pc' = "teardown"
  /\ UNCHANGED <<openFailed, todo, cur, built, file, told, jvars, lndVars, recVars>>

(* The rehearsal, armed, signed and taken apart as asked; or the finalized *)
(* transaction fails its second check against the plan.                    *)
StopBeforePublish ==
  /\ pc = "ready"
  /\ pc' = "teardown"
  /\ UNCHANGED <<openFailed, todo, cur, built, file, told, jvars, lndVars, recVars>>

(* recoverRun: no row, nothing to recover. *)
TearDown ==
  /\ pc = "teardown"
  /\ IF RunExists
     THEN pc' = "tearing" /\ Goto(Runner, "load")
     ELSE pc' = "done" /\ UNCHANGED step
  /\ UNCHANGED <<openFailed, todo, cur, built, file, told, jvars, lndVars,
                 seen, target, at, report, faults>>

TornDown ==
  /\ pc = "tearing"
  /\ step[Runner] = "idle"
  /\ pc' = "done"
  /\ UNCHANGED <<openFailed, todo, cur, built, file, told, jvars, lndVars, recVars>>

RunnerDies ==
  /\ ~RunnerStopped
  /\ Faulty
  /\ pc' = "dead"
  /\ Return(Runner)
  /\ UNCHANGED <<openFailed, todo, cur, built, file, told, jvars, lndVars>>

(* `winthistle recover RUN-ID' in another terminal. *)
RecoverCommand(p) ==
  /\ p # Runner
  /\ step[p] = "idle"
  /\ RunExists
  /\ Overlap \/ (RunnerStopped /\ \A q \in Procs : step[q] = "idle")
  /\ Goto(p, "load")
  /\ UNCHANGED <<seen, target, at, report, faults, jvars, lndVars, runVars>>

RecoverDies(p) ==
  /\ p # Runner
  /\ step[p] # "idle"
  /\ Faulty
  /\ Return(p)
  /\ UNCHANGED <<jvars, lndVars, runVars>>

----------------------------------------------------------------------------
(* The whole system *)

RunStep ==
  \/ \E c \in Channels : \/ OpenStream(c)
                         \/ OpenInterrupted(c)
                         \/ CancelUnreadableFails(c)
                         \/ JournalVerify(c)
                         \/ TakeReceipt(c)
  \/ OpenRefused
  \/ BeginRun
  \/ BeginFails
  \/ \E t \in TxIds : BuildUnsigned(t)
  \/ PinTxID
  \/ CallVerify
  \/ VerifyAnswered
  \/ GateOpens
  \/ StartSigning
  \/ AskWallet
  \/ \E f \in Files : WalletReturns(f)
  \/ AcceptSigned
  \/ FinalizeTx
  \/ EnterPublishing
  \/ CallPublish
  \/ PublishAnswered
  \/ FinishPublish
  \/ PublishFails
  \/ WindowFails
  \/ StopBeforePublish
  \/ TearDown
  \/ TornDown
  \/ RunnerDies

RecoveryStep(p) ==
  \/ RecoverStep(p) /\ UNCHANGED runVars
  \/ RecoverCommand(p)
  \/ RecoverDies(p)

LndStep ==
  /\ UNCHANGED <<jvars, runVars, step, seen, target, at, report>>
  /\ \/ /\ UNCHANGED faults
        /\ \/ \E c \in Channels : \/ ActOnVerify(c, built)
                                  \/ FundingSigned(c)
                                  \/ PeerFails(c)
           \/ \E accepts \in BOOLEAN : ActOnPublish(accepts)
           \/ Confirm
     \/ /\ Faulty
        /\ (\E c \in Channels : StreamBreaks(c)) \/ LndRestarts

(* Nothing is left to happen to this run. *)
Over ==
  /\ RunnerStopped
  /\ \A p \in Procs : step[p] = "idle"
  /\ UNCHANGED vars

Next ==
  \/ RunStep
  \/ \E p \in Procs : RecoveryStep(p)
  \/ LndStep
  \/ Over

Spec == Init /\ [][Next]_vars

(* A process in Recover goes on, with an operator who answers, and somebody *)
(* runs the recover command again as long as there is a run to take apart.  *)
Fairness ==
  \A p \in Procs : /\ WF_vars(RecoverStep(p) /\ UNCHANGED runVars)
                   /\ WF_vars(RecoverCommand(p))

FairSpec == Spec /\ Fairness

----------------------------------------------------------------------------
(* What the order of the writes and the calls is for *)

(***************************************************************************)
(* I-3 and the rebroadcast duty: whatever the network has, or is about to  *)
(* be handed, is the transaction LND committed every channel of the batch  *)
(* to, and its bytes were on disk first.  arm.Publish hashes the bytes,    *)
(* and the journal refuses any but the pinned ones.                        *)
(***************************************************************************)
PublicIsPinned ==
  \A t \in {wire, mempool} \ {NoTx} :
    /\ txid = t
    /\ rawTx = t
    /\ \A c \in Channels : committed[c] = t

(***************************************************************************)
(* I-1: once the transaction may be public, every channel it funds is in   *)
(* LND's channel database, recoverable by force-close; and the journal     *)
(* said so before the call.                                                *)
(***************************************************************************)
PublicIsRecoverable ==
  wire # NoTx \/ mempool # NoTx =>
    /\ \A c \in Channels : Standing(c)
    /\ MayBePublished(runState)

(***************************************************************************)
(* #32: a row that says LND was never shown a transaction for the channel, *)
(* or that its shim was cancelled, is true: there is no channel, and none  *)
(* on its way.  recordAbort reads such rows as settled.                    *)
(***************************************************************************)
SettledRowsAreEmpty ==
  \A c \in Channels :
    chanState[c] \in {"shim_registered", "shim_gone", "cancelled"} =>
      chan[c] = "none" /\ shim[c] # "completing"

(***************************************************************************)
(* StateAborted means nothing was left behind: no channel of the run still *)
(* in LND, and no shim of a journalled channel.                            *)
(***************************************************************************)
AbortedLeavesNothing ==
  runState = "aborted" =>
    \A c \in Rows : ~Standing(c) /\ shim[c] = "none"

(***************************************************************************)
(* #37: the row that says the wallet signed is written only over a file    *)
(* with every witness on it, for the transaction the journal pinned.       *)
(***************************************************************************)
SignedRowIsTrue ==
  signer = "signed" => file.signed /\ file.tx = txid

(***************************************************************************)
(* The gate comes before the signature: a wallet hands back a file only    *)
(* while every channel of the batch is pending and journalled as such.     *)
(***************************************************************************)
NothingSignedEarly ==
  [][file' # file => \A c \in Channels :
                       chan[c] = "pending" /\ chanState[c] = "pending"]_vars

(***************************************************************************)
(* A run that reached the publish call is never aborted, by anybody.       *)
(***************************************************************************)
NoAbortPastPublish ==
  [][MayBePublished(runState) => MayBePublished(runState')]_vars

(***************************************************************************)
(* The gate that MarkPublishing keeps: a run enters publishing only while  *)
(* every channel of the batch is in LND's channel database.                *)
(***************************************************************************)
GateIsHonest ==
  [][runState # "publishing" /\ runState' = "publishing" =>
       \A c \in Channels : Standing(c)]_vars

(***************************************************************************)
(* A batch that ended without dying journalled or named in its error the   *)
(* id of every stream LND answered for: those Begin could not take         *)
(* (unjournalledStreams), and the one that could not be read and whose     *)
(* shim could not be cancelled (cancelUnreadable), also when both happen.  *)
(***************************************************************************)
NoStreamIsForgotten ==
  pc = "done" => Answered \subseteq Rows \cup told

(***************************************************************************)
(* Three claims the code does not keep; the README quotes each.            *)
(*                                                                         *)
(* arm.open: a stream that never opened leaves no intent nobody can name.  *)
(***************************************************************************)
NoIntentIsNameless ==
  pc = "done" =>
    \A c \in Channels : shim[c] # "none" => c \in Rows \cup told

(***************************************************************************)
(* journal.Begin: the ids are on disk before a crash could orphan them.    *)
(***************************************************************************)
IdsOutliveACrash ==
  pc = "dead" => \A c \in Opened : shim[c] # "none" => c \in Rows

(***************************************************************************)
(* Run.AbortTarget: outside a crash, a row left saying verified is a       *)
(* channel LND did not list as a pending open when it was asked.           *)
(***************************************************************************)
VerifiedIsNotPending ==
  pc = "done" =>
    \A c \in Rows : chanState[c] = "verified" => chan[c] # "pending"

(***************************************************************************)
(* The promise of BatchGate, kept by this program, if a transaction counts *)
(* as public from the moment the journal says it may be.                   *)
(***************************************************************************)
Fund == [c \in Channels |-> IF Standing(c) THEN "recoverable"
                           ELSE IF chan[c] = "abandoned" THEN "undone" ELSE "none"]

Public == MayBePublished(runState)

Gate == INSTANCE BatchGate WITH fund <- Fund, public <- Public

KeepsTheGate == Gate!GateSpec

(***************************************************************************)
(* A run that stopped short of the publish call is taken apart in the end, *)
(* up to the channels of which the journal knows that LND was shown their  *)
(* transaction and LND no longer holds a shim: those it leaves standing.   *)
(***************************************************************************)
TakenApart ==
  \A c \in Rows :
    \/ chanState[c] \in {"abandoned", "cancelled", "shim_gone"}
    \/ chanState[c] = "verified" /\ shim[c] = "none"

RecoveryConverges ==
  (RunnerStopped /\ RunExists /\ ~MayBePublished(runState)) ~> TakenApart

(***************************************************************************)
(* And if there is no such channel, the run ends as aborted.               *)
(***************************************************************************)
AbortConverges ==
  (RunnerStopped /\ RunExists /\ ~MayBePublished(runState)) ~>
    (runState = "aborted" \/ \E c \in Rows : chanState[c] = "verified")
============================================================================
