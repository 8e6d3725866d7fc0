------------------------------ MODULE Screens ------------------------------
(***************************************************************************)
(* What `winthistle recover' and a failed run tell the operator            *)
(* (internal/prose/recovery.go): sentences about LND, the peers and the    *)
(* chain, written from the journal's rows and an abort report alone.       *)
(* Nothing here changes anything; the module follows the batch and asks of *)
(* every sentence whether it is true when it is printed.                   *)
(*                                                                         *)
(* A screen is the set of the claims on it about LND, the wallet and the   *)
(* network.  Layout, ages, amounts, wording and what is said of the peers' *)
(* own slots and clocks are left out.  `shown' is the rows of the load the *)
(* plan is printed from; the outcome is printed from them too.             *)
(***************************************************************************)
EXTENDS ArmedWindow

VARIABLE shown  \* the rows each process has printed last

svars == <<vars, shown>>

NoRows == [c \in Channels |-> "absent"]

SInit == Init /\ shown = [p \in Procs |-> NoRows]

(* RecoverOne and recoverRun load the run, print it, and call Recover,     *)
(* which loads it again.                                                   *)
Shows ==
  shown' = [p \in Procs |->
              CASE step[p] = "idle" /\ step'[p] = "load" -> chanState
                [] step'[p] = "idle" -> NoRows
                [] OTHER -> shown[p]]

SNext == Next /\ Shows

SSpec == SInit /\ [][SNext]_svars

----------------------------------------------------------------------------
(* The list, and the screen of one run *)

(* Mutant of Unfinished: a run being taken apart is somebody else's. *)
UnfinishedAndIdle(state) ==
  state \notin {"absent", "published", "aborting", "aborted"}

Unfinished(state) == state \notin {"absent", "published", "aborted"}

(* Mutant of StateMeans: signing shares the sentence of armed. *)
SigningIsArmed(state) ==
  CASE state = "arming" -> {"streams are open", "none reached chan_pending"}
    [] state \in {"armed", "signing"} ->
         {"all recoverable", "nothing broadcast", "nothing signed"}
    [] state = "aborted" -> {"nothing left"}
    [] state = "aborting" -> {"the rows are what is left"}
    [] MayBePublished(state) -> {"all recoverable", "bytes on disk"}
    [] OTHER -> {}

(* stateMeans, and recoveryPublished for a run past the publish call. *)
StateMeans(state) ==
  CASE state = "arming" -> {"streams are open", "none reached chan_pending"}
    [] state = "armed" ->
         {"all recoverable", "nothing broadcast", "nothing signed"}
    [] state = "signing" ->
         {"all recoverable", "nothing broadcast", "out with the wallet"}
    [] state = "aborted" -> {"nothing left"}
    [] state = "aborting" -> {"the rows are what is left"}
    [] MayBePublished(state) -> {"all recoverable", "bytes on disk"}
    [] OTHER -> {}

(* No signer row: step 7 writes one before it asks a wallet for anything.  *)
(* A row that still awaits a signature says nothing of what came back.     *)
SignerNote(s) ==
  CASE s = "absent" -> {"nothing asked of a wallet"}
    [] s = "signed" -> {"the wallet signed"}
    [] OTHER -> {}

(* Mutant of Split: a verified row is taken for one with nothing to undo. *)
SplitUnverified(rows) ==
  [pending |-> {c \in Channels : rows[c] = "pending"},
   shims   |-> {c \in Channels : rows[c] = "shim_registered"}]

Split(rows) ==
  [pending |-> {c \in Channels : rows[c] = "pending"},
   shims   |-> {c \in Channels : rows[c] \in {"shim_registered", "verified"}}]

(* The last line of a screen that has nothing to offer. *)
NothingToDo(rows) ==
  IF Split(rows) = [pending |-> {}, shims |-> {}] THEN {"nothing left"} ELSE {}

(* recoveryPlan: what an abort would do, and why it may be done. *)
RecoveryPlan(rows) ==
  (IF Split(rows).shims = {} THEN {} ELSE {"the shims are free"})
    \cup (IF Split(rows).pending = {} THEN {}
          ELSE {"these reached chan_pending", "nothing broadcast"})

RecoveryScreen(state, rows, s) ==
  StateMeans(state)
    \cup IF MayBePublished(state) THEN {}
         ELSE NothingToDo(rows) \cup SignerNote(s) \cup RecoveryPlan(rows)

(* Sentences that say how far the run got, in the words of what is so: the  *)
(* screen of arming and of signing add that they do not say whether         *)
(* anything drives the run now, and the plan's `Free' is said of verified   *)
(* rows and of registered ones alike.                                       *)
SaysHowFar == {"streams are open", "none reached chan_pending",
               "out with the wallet", "the shims are free"}

(* Channels of the run that LND still has, or may still make. *)
Left == {c \in Rows : Standing(c) \/ shim[c] # "none"}

NothingBroadcast == wire = NoTx /\ mempool = NoTx

True(claim) ==
  CASE claim = "all recoverable" -> \A c \in Channels : Standing(c)
    [] claim = "nothing broadcast" -> NothingBroadcast
    [] claim = "nothing signed" -> file = NoFile
    [] claim = "nothing asked of a wallet" -> file = NoFile
    [] claim = "the wallet signed" -> file.signed /\ file.tx = txid
    [] claim = "bytes on disk" -> rawTx # NoTx /\ rawTx = txid
    [] claim = "nothing left" -> Left = {}
    [] claim = "the rows are what is left" ->
         Left \subseteq Split(chanState).pending \cup Split(chanState).shims
    [] claim = "these reached chan_pending" ->
         \A c \in Split(chanState).pending : chan[c] # "none"
    [] claim = "streams are open" ->
         \A c \in Rows : stream[c] \in {"up", "receipt"}
    [] claim = "none reached chan_pending" ->
         \A c \in Channels : chanState[c] # "pending"
    [] claim = "out with the wallet" -> pc = "sign"
    [] claim = "the shims are free" ->
         \A c \in Split(chanState).shims : committed[c] = NoTx

----------------------------------------------------------------------------
(* The screen after an abort *)

(* Mutant of AlreadyGone: before #32 item 1 an absent shim was no failure, *)
(* whatever the row said.                                                  *)
AllGoneAreBenign(rows, gone) == [unverified |-> gone, standing |-> {}]

(* alreadyGoneSplit: the absence means opposite things on either side of   *)
(* psbt_verify.                                                            *)
AlreadyGone(rows, gone) ==
  [unverified |-> {c \in gone : rows[c] = "shim_registered"},
   standing   |-> {c \in gone : rows[c] # "shim_registered"}]

(* Recover returns a clean report and no error. *)
EndsClean(p) ==
  /\ step[p] \in {"leftrows", "close"} /\ step'[p] = "idle"
  /\ faults' = faults
  /\ step[p] = "leftrows" => ~MayBePublished(seen[p])

(* RecoveryOutcome: what a clean abort is said to have left. *)
RecoveryOutcome(p) ==
  LET split == AlreadyGone(shown[p], report[p].gone)
  IN IF split.standing = {} THEN {"nothing left", "nothing broadcast"}
     ELSE {"nothing broadcast", "stays aborting"}

----------------------------------------------------------------------------
(***************************************************************************)
(* What a run's screen says beside how far the run got is so, at any step  *)
(* of a run, of a teardown or after a crash: which channels are            *)
(* recoverable, that nothing was broadcast, what the wallet was asked and  *)
(* gave, what is left and what of it is pending (prose.Recovery).  The     *)
(* four sentences of SaysHowFar are not so at every step of their state.   *)
(***************************************************************************)
ScreenIsTrue ==
  RunExists =>
    \A claim \in RecoveryScreen(runState, chanState, signer) \ SaysHowFar :
      True(claim)

(***************************************************************************)
(* The sentence that the screen of an arming run opens with, taken at its  *)
(* word: no channel has reached chan_pending, by the rows on that screen.  *)
(* The code does not keep it: the state moves with the last receipt.       *)
(***************************************************************************)
ArmingScreenIsTrue ==
  "none reached chan_pending" \in StateMeans(runState)
    => True("none reached chan_pending")

(***************************************************************************)
(* The plan on the screen is the abort that is then made: every channel    *)
(* the abort still has to deal with is on its side of the printed split.   *)
(***************************************************************************)
PlanIsTheAbort ==
  \A p \in Procs :
    step[p] \in {"work", "mark"} =>
      /\ target[p].channels \subseteq Split(shown[p]).pending
      /\ target[p].shims \subseteq Split(shown[p]).shims

(***************************************************************************)
(* A run that the startup list leaves out has nothing for an operator to   *)
(* do: its transaction is out, or nothing of it is left (RecoveryList).    *)
(***************************************************************************)
UnlistedIsOver ==
  RunExists /\ ~Unfinished(runState) => mempool # NoTx \/ Left = {}

(***************************************************************************)
(* The screen after a clean abort: it says nothing is left exactly when    *)
(* nothing is and the run has left the list, and otherwise that the run    *)
(* stays there; nothing was broadcast, so nothing was spent.               *)
(***************************************************************************)
OutcomeIsTrue ==
  [][\A p \in Procs :
       EndsClean(p) =>
         /\ NothingBroadcast
         /\ IF "nothing left" \in RecoveryOutcome(p)
            THEN Left = {} /\ runState' = "aborted"
            ELSE runState' = "aborting"]_svars
============================================================================
