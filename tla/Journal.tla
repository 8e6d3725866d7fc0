------------------------------ MODULE Journal ------------------------------
(***************************************************************************)
(* The run journal (internal/journal): the SQLite rows of one run.  Every  *)
(* operation of the package is one database transaction, so it is one      *)
(* action here; an operation the code refuses (it returns an error and     *)
(* rolls back) is an action that is not enabled.                           *)
(*                                                                         *)
(* The module says nothing of who calls what and when.  JNext lets any     *)
(* caller call any operation at any time, which is what two processes on   *)
(* one journal file amount to; ArmedWindow composes the operations in the  *)
(* order the program calls them.                                           *)
(*                                                                         *)
(* Abstracted: a transaction is named by its txid, so rawTx holds the txid *)
(* of the journalled bytes; a funding outpoint is (txid, the one output    *)
(* that pays the channel's address), so fundingTx holds only the txid;     *)
(* timestamps, amounts and peer keys are left out.                         *)
(***************************************************************************)

EXTENDS Batch

VARIABLES runState,   \* runs.state, or "absent" before Begin
          txid,       \* runs.txid: the pin
          rawTx,      \* runs.raw_tx
          chanState,  \* channels.state, per channel
          fundingTx,  \* channels.funding_txid, per channel
          signer      \* signers.state of the one signing wallet

jvars == <<runState, txid, rawTx, chanState, fundingTx, signer>>

RunStates == {"absent", "arming", "armed", "signing", "publishing",
              "published", "aborting", "aborted"}

ChannelStates == {"absent", "shim_registered", "verified", "pending",
                  "abandoned", "cancelled", "shim_gone"}

SignerStates == {"absent", "awaiting", "signed"}

(***************************************************************************)
(* The types of the columns.                                               *)
(***************************************************************************)
JTypeOK ==
  /\ runState \in RunStates
  /\ txid \in TxIds \cup {NoTx}
  /\ rawTx \in TxIds \cup {NoTx}
  /\ chanState \in [Channels -> ChannelStates]
  /\ fundingTx \in [Channels -> TxIds \cup {NoTx}]
  /\ signer \in SignerStates

JInit ==
  /\ runState = "absent"
  /\ txid = NoTx
  /\ rawTx = NoTx
  /\ chanState = [c \in Channels |-> "absent"]
  /\ fundingTx = [c \in Channels |-> NoTx]
  /\ signer = "absent"

----------------------------------------------------------------------------
(* Reading the journal *)

RunExists == runState # "absent"

Rows == {c \in Channels : chanState[c] # "absent"}

MayBePublished(state) == state \in {"publishing", "published"}

(* The two halves of Run.AbortTarget, for the channel rows that were read. *)
TargetChannels(rows) == {c \in Channels : rows[c] = "pending"}

(* Mutant of TargetShims: a shim found gone is tried again, every time. *)
ShimsTriedAgain(rows) ==
  {c \in Channels : rows[c] \in {"shim_registered", "verified", "shim_gone"}}

TargetShims(rows) ==
  {c \in Channels : rows[c] \in {"shim_registered", "verified"}}

AllPending(rows) == \A c \in Channels : rows[c] \in {"absent", "pending"}

----------------------------------------------------------------------------
(* Writing it *)

Begin(opened) ==
  /\ opened # {}
  /\ ~RunExists
  /\ runState' = "arming"
  /\ chanState' = [c \in Channels |->
                     IF c \in opened THEN "shim_registered" ELSE chanState[c]]
  /\ UNCHANGED <<txid, rawTx, fundingTx, signer>>

(* Mutant of MarkVerified: the run's state, which this call used to write,  *)
(* lands in the channel's row.                                              *)
MarkSigningInRow(c) ==
  /\ c \in Rows
  /\ chanState' = [chanState EXCEPT ![c] = "signing"]
  /\ UNCHANGED <<runState, txid, rawTx, fundingTx, signer>>

MarkVerified(c) ==
  /\ c \in Rows
  /\ chanState' = [chanState EXCEPT ![c] = "verified"]
  /\ UNCHANGED <<runState, txid, rawTx, fundingTx, signer>>

RecordPinnedTxID(t) ==
  /\ RunExists
  /\ txid \in {NoTx, t}
  /\ txid' = t
  /\ UNCHANGED <<runState, rawTx, chanState, fundingTx, signer>>

RecordSigner(state) ==
  /\ RunExists
  /\ signer' = state
  /\ UNCHANGED <<runState, txid, rawTx, chanState, fundingTx>>

(* Mutant of RecordFinalizedTx: the pin is neither compared nor written. *)
RecordUnpinnedTx(t, bytes) ==
  /\ RunExists
  /\ rawTx' = bytes
  /\ UNCHANGED <<runState, txid, chanState, fundingTx, signer>>

(* Only the txid is checked.  That the bytes hash to it is for the caller    *)
(* to establish, and arm.Publish does.                                       *)
RecordFinalizedTx(t, bytes) ==
  /\ RunExists
  /\ txid \in {NoTx, t}
  /\ txid' = t
  /\ rawTx' = bytes
  /\ UNCHANGED <<runState, chanState, fundingTx, signer>>

(* Mutant of MarkPending: a later receipt overwrites the outpoint. *)
MovePending(c, t) ==
  /\ c \in Rows
  /\ chanState' = [chanState EXCEPT ![c] = "pending"]
  /\ fundingTx' = [fundingTx EXCEPT ![c] = t]
  /\ runState' = IF AllPending(chanState') THEN "armed" ELSE runState
  /\ UNCHANGED <<txid, rawTx, signer>>

(* The receipt that completes the batch arms the run, whatever state the   *)
(* run was in.                                                             *)
MarkPending(c, t) ==
  /\ c \in Rows
  /\ fundingTx[c] \in {NoTx, t}
  /\ chanState' = [chanState EXCEPT ![c] = "pending"]
  /\ fundingTx' = [fundingTx EXCEPT ![c] = t]
  /\ runState' = IF AllPending(chanState') THEN "armed" ELSE runState
  /\ UNCHANGED <<txid, rawTx, signer>>

MarkSigning ==
  /\ runState \in {"armed", "signing"}
  /\ runState' = "signing"
  /\ UNCHANGED <<txid, rawTx, chanState, fundingTx, signer>>

MarkPublishing ==
  /\ runState \in {"armed", "signing"}
  /\ AllPending(chanState)
  /\ rawTx # NoTx
  /\ runState' = "publishing"
  /\ UNCHANGED <<txid, rawTx, chanState, fundingTx, signer>>

MarkPublished ==
  /\ RunExists
  /\ runState' = "published"
  /\ UNCHANGED <<txid, rawTx, chanState, fundingTx, signer>>

(* Recover's two writes of the run state.  Neither looks at the state it   *)
(* overwrites: what was read to decide on them was read in an earlier      *)
(* transaction.                                                            *)
SetAborting ==
  /\ RunExists
  /\ runState' = "aborting"
  /\ UNCHANGED <<txid, rawTx, chanState, fundingTx, signer>>

SetAborted ==
  /\ RunExists
  /\ runState' = "aborted"
  /\ UNCHANGED <<txid, rawTx, chanState, fundingTx, signer>>

(* Mutant of RecordAbort: what it wrote before #32, an absent shim is a     *)
(* cancelled one whatever the row said.                                     *)
RecordAbsenceAsCancel(abandoned, cancelled, gone) ==
  /\ RunExists
  /\ cancelled \cup gone \subseteq Rows
  /\ chanState' =
       [c \in Channels |->
          CASE c \in abandoned /\ fundingTx[c] # NoTx -> "abandoned"
            [] c \in cancelled \cup gone -> "cancelled"
            [] OTHER -> chanState[c]]
  /\ UNCHANGED <<runState, txid, rawTx, fundingTx, signer>>

(* Mutant of RecordAbort: #32 overdone, an absent shim settles no row. *)
RecordNoAbsence(abandoned, cancelled, gone) ==
  /\ RunExists
  /\ cancelled \cup gone \subseteq Rows
  /\ chanState' =
       [c \in Channels |->
          CASE c \in abandoned /\ fundingTx[c] # NoTx -> "abandoned"
            [] c \in cancelled -> "cancelled"
            [] OTHER -> chanState[c]]
  /\ UNCHANGED <<runState, txid, rawTx, fundingTx, signer>>

(* One abort's outcome: the channels it abandoned, matched by outpoint; the *)
(* shims LND let it cancel; and the shims LND no longer held.  An absent    *)
(* shim settles a row only if the channel was never verified.               *)
RecordAbort(abandoned, cancelled, gone) ==
  /\ RunExists
  /\ cancelled \cup gone \subseteq Rows
  /\ chanState' =
       [c \in Channels |->
          CASE c \in abandoned /\ fundingTx[c] # NoTx -> "abandoned"
            [] c \in cancelled -> "cancelled"
            [] c \in gone /\ chanState[c] = "shim_registered" -> "shim_gone"
            [] OTHER -> chanState[c]]
  /\ UNCHANGED <<runState, txid, rawTx, fundingTx, signer>>

(* Any caller calls any operation, with one thing asked of it: the bytes it *)
(* journals hash to the txid it names.                                      *)
JNext ==
  \/ \E S \in SUBSET Channels : Begin(S)
  \/ \E t \in TxIds : RecordPinnedTxID(t) \/ RecordFinalizedTx(t, t)
  \/ \E c \in Channels : MarkVerified(c)
  \/ \E c \in Channels, t \in TxIds : MarkPending(c, t)
  \/ \E s \in {"awaiting", "signed"} : RecordSigner(s)
  \/ MarkSigning
  \/ MarkPublishing
  \/ MarkPublished
  \/ SetAborting
  \/ SetAborted
  \/ \E A, K, G \in SUBSET Channels : RecordAbort(A, K, G)

JSpec == JInit /\ [][JNext]_jvars

----------------------------------------------------------------------------
(* What the journal promises whoever calls it *)

(***************************************************************************)
(* The bytes on disk are the pinned transaction, the rebroadcast duty that *)
(* RecordFinalizedTx refuses to get wrong, and a row that says pending has *)
(* the outpoint an abandon needs (AbortTarget refuses a run without it).   *)
(***************************************************************************)
RowsAreUsable ==
  /\ rawTx # NoTx => rawTx = txid
  /\ \A c \in Channels : chanState[c] = "pending" => fundingTx[c] # NoTx

(***************************************************************************)
(* I-3 on disk: across any sequence of writes by any callers, a recorded   *)
(* pin is never rewritten, recorded bytes are never replaced, and a        *)
(* channel's outpoint, which is what an abort abandons, never moves.       *)
(***************************************************************************)
PinsNeverMove ==
  [][/\ txid # NoTx => txid' = txid
     /\ rawTx # NoTx => rawTx' = rawTx
     /\ \A c \in Channels : fundingTx[c] # NoTx => fundingTx'[c] = fundingTx[c]
    ]_jvars
============================================================================
