--------------------------- MODULE JournalProofs ---------------------------
(***************************************************************************)
(* What the journal promises for any batch, any set of txids and any       *)
(* callers: the types of its columns, RowsAreUsable and PinsNeverMove.     *)
(***************************************************************************)
EXTENDS Journal, TLAPS

(***************************************************************************)
(* Every write leaves the columns well typed.                              *)
(***************************************************************************)
LEMMA JTyping == ASSUME JTypeOK, [JNext]_jvars PROVE JTypeOK'
<1> USE DEF JTypeOK, RunStates, ChannelStates, SignerStates
<1>1. ASSUME NEW S \in SUBSET Channels, Begin(S) PROVE JTypeOK'
  BY <1>1 DEF Begin
<1>2. ASSUME NEW t \in TxIds, RecordPinnedTxID(t) \/ RecordFinalizedTx(t, t)
      PROVE  JTypeOK'
  BY <1>2 DEF RecordPinnedTxID, RecordFinalizedTx
<1>3. ASSUME NEW c \in Channels, MarkVerified(c) PROVE JTypeOK'
  BY <1>3 DEF MarkVerified
<1>4. ASSUME NEW c \in Channels, NEW t \in TxIds, MarkPending(c, t)
      PROVE  JTypeOK'
  BY <1>4 DEF MarkPending
<1>5. ASSUME NEW s \in {"awaiting", "signed"}, RecordSigner(s) PROVE JTypeOK'
  BY <1>5 DEF RecordSigner
<1>6. CASE MarkSigning \/ MarkPublishing \/ MarkPublished
  BY <1>6 DEF MarkSigning, MarkPublishing, MarkPublished
<1>7. CASE SetAborting \/ SetAborted
  BY <1>7 DEF SetAborting, SetAborted
<1>8. ASSUME NEW A, NEW K, NEW G, RecordAbort(A, K, G) PROVE JTypeOK'
  BY <1>8 DEF RecordAbort
<1>9. CASE UNCHANGED jvars
  BY <1>9 DEF jvars
<1> QED
  BY <1>1, <1>2, <1>3, <1>4, <1>5, <1>6, <1>7, <1>8, <1>9 DEF JNext

(***************************************************************************)
(* The rows stay usable: the bytes on disk are the pinned ones, and a      *)
(* pending channel has its outpoint.                                       *)
(***************************************************************************)
LEMMA UsableStep ==
  ASSUME JTypeOK, RowsAreUsable, [JNext]_jvars PROVE RowsAreUsable'
<1> USE NoTxAssumption DEF JTypeOK, RowsAreUsable
<1>1. ASSUME NEW S \in SUBSET Channels, Begin(S) PROVE RowsAreUsable'
  BY <1>1 DEF Begin
<1>2. ASSUME NEW t \in TxIds, RecordPinnedTxID(t) \/ RecordFinalizedTx(t, t)
      PROVE  RowsAreUsable'
  BY <1>2 DEF RecordPinnedTxID, RecordFinalizedTx
<1>3. ASSUME NEW c \in Channels, MarkVerified(c) PROVE RowsAreUsable'
  BY <1>3 DEF MarkVerified
<1>4. ASSUME NEW c \in Channels, NEW t \in TxIds, MarkPending(c, t)
      PROVE  RowsAreUsable'
  BY <1>4 DEF MarkPending
<1>5. ASSUME NEW s \in {"awaiting", "signed"}, RecordSigner(s)
      PROVE  RowsAreUsable'
  BY <1>5 DEF RecordSigner
<1>6. CASE MarkSigning \/ MarkPublishing \/ MarkPublished
  BY <1>6 DEF MarkSigning, MarkPublishing, MarkPublished
<1>7. CASE SetAborting \/ SetAborted
  BY <1>7 DEF SetAborting, SetAborted
<1>8. ASSUME NEW A, NEW K, NEW G, RecordAbort(A, K, G) PROVE RowsAreUsable'
  BY <1>8 DEF RecordAbort
<1>9. CASE UNCHANGED jvars
  BY <1>9 DEF jvars
<1> QED
  BY <1>1, <1>2, <1>3, <1>4, <1>5, <1>6, <1>7, <1>8, <1>9 DEF JNext

(***************************************************************************)
(* No write moves a pin, the recorded bytes or a recorded outpoint.        *)
(***************************************************************************)
LEMMA PinStep ==
  ASSUME JTypeOK, RowsAreUsable, [JNext]_jvars
  PROVE  /\ txid # NoTx => txid' = txid
         /\ rawTx # NoTx => rawTx' = rawTx
         /\ \A c \in Channels : fundingTx[c] # NoTx => fundingTx'[c] = fundingTx[c]
<1> DEFINE Goal == /\ txid # NoTx => txid' = txid
                   /\ rawTx # NoTx => rawTx' = rawTx
                   /\ \A c \in Channels :
                        fundingTx[c] # NoTx => fundingTx'[c] = fundingTx[c]
<1>1. ASSUME NEW t \in TxIds, RecordPinnedTxID(t) \/ RecordFinalizedTx(t, t)
      PROVE  Goal
  BY <1>1 DEF RecordPinnedTxID, RecordFinalizedTx, RowsAreUsable
<1>2. ASSUME NEW c \in Channels, NEW t \in TxIds, MarkPending(c, t) PROVE Goal
  BY <1>2 DEF MarkPending, JTypeOK
<1>3. ASSUME UNCHANGED <<txid, rawTx, fundingTx>> PROVE Goal
  BY <1>3
<1> QED
  BY <1>1, <1>2, <1>3 DEF JNext, jvars, Begin, MarkVerified, RecordSigner,
     MarkSigning, MarkPublishing, MarkPublished, SetAborting, SetAborted,
     RecordAbort

(***************************************************************************)
(* The columns are well typed whatever is called, in any order.            *)
(***************************************************************************)
THEOREM JournalTypes == JSpec => []JTypeOK
<1>1. JInit => JTypeOK
  BY DEF JInit, JTypeOK, RunStates, ChannelStates, SignerStates
<1>2. JTypeOK /\ [JNext]_jvars => JTypeOK'
  BY JTyping
<1> QED
  BY <1>1, <1>2, PTL DEF JSpec

(***************************************************************************)
(* Recovery and rebroadcast can always be done from the rows.              *)
(***************************************************************************)
THEOREM JournalUsable == JSpec => []RowsAreUsable
<1>1. JInit => RowsAreUsable
  BY DEF JInit, RowsAreUsable
<1>2. JTypeOK /\ RowsAreUsable /\ [JNext]_jvars => RowsAreUsable'
  BY UsableStep
<1> QED
  BY <1>1, <1>2, JournalTypes, PTL DEF JSpec

(***************************************************************************)
(* I-3 on disk, for any number of processes writing to one journal.        *)
(***************************************************************************)
THEOREM JournalPins == JSpec => PinsNeverMove
<1>1. JTypeOK /\ RowsAreUsable /\ [JNext]_jvars =>
        [/\ txid # NoTx => txid' = txid
         /\ rawTx # NoTx => rawTx' = rawTx
         /\ \A c \in Channels :
              fundingTx[c] # NoTx => fundingTx'[c] = fundingTx[c]]_jvars
  BY PinStep
<1> QED
  BY <1>1, JournalTypes, JournalUsable, PTL DEF JSpec, PinsNeverMove
============================================================================
