------------------------------- MODULE Batch -------------------------------
(***************************************************************************)
(* What the journal, LND and the run all name: the channels of one batch   *)
(* and the transactions that might fund them.                              *)
(***************************************************************************)

CONSTANTS Channels,  \* the channels of the batch, by pending channel id
          TxIds,     \* the txids a transaction of this run may have
          NoTx       \* no transaction (in the journal, SQL NULL)

ASSUME NoTxAssumption == NoTx \notin TxIds
============================================================================
