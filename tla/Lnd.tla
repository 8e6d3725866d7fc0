-------------------------------- MODULE Lnd --------------------------------
(***************************************************************************)
(* LND, its peers and the chain, as the program relies on them.  None of   *)
(* this is code of the repository: every operator is external, written     *)
(* from how arm, abort and journal use LND and from what their comments    *)
(* say they measured.                                                      *)
(*                                                                         *)
(* A channel's life: OpenChannel registers a funding intent (the shim);    *)
(* psbt_verify with skip_finalize hands LND the unsigned transaction and   *)
(* sets the funding flow going; the peer's funding_signed completes it,    *)
(* which deletes the intent, makes the channel pending and puts a          *)
(* chan_pending receipt on the stream.  Two assumptions are made of LND:   *)
(* a cancel that finds an intent stops that channel's flow for good, and a *)
(* channel LND no longer has is abandoned without an error.                *)
(***************************************************************************)

EXTENDS Batch

VARIABLES shim,       \* "none", "registered" or, once verified, "completing"
          chan,       \* the channel database: "none", "pending", "open",
                      \*   "abandoned"
          committed,  \* the transaction LND was shown for the channel
          stream,     \* what Recv will find: "none" (no stream), "up" (it
                      \*   waits), "receipt" (chan_pending), "down" (an
                      \*   error); "unreadable" (hung up over its answer)
          asked,      \* psbt_verify calls LND has not acted on
          wire,       \* the publish call LND has not acted on
          mempool,    \* the transaction the network has
          confirmed   \* and whether a block has it

lndVars == <<shim, chan, committed, stream, asked, wire, mempool, confirmed>>

LndTypeOK ==
  /\ shim \in [Channels -> {"none", "registered", "completing"}]
  /\ chan \in [Channels -> {"none", "pending", "open", "abandoned"}]
  /\ committed \in [Channels -> TxIds \cup {NoTx}]
  /\ stream \in [Channels -> {"none", "up", "receipt", "down", "unreadable"}]
  /\ asked \in SUBSET Channels
  /\ wire \in TxIds \cup {NoTx}
  /\ mempool \in TxIds \cup {NoTx}
  /\ confirmed \in BOOLEAN

LndInit ==
  /\ shim = [c \in Channels |-> "none"]
  /\ chan = [c \in Channels |-> "none"]
  /\ committed = [c \in Channels |-> NoTx]
  /\ stream = [c \in Channels |-> "none"]
  /\ asked = {}
  /\ wire = NoTx
  /\ mempool = NoTx
  /\ confirmed = FALSE

Standing(c) == chan[c] \in {"pending", "open"}

(* A stream that LND ends by itself is found to be down by its reader. *)
EndedStream(s) == IF s \in {"none", "unreadable"} THEN s ELSE "down"

----------------------------------------------------------------------------
(* What a call of the program does to LND *)

RegisterShim(c, s) ==
  /\ shim' = [shim EXCEPT ![c] = "registered"]
  /\ stream' = [stream EXCEPT ![c] = s]
  /\ UNCHANGED <<chan, committed, asked, wire, mempool, confirmed>>

SendVerify(c) ==
  /\ asked' = asked \cup {c}
  /\ UNCHANGED <<shim, chan, committed, stream, wire, mempool, confirmed>>

SendPublish(t) ==
  /\ wire' = t
  /\ UNCHANGED <<shim, chan, committed, stream, asked, mempool, confirmed>>

(* The blunt flag removes the channel whatever state it is in. *)
RemoveChannel(c) ==
  /\ chan' = [chan EXCEPT ![c] = IF Standing(c) THEN "abandoned" ELSE @]
  /\ UNCHANGED <<shim, committed, stream, asked, wire, mempool, confirmed>>

DropShim(c) ==
  /\ shim' = [shim EXCEPT ![c] = "none"]
  /\ stream' = [stream EXCEPT ![c] = EndedStream(@)]
  /\ UNCHANGED <<chan, committed, asked, wire, mempool, confirmed>>

----------------------------------------------------------------------------
(* What LND, the peers and the chain do by themselves *)

(* LND acts on a psbt_verify for transaction t: it needs the intent. *)
ActOnVerify(c, t) ==
  /\ c \in asked
  /\ asked' = asked \ {c}
  /\ IF shim[c] = "registered"
     THEN /\ shim' = [shim EXCEPT ![c] = "completing"]
          /\ committed' = [committed EXCEPT ![c] = t]
     ELSE UNCHANGED <<shim, committed>>
  /\ UNCHANGED <<chan, stream, wire, mempool, confirmed>>

(* The peer's commitment signature arrives and is stored. *)
FundingSigned(c) ==
  /\ shim[c] = "completing"
  /\ shim' = [shim EXCEPT ![c] = "none"]
  /\ chan' = [chan EXCEPT ![c] = "pending"]
  /\ stream' = [stream EXCEPT ![c] = IF @ = "up" THEN "receipt" ELSE @]
  /\ UNCHANGED <<committed, asked, wire, mempool, confirmed>>

(* The peer refuses, fails, or its ten minutes run out. *)
PeerFails(c) ==
  /\ shim[c] # "none"
  /\ DropShim(c)

StreamBreaks(c) ==
  /\ stream[c] \in {"up", "receipt"}
  /\ stream' = [stream EXCEPT ![c] = "down"]
  /\ UNCHANGED <<shim, chan, committed, asked, wire, mempool, confirmed>>

(* Intents are kept in memory, channels in the database. *)
LndRestarts ==
  /\ shim' = [c \in Channels |-> "none"]
  /\ stream' = [c \in Channels |-> EndedStream(stream[c])]
  /\ asked' = {}
  /\ wire' = NoTx
  /\ UNCHANGED <<chan, committed, mempool, confirmed>>

ActOnPublish(accepts) ==
  /\ wire # NoTx
  /\ wire' = NoTx
  /\ mempool' = IF accepts THEN wire ELSE mempool
  /\ UNCHANGED <<shim, chan, committed, stream, asked, confirmed>>

Confirm ==
  /\ mempool # NoTx
  /\ ~confirmed
  /\ confirmed' = TRUE
  /\ chan' = [c \in Channels |->
                IF chan[c] = "pending" /\ committed[c] = mempool
                THEN "open" ELSE chan[c]]
  /\ UNCHANGED <<shim, committed, stream, asked, wire, mempool>>
============================================================================
