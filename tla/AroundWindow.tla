---------------------------- MODULE AroundWindow ----------------------------
(***************************************************************************)
(* What the armed window relies on, side by side: the journal, called by   *)
(* anybody at any time, the peers' slots, the node's reserve and the       *)
(* wallet's files.  The four share no state here, so a behaviour follows   *)
(* one of them and the others stay where they are.                         *)
(***************************************************************************)
EXTENDS Journal, Preflight, Reserve, FileWallet

VARIABLE part

vars == <<part, jvars, pvars, rvars, fvars>>

PeersRest   == link = Peers
ReserveRest == public = Members /\ existing = 0 /\ balance = 0
FileRest    == csv = "absent" /\ \A p \in Paths : file[p] = Absent

Init ==
  /\ part \in {"journal", "peers", "reserve", "file"}
  /\ JInit /\ PreflightInit /\ ReserveInit /\ FileInit
  /\ part # "peers" => PeersRest
  /\ part # "reserve" => ReserveRest
  /\ part # "file" => FileRest

Next ==
  \/ part = "journal" /\ JNext         /\ UNCHANGED <<part, pvars, rvars, fvars>>
  \/ part = "peers"   /\ PreflightNext /\ UNCHANGED <<part, jvars, rvars, fvars>>
  \/ part = "reserve" /\ ReserveNext   /\ UNCHANGED <<part, jvars, pvars, fvars>>
  \/ part = "file"    /\ FileNext      /\ UNCHANGED <<part, jvars, pvars, rvars>>

Spec == Init /\ [][Next]_vars

(* FileWallet's fairness, where a behaviour is about the files. *)
FairSpec ==
  /\ Spec
  /\ WF_fvars(part = "file" /\ Poller)
  /\ WF_fvars(part = "file" /\ SaveWrites)
  /\ WF_fvars(part = "file" /\ SaveEnds)

(* The types of the four parts. *)
TypeOK == JTypeOK /\ PreflightTypeOK /\ ReserveTypeOK /\ FileTypeOK
=============================================================================
