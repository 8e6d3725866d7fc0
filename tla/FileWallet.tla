----------------------------- MODULE FileWallet -----------------------------
(***************************************************************************)
(* The file transport (internal/run/wallet.go): a poller that reads what a *)
(* wallet program saves, while it is being saved.  The two share nothing   *)
(* but a directory.  A file is its kind, how much of it is there and when  *)
(* it was created; a save creates or truncates the file before it writes,  *)
(* and then writes piece by piece.  A file that is removed while it is     *)
(* written is gone, whatever the writer still does to it.                  *)
(***************************************************************************)

EXTENDS Integers, Sequences, SequencesExt

CONSTANTS Whole,     \* pieces in a whole file
          Earlier,   \* the sets of files earlier attempts may have left
          MaxSaves   \* bound: saves the operator makes

ASSUME FileWalletAssumption ==
  /\ Whole \in Nat \ {0} /\ MaxSaves \in Nat
  /\ Earlier \subseteq SUBSET {"unsigned", "signed", "txn"}

Unsigned   == "unsigned"                 \* batch.psbt
SignedPath == "signed"                   \* batch-signed.psbt
Paths      == {"unsigned", "signed", "txn"}
Kinds      == {"psbt", "signed_psbt", "raw_tx"}

(* When a file was created: before the run, in it, since Signed asked. *)
Epochs == 0..2

Absent == [kind |-> "absent", size |-> 0, epoch |-> 0]
Files  == {Absent} \cup [kind : Kinds, size : 0..Whole, epoch : Epochs]

VARIABLES
  pc,      \* where the run is with the transport
  file,    \* the files of Paths
  csv,     \* the recipients file: "absent", "ours" or "theirs"
  look,    \* the poller: its path, its step and what it has in hand
  answer,  \* the file it returned, Absent for none yet
  cleared, \* the paths Signed has removed
  save,    \* the save in progress: its path, whether its file is still there
  saves,   \* how many there have been
  moved    \* what happened to the path looked at since its first stat

fvars == <<pc, file, csv, look, answer, cleared, save, saves, moved>>
wallet == <<save, saves>>

NoSave == [path |-> "none", linked |-> FALSE]
Idle   == [index |-> 1, step |-> "stat", before |-> 0, body |-> Absent]

FileTypeOK ==
  /\ pc \in {"new", "opening", "build", "built", "clear", "sign", "signed", "failed"}
  /\ file \in [Paths -> Files]
  /\ csv \in {"absent", "ours", "theirs"}
  /\ look \in [index : 1..2, step : {"stat", "read", "again", "tick"},
               before : 0..Whole, body : Files]
  /\ answer \in Files /\ cleared \subseteq Paths
  /\ save \in [path : Paths \cup {"none"}, linked : BOOLEAN]
  /\ saves \in 0..MaxSaves
  /\ moved \in {"still", "grew", "remade"}

FileInit ==
  /\ pc = "new"
  /\ \E left \in Earlier, kind \in Kinds :
       file = [p \in Paths |-> IF p \in left
                               THEN [kind |-> kind, size |-> Whole, epoch |-> 0]
                               ELSE Absent]
  /\ csv \in {"absent", "theirs"}
  /\ look = Idle /\ answer = Absent /\ cleared = {}
  /\ save = NoSave /\ saves = 0 /\ moved = "still"

Exists(p) == file[p] # Absent

-----------------------------------------------------------------------------
(* The run. *)

(* A path that is already there, the transaction's or the recipients', is  *)
(* refused before anything is opened.                                      *)
NewFileWallet ==
  /\ pc = "new"
  /\ pc' = IF Exists(Unsigned) \/ csv # "absent" THEN "failed" ELSE "opening"
  /\ UNCHANGED <<file, csv, look, answer, cleared, wallet, moved>>

(* Built: the recipients are written, and a failure to is only said. *)
WriteRecipients ==
  /\ pc = "opening"
  /\ csv' \in {"ours", csv}
  /\ pc' = "build"
  /\ look' = Idle
  /\ UNCHANGED <<file, answer, cleared, wallet, moved>>

(* Mutant of SignedPaths: the PSBT's own extension and nothing else. *)
PsbtOnly == <<SignedPath>>

SignedPaths == <<SignedPath, "txn">>

Watched == IF pc = "build" THEN <<Unsigned>> ELSE SignedPaths
Looking == Watched[look.index]

(* The path's look is over with no answer: the next one, or the tick. *)
LookedAway ==
  look' = IF look.index < Len(Watched)
          THEN [Idle EXCEPT !.index = look.index + 1]
          ELSE [Idle EXCEPT !.step = "tick"]

Polling == pc \in {"build", "sign"} /\ answer = Absent

(* readWhole, first stat: nothing is read of an absent or an empty file. *)
Stat ==
  /\ Polling /\ look.step = "stat"
  /\ IF file[Looking].size = 0
     THEN LookedAway
     ELSE look' = [look EXCEPT !.step = "read", !.before = file[Looking].size]
  /\ moved' = "still"
  /\ UNCHANGED <<pc, file, csv, answer, cleared, wallet>>

ReadFile ==
  /\ Polling /\ look.step = "read"
  /\ IF Exists(Looking)
     THEN look' = [look EXCEPT !.step = "again", !.body = file[Looking]]
     ELSE LookedAway
  /\ UNCHANGED <<pc, file, csv, answer, cleared, wallet, moved>>

(* Mutant of IsWhole: one stat, and what was read is as long as it said. *)
OneStat(before, body, after) == body.size = before

(* Neither the stats nor what was read between them differ in size. *)
IsWhole(before, body, after) == after = before /\ body.size = after

StatAgain ==
  /\ Polling /\ look.step = "again"
  /\ IF Exists(Looking) /\ IsWhole(look.before, look.body, file[Looking].size)
     THEN answer' = look.body /\ look' = Idle
     ELSE LookedAway /\ UNCHANGED answer
  /\ UNCHANGED <<pc, file, csv, cleared, wallet, moved>>

Tick ==
  /\ Polling /\ look.step = "tick"
  /\ look' = Idle
  /\ UNCHANGED <<pc, file, csv, answer, cleared, wallet, moved>>

(* The operator's interrupt, or the run's own end, during either wait. *)
WaitInterrupted ==
  /\ Polling /\ look.step = "tick"
  /\ pc' = "failed"
  /\ UNCHANGED <<file, csv, look, answer, cleared, wallet, moved>>

(* combine.Parse and combine.Unsigned at step 4; either encoding at step   *)
(* 7.  A prefix of a file decodes as nothing.                              *)
Accepts(question, f) ==
  /\ f.size = Whole
  /\ question = "build" => f.kind = "psbt"

Decode ==
  /\ pc \in {"build", "sign"} /\ answer # Absent
  /\ pc' = CASE ~Accepts(pc, answer) -> "failed"
             [] pc = "build"         -> "built"
             [] OTHER                -> "signed"
  /\ UNCHANGED <<file, csv, look, answer, cleared, wallet, moved>>

(* The plan is checked and LND armed; step 7 asks for the signed one. *)
Armed ==
  /\ pc = "built"
  /\ pc' = "clear"
  /\ answer' = Absent
  /\ UNCHANGED <<file, csv, look, cleared, wallet, moved>>

(* Mutant of ToClear: the name that has always been watched is cleared. *)
FirstOnly == {SignedPath}

ToClear == ToSet(SignedPaths)

(* os.Remove of each name Signed is about to watch; it may fail. *)
ClearPath(p) ==
  /\ pc = "clear" /\ p \in ToClear \ cleared
  /\ file' = [file EXCEPT ![p] = Absent]
  /\ save' = IF save.path = p THEN [save EXCEPT !.linked = FALSE] ELSE save
  /\ cleared' = cleared \cup {p}
  /\ UNCHANGED <<pc, csv, look, answer, saves, moved>>

ClearFails ==
  /\ pc = "clear" /\ \E p \in ToClear \ cleared : Exists(p)
  /\ pc' = "failed"
  /\ UNCHANGED <<file, csv, look, answer, cleared, wallet, moved>>

Ask ==
  /\ pc = "clear" /\ ToClear \subseteq cleared
  /\ pc' = "sign"
  /\ look' = Idle
  /\ UNCHANGED <<file, csv, answer, cleared, wallet, moved>>

-----------------------------------------------------------------------------
(* The wallet program, external. *)

Epoch == IF pc \in {"clear", "sign", "signed"} THEN 2 ELSE 1

SaveBegins(p, kind) ==
  /\ save = NoSave /\ saves < MaxSaves
  /\ file' = [file EXCEPT ![p] = [kind |-> kind, size |-> 0, epoch |-> Epoch]]
  /\ save' = [path |-> p, linked |-> TRUE]
  /\ saves' = saves + 1
  /\ moved' = IF Polling /\ p = Looking THEN "remade" ELSE moved
  /\ UNCHANGED <<pc, csv, look, answer, cleared>>

SaveWrites ==
  /\ save # NoSave
  /\ save.linked /\ file[save.path].size < Whole
  /\ file' = [file EXCEPT ![save.path].size = @ + 1]
  /\ moved' = IF Polling /\ save.path = Looking /\ moved = "still" THEN "grew" ELSE moved
  /\ UNCHANGED <<pc, csv, look, answer, cleared, wallet>>

SaveEnds ==
  /\ save # NoSave
  /\ save.linked => file[save.path].size = Whole
  /\ save' = NoSave
  /\ UNCHANGED <<pc, file, csv, look, answer, cleared, saves, moved>>

Poller ==
  \/ NewFileWallet \/ WriteRecipients \/ Armed \/ Ask
  \/ Stat \/ ReadFile \/ StatAgain \/ Tick \/ Decode
  \/ \E p \in Paths : ClearPath(p)

WalletOver == pc \in {"signed", "failed"} /\ UNCHANGED fvars

FileNext ==
  \/ Poller \/ WaitInterrupted \/ ClearFails
  \/ \E p \in Paths, kind \in Kinds : SaveBegins(p, kind)
  \/ SaveWrites \/ SaveEnds \/ WalletOver

FileSpec == FileInit /\ [][FileNext]_fvars

(* The poller is a ticker's loop; a save that has begun is finished, and   *)
(* the operator starts one sooner or later or never.                       *)
FileFairSpec == FileSpec /\ WF_fvars(Poller) /\ WF_fvars(SaveWrites) /\ WF_fvars(SaveEnds)

-----------------------------------------------------------------------------
(* The answer to a question was created after what makes it one: the       *)
(* unsigned file within this run, the signed one since Signed began to     *)
(* clear the names it watches (wallet.go, Signed: "a file left by an       *)
(* earlier attempt cannot be read as this one's").                         *)
NothingStaleIsRead ==
  answer # Absent =>
    answer.epoch >= (IF pc \in {"sign", "signed"} THEN 2 ELSE 1)

(* A prefix is returned only if it sat still: the save that was under way  *)
(* added nothing between the first stat and the answer (readWhole: "that   *)
(* gap is closed only to the width of the read"), short of a second save   *)
(* that truncates the file and regrows it to the same size meanwhile.      *)
PrefixSatStill ==
  [][answer' # answer /\ answer' # Absent /\ answer'.size < Whole
       => moved # "grew"]_fvars

(* A whole file under a name that is watched is read, unless the operator  *)
(* gives up or writes over it.                                             *)
SavedIsRead ==
  \A p \in {SignedPath, "txn"} :
    (pc = "sign" /\ file[p].size = Whole) ~>
      (pc # "sign" \/ answer # Absent \/ file[p].size # Whole)
=============================================================================
