------------------------------ MODULE Recovery ------------------------------
(***************************************************************************)
(* Taking a batch apart: journal.Recover over abort.Run, one step per      *)
(* journal transaction and per LND call, for any number of processes: the  *)
(* run that failed (run.recoverRun) and `winthistle recover` in another    *)
(* terminal (run.RecoverOne) call the same code.                           *)
(*                                                                         *)
(* `at' is the channel a process asks the operator about; the channels and *)
(* shims of one target are taken in any order, which the random pending    *)
(* channel ids make the code's order too.                                  *)
(***************************************************************************)
EXTENDS Naturals, Journal, Lnd

CONSTANTS Procs,      \* the processes that may be in Recover
          NoChannel,  \* no channel
          MaxFaults   \* a bound on crashes, lost calls and refusals

ASSUME FaultsAssumption == MaxFaults \in Nat
ASSUME NoChannelAssumption == NoChannel \notin Channels

VARIABLES step,       \* where each process is in Recover
          seen,       \* the run state it loaded
          target,     \* abort.Target: what is left to abandon and to cancel
          at,         \* the channel being abandoned
          report,     \* abort.Report
          faults      \* faults so far

recVars == <<step, seen, target, at, report, faults>>

Steps == {"idle", "load", "rows", "mark", "work", "lookup", "confirm",
          "blunt", "record", "left", "leftrows", "close"}

EmptyTarget == [channels |-> {}, shims |-> {}]

EmptyReport ==
  [abandoned |-> {}, cancelled |-> {}, gone |-> {}, failed |-> FALSE]

Targets == [channels : SUBSET Channels, shims : SUBSET Channels]

Reports == [abandoned : SUBSET Channels, cancelled : SUBSET Channels,
            gone : SUBSET Channels, failed : BOOLEAN]

RecTypeOK ==
  /\ step \in [Procs -> Steps]
  /\ seen \in [Procs -> RunStates]
  /\ target \in [Procs -> Targets]
  /\ at \in [Procs -> Channels \cup {NoChannel}]
  /\ \A p \in Procs :
       step[p] \in {"lookup", "confirm", "blunt"} => at[p] \in Channels
  /\ report \in [Procs -> Reports]
  /\ faults \in 0 .. MaxFaults

RecInit ==
  /\ step = [p \in Procs |-> "idle"]
  /\ seen = [p \in Procs |-> "absent"]
  /\ target = [p \in Procs |-> EmptyTarget]
  /\ at = [p \in Procs |-> NoChannel]
  /\ report = [p \in Procs |-> EmptyReport]
  /\ faults = 0

Faulty == faults < MaxFaults /\ faults' = faults + 1

Goto(p, s) == step' = [step EXCEPT ![p] = s]

(* Recover returns. *)
Return(p) ==
  /\ Goto(p, "idle")
  /\ seen' = [seen EXCEPT ![p] = "absent"]
  /\ target' = [target EXCEPT ![p] = EmptyTarget]
  /\ at' = [at EXCEPT ![p] = NoChannel]
  /\ report' = [report EXCEPT ![p] = EmptyReport]

----------------------------------------------------------------------------
(* Load, and the decision to abort *)

(* Load is two queries, and another process may write between them. *)
LoadRun(p) ==
  /\ step[p] = "load"
  /\ seen' = [seen EXCEPT ![p] = runState]
  /\ Goto(p, "rows")
  /\ UNCHANGED <<target, at, report, faults, jvars, lndVars>>

(* AbortTarget refuses a run that reached the publish call. *)
RefuseTarget(p) ==
  /\ step[p] \in {"rows", "leftrows"}
  /\ MayBePublished(seen[p])
  /\ Return(p)
  /\ UNCHANGED <<faults, jvars, lndVars>>

(* Mutant of LoadRows: AbortTarget no longer refuses publishing, only        *)
(* published.                                                                *)
LoadUnpublishedRows(p) ==
  /\ step[p] = "rows"
  /\ seen[p] # "published"
  /\ target' = [target EXCEPT ![p] = [channels |-> TargetChannels(chanState),
                                      shims |-> TargetShims(chanState)]]
  /\ Goto(p, IF seen[p] = "aborting" THEN "work" ELSE "mark")
  /\ UNCHANGED <<seen, at, report, faults, jvars, lndVars>>

LoadRows(p) ==
  /\ step[p] = "rows"
  /\ ~MayBePublished(seen[p])
  /\ target' = [target EXCEPT ![p] = [channels |-> TargetChannels(chanState),
                                      shims |-> TargetShims(chanState)]]
  /\ Goto(p, IF seen[p] = "aborting" THEN "work" ELSE "mark")
  /\ UNCHANGED <<seen, at, report, faults, jvars, lndVars>>

MarkAborting(p) ==
  /\ step[p] = "mark"
  /\ SetAborting
  /\ Goto(p, "work")
  /\ UNCHANGED <<seen, target, at, report, faults, lndVars>>

----------------------------------------------------------------------------
(* abort.Run: every channel by outpoint, then every shim by id *)

Abandoned(p, c) == report' = [report EXCEPT ![p].abandoned = @ \cup {c}]

Failed(p) == report' = [report EXCEPT ![p].failed = TRUE]

ChannelDone(p, c) ==
  /\ target' = [target EXCEPT ![p].channels = @ \ {c}]
  /\ at' = [at EXCEPT ![p] = NoChannel]
  /\ Goto(p, "work")
  /\ UNCHANGED <<seen, jvars>>

(* The safe flag.  LND takes every channel of this program for one that is *)
(* not shim-funded and declines it, unless it no longer has it at all.     *)
AbandonSafely(p, c) ==
  /\ step[p] = "work"
  /\ c \in target[p].channels
  /\ ~Standing(c)
  /\ Abandoned(p, c)
  /\ ChannelDone(p, c)
  /\ UNCHANGED <<faults, lndVars>>

SafeFlagDeclined(p, c) ==
  /\ step[p] = "work"
  /\ c \in target[p].channels
  /\ Standing(c)
  /\ at' = [at EXCEPT ![p] = c]
  /\ Goto(p, "lookup")
  /\ UNCHANGED <<seen, target, report, faults, jvars, lndVars>>

(* isPendingOpen: a channel that is not pending is not offered at all. *)
LookupPending(p) ==
  /\ step[p] = "lookup"
  /\ chan[at[p]] = "pending"
  /\ Goto(p, "confirm")
  /\ UNCHANGED <<seen, target, at, report, faults, jvars, lndVars>>

LookupNotPending(p) ==
  /\ step[p] = "lookup"
  /\ chan[at[p]] # "pending"
  /\ Failed(p)
  /\ ChannelDone(p, at[p])
  /\ UNCHANGED <<faults, lndVars>>

(* The operator consents, for this channel, after any length of time. *)
OperatorConfirms(p) ==
  /\ step[p] = "confirm"
  /\ Goto(p, "blunt")
  /\ UNCHANGED <<seen, target, at, report, faults, jvars, lndVars>>

AbandonBluntly(p) ==
  /\ step[p] = "blunt"
  /\ RemoveChannel(at[p])
  /\ Abandoned(p, at[p])
  /\ ChannelDone(p, at[p])
  /\ UNCHANGED faults

(* A call fails or the operator declines.  The blunt call that timed out   *)
(* may have been carried out.                                              *)
AbandonFails(p, c) ==
  /\ \/ step[p] = "work" /\ c \in target[p].channels /\ UNCHANGED lndVars
     \/ step[p] \in {"lookup", "confirm"} /\ c = at[p] /\ UNCHANGED lndVars
     \/ step[p] = "blunt" /\ c = at[p] /\ (RemoveChannel(c) \/ UNCHANGED lndVars)
  /\ Faulty
  /\ Failed(p)
  /\ ChannelDone(p, c)

CancelShim(p, c) ==
  /\ step[p] = "work"
  /\ target[p].channels = {}
  /\ c \in target[p].shims
  /\ IF shim[c] # "none"
     THEN /\ DropShim(c)
          /\ report' = [report EXCEPT ![p].cancelled = @ \cup {c}]
     ELSE /\ UNCHANGED lndVars
          /\ report' = [report EXCEPT ![p].gone = @ \cup {c}]
  /\ target' = [target EXCEPT ![p].shims = @ \ {c}]
  /\ UNCHANGED <<step, seen, at, faults, jvars>>

CancelFails(p, c) ==
  /\ step[p] = "work"
  /\ target[p].channels = {}
  /\ c \in target[p].shims
  /\ Faulty
  /\ (shim[c] # "none" /\ DropShim(c)) \/ UNCHANGED lndVars
  /\ Failed(p)
  /\ target' = [target EXCEPT ![p].shims = @ \ {c}]
  /\ UNCHANGED <<step, seen, at, jvars>>

AbortDone(p) ==
  /\ step[p] = "work"
  /\ target[p] = EmptyTarget
  /\ Goto(p, "record")
  /\ UNCHANGED <<seen, target, at, report, faults, jvars, lndVars>>

----------------------------------------------------------------------------
(* What happened goes on disk, and the run is closed if nothing is left *)

RecordOutcome(p) ==
  /\ step[p] = "record"
  /\ RecordAbort(report[p].abandoned, report[p].cancelled, report[p].gone)
  /\ IF report[p].failed
     THEN Return(p)
     ELSE Goto(p, "left") /\ UNCHANGED <<seen, target, at, report>>
  /\ UNCHANGED <<faults, lndVars>>

ReloadRun(p) ==
  /\ step[p] = "left"
  /\ seen' = [seen EXCEPT ![p] = runState]
  /\ Goto(p, "leftrows")
  /\ UNCHANGED <<target, at, report, faults, jvars, lndVars>>

(* Mutant of LeftStanding: a clean report is taken for an empty batch, as   *)
(* it was before #32.                                                       *)
CleanIsEnough(p) ==
  /\ step[p] = "leftrows"
  /\ ~MayBePublished(seen[p])
  /\ Goto(p, "close")
  /\ UNCHANGED <<seen, target, at, report, faults, jvars, lndVars>>

(* leftStanding asks AbortTarget again. *)
LeftStanding(p) ==
  /\ step[p] = "leftrows"
  /\ ~MayBePublished(seen[p])
  /\ IF TargetChannels(chanState) = {} /\ TargetShims(chanState) = {}
     THEN Goto(p, "close") /\ UNCHANGED <<seen, target, at, report>>
     ELSE Return(p)
  /\ UNCHANGED <<faults, jvars, lndVars>>

CloseRun(p) ==
  /\ step[p] = "close"
  /\ SetAborted
  /\ Return(p)
  /\ UNCHANGED <<faults, lndVars>>

(* A journal write or read that fails, which ends Recover. *)
JournalFails(p) ==
  /\ step[p] \in {"load", "rows", "mark", "record", "left", "leftrows", "close"}
  /\ Faulty
  /\ Return(p)
  /\ UNCHANGED <<jvars, lndVars>>

AbortStep(p) ==
  \/ \E c \in Channels : \/ AbandonSafely(p, c)
                         \/ SafeFlagDeclined(p, c)
                         \/ AbandonFails(p, c)
                         \/ CancelShim(p, c)
                         \/ CancelFails(p, c)
  \/ LookupPending(p)
  \/ LookupNotPending(p)
  \/ OperatorConfirms(p)
  \/ AbandonBluntly(p)
  \/ AbortDone(p)

RecoverStep(p) ==
  \/ LoadRun(p)
  \/ RefuseTarget(p)
  \/ LoadRows(p)
  \/ MarkAborting(p)
  \/ AbortStep(p)
  \/ RecordOutcome(p)
  \/ ReloadRun(p)
  \/ LeftStanding(p)
  \/ CloseRun(p)
  \/ JournalFails(p)
=============================================================================
