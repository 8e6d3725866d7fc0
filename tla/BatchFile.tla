----------------------------- MODULE BatchFile -----------------------------
(***************************************************************************)
(* The batch file (internal/config) from its tables to the policy update   *)
(* that LND is sent for each channel (internal/policy, settle.request):    *)
(* what an operator writes once, reviews, and what the channels then       *)
(* charge.  Between the two are LND's defaults, a [policy] table, the      *)
(* overrides of a [[channel]], three narrowings of a 64-bit integer, a     *)
(* validation, and a wire message with its own idea of "not specified".    *)
(*                                                                         *)
(* Abstracted: a table is a function from the keys it sets to integers; a  *)
(* peer is a spelling of its key, 0 for what is no pubkey; host and        *)
(* private, which only travel along, and the text of the file below a      *)
(* key's value are left out.  The widths are parameters, so that TLC can   *)
(* reach their ends.                                                       *)
(***************************************************************************)
EXTENDS Integers, Sequences, FiniteSetsExt

CONSTANTS Files,      \* the files an operator may write
          M32,        \* 2^32
          M64,        \* 2^64
          MinDelta,   \* routing.MinCLTVDelta
          MaxDelta,   \* routing.MaxCLTVDelta
          Defaults    \* PolicyDefaults: LND's base fee, rate and delta

ASSUME WidthAssumption ==
  /\ M32 \in Nat \ {0} /\ M64 \in Nat \ {0}
  /\ M32 % 2 = 0 /\ M64 % 2 = 0
  /\ MinDelta \in 1 .. MaxDelta
  /\ MaxDelta \in 0 .. M32 - 1
  /\ Defaults.rate \in 0 .. M32 - 1 /\ Defaults.delta \in 0 .. M32 - 1

(* A file is a sequence of tables, each with the integers that its keys are *)
(* set to; a channel is known by the place of its table.                    *)
ASSUME FilesAssumption ==
  \A f \in Files :
    /\ DOMAIN f = 1 .. Len(f)
    /\ \A i \in DOMAIN f :
         /\ f[i] = [name |-> f[i].name, double |-> f[i].double, vals |-> f[i].vals]
         /\ f[i].vals \in [DOMAIN f[i].vals -> Int]

VARIABLES file,      \* the tables, in file order
          stage,     \* "read", "refused", "loaded" or "sent"
          batch,     \* Batch.Channels
          requests   \* what UpdateChannelPolicy is called with

bvars == <<file, stage, batch, requests>>

PolicyKeys == {"base", "rate", "delta", "min", "max", "in_base", "in_rate"}

ChannelKeys == PolicyKeys \cup {"peer", "amount"}

(* A value that may be missing is a sequence of none or one. *)
Unset == <<>>

BatchInit ==
  /\ file \in Files
  /\ stage = "read"
  /\ batch = <<>>
  /\ requests = <<>>

----------------------------------------------------------------------------
(* Tables: parse, section, array and unknown *)

(* [name] is refused if a table of that name came before it; [[name]] never *)
(* is.                                                                      *)
Parses(f) ==
  \A i \in DOMAIN f :
    ~f[i].double => \A j \in 1 .. i - 1 : f[j].name # f[i].name

Named(f, n) == {i \in DOMAIN f : f[i].name = n}

(* section: the first table of the name; none reads as an empty one. *)
PolicyTable(f) ==
  LET said == Named(f, "policy")
  IN IF said = {} THEN <<>> ELSE f[Min(said)].vals

(* Mutant of Used: any key of the vocabulary counts as read. *)
KnownKey(f, i, k) == k \in ChannelKeys

(* A key is used if an accessor asked for it in the table it stands in. *)
Used(f, i, k) ==
  \/ f[i].name = "channel" /\ k \in ChannelKeys
  \/ /\ f[i].name = "policy"
     /\ \A j \in 1 .. i - 1 : f[j].name # "policy"
     /\ k \in PolicyKeys

UnknownKey(f) ==
  \E i \in DOMAIN f :
    \/ f[i].name \notin {"policy", "channel"}
    \/ \E k \in DOMAIN f[i].vals : ~Used(f, i, k)

----------------------------------------------------------------------------
(* A policy: readPolicy and Validate *)

Value(t, k, default) == IF k \in DOMAIN t THEN t[k] ELSE default

Optional(t, k, default) == IF k \in DOMAIN t THEN <<t[k]>> ELSE default

UInt32(n) == n % M32

UInt64(n) == n % M64

Int32(n) == ((n + M32 \div 2) % M32) - (M32 \div 2)

(* Mutant of ReadPolicy: "not specified" starts out as zero. *)
ReadZeroMin(t, def) ==
  [base    |-> Value(t, "base", def.base),
   rate    |-> UInt32(Value(t, "rate", def.rate)),
   delta   |-> UInt32(Value(t, "delta", def.delta)),
   min     |-> Optional(t, "min", <<0>>),
   max     |-> UInt64(Value(t, "max", def.max)),
   in_base |-> Int32(Value(t, "in_base", def.in_base)),
   in_rate |-> Int32(Value(t, "in_rate", def.in_rate))]

ReadPolicy(t, def) ==
  [base    |-> Value(t, "base", def.base),
   rate    |-> UInt32(Value(t, "rate", def.rate)),
   delta   |-> UInt32(Value(t, "delta", def.delta)),
   min     |-> Optional(t, "min", def.min),
   max     |-> UInt64(Value(t, "max", def.max)),
   in_base |-> Int32(Value(t, "in_base", def.in_base)),
   in_rate |-> Int32(Value(t, "in_rate", def.in_rate))]

PolicyDefaults ==
  [base |-> Defaults.base, rate |-> Defaults.rate, delta |-> Defaults.delta,
   min |-> Unset, max |-> 0, in_base |-> 0, in_rate |-> 0]

Valid(p) ==
  /\ p.delta \in MinDelta .. MaxDelta
  /\ p.base >= 0
  /\ p.in_base <= 0 /\ p.in_rate <= 0

----------------------------------------------------------------------------
(* LoadBatch *)

Default(f) == ReadPolicy(PolicyTable(f), PolicyDefaults)

ReadChannel(f, t) ==
  [peer   |-> Value(t.vals, "peer", 0),
   amount |-> Value(t.vals, "amount", 0),
   policy |-> ReadPolicy(t.vals, Default(f))]

Channels(f) == [i \in Named(f, "channel") |-> ReadChannel(f, f[i])]

Acceptable(chs) ==
  /\ chs # <<>>
  /\ \A i \in DOMAIN chs : /\ chs[i].peer # 0
                           /\ chs[i].amount > 0
                           /\ Valid(chs[i].policy)
  /\ \A i, j \in DOMAIN chs : chs[i].peer = chs[j].peer => i = j

LoadBatch ==
  /\ stage = "read"
  /\ IF /\ Parses(file)
        /\ Valid(Default(file))
        /\ Acceptable(Channels(file))
        /\ ~UnknownKey(file)
     THEN stage' = "loaded" /\ batch' = Channels(file)
     ELSE stage' = "refused" /\ UNCHANGED batch
  /\ UNCHANGED <<file, requests>>

(* settle.request: min_htlc_msat goes with its own flag, the inbound fees   *)
(* only if one of them is set, and a maximum of zero leaves LND's.          *)
Request(ch) ==
  LET p == ch.policy
  IN [peer    |-> ch.peer,
      base    |-> p.base,
      rate    |-> p.rate,
      delta   |-> p.delta,
      min     |-> IF p.min = Unset THEN Unset ELSE <<UInt64(p.min[1])>>,
      max     |-> p.max,
      inbound |-> IF p.in_base = 0 /\ p.in_rate = 0 THEN Unset
                  ELSE <<p.in_base, p.in_rate>>]

(* ArmChannels, and the policy pass of the settlement. *)
ApplyPolicies ==
  /\ stage = "loaded"
  /\ requests' = [i \in DOMAIN batch |-> Request(batch[i])]
  /\ stage' = "sent"
  /\ UNCHANGED <<file, batch>>

Over == stage \in {"refused", "sent"} /\ UNCHANGED bvars

BatchNext == LoadBatch \/ ApplyPolicies \/ Over

BatchSpec == BatchInit /\ [][BatchNext]_bvars

----------------------------------------------------------------------------
(* What the file says, without reading it the way the code does *)

(* The channel's own keys, and those [policy] sets beside them. *)
Said(t) ==
  LET said == Named(file, "policy")
      keys == (UNION {DOMAIN file[i].vals : i \in said}) \cup DOMAIN t.vals
  IN [k \in keys |->
        IF k \in DOMAIN t.vals THEN t.vals[k]
        ELSE file[CHOOSE i \in said : k \in DOMAIN file[i].vals].vals[k]]

(* What is said of a key, or LND's default. *)
Written(t, k, default) == IF k \in DOMAIN Said(t) THEN Said(t)[k] ELSE default

(* A field of the wire holds one integer of its range, and that differs from *)
(* what is written by whole widths: it is the same one wherever it can be.   *)
SentAs(sent, written, range, width) ==
  sent \in range /\ (written - sent) % width = 0

(***************************************************************************)
(* What LND is sent for a channel is what the file says of that peer, its  *)
(* own keys, else [policy]'s, else LND's defaults: the very integer if the *)
(* field can hold it, and the one the field wraps it to if not, which an   *)
(* accepted file may do as long as the result is one that LND takes.  A    *)
(* minimum HTLC is specified exactly if the file specifies one, zero       *)
(* included, and inbound fees exactly if one of them is not sent as zero.  *)
(***************************************************************************)
RequestIsTheFile ==
  stage = "sent" =>
    \A i \in DOMAIN requests :
      LET t == file[i]
          r == requests[i]
          fees == IF r.inbound = Unset THEN <<0, 0>> ELSE r.inbound
          negative == -(M32 \div 2) .. 0
      IN /\ r.peer = t.vals["peer"]
         /\ r.base = Written(t, "base", Defaults.base) /\ r.base >= 0
         /\ SentAs(r.rate, Written(t, "rate", Defaults.rate), 0 .. M32 - 1, M32)
         /\ SentAs(r.delta, Written(t, "delta", Defaults.delta), MinDelta .. MaxDelta, M32)
         /\ r.min = Unset <=> "min" \notin DOMAIN Said(t)
         /\ r.min # Unset => SentAs(r.min[1], Said(t)["min"], 0 .. M64 - 1, M64)
         /\ SentAs(r.max, Written(t, "max", 0), 0 .. M64 - 1, M64)
         /\ SentAs(fees[1], Written(t, "in_base", 0), negative, M32)
         /\ SentAs(fees[2], Written(t, "in_rate", 0), negative, M32)
         /\ r.inbound # <<0, 0>>

(***************************************************************************)
(* A file that is accepted has no key that changes nothing: a second       *)
(* [[policy]], a channel's key in the policy table, a misspelt section or  *)
(* key, all refuse it (document.unknown).                                  *)
(***************************************************************************)
NoKeyIsIdle ==
  stage \in {"loaded", "sent"} =>
    \A i \in DOMAIN file : \A k \in DOMAIN file[i].vals :
      \/ Channels([file EXCEPT ![i].vals[k] = @ + 1]) # Channels(file)
      \/ /\ file[i].name = "policy"
         /\ k \in PolicyKeys
         /\ \A j \in DOMAIN file :
              file[j].name = "channel" => k \in DOMAIN file[j].vals
============================================================================
