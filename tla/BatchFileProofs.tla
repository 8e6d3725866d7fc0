--------------------------- MODULE BatchFileProofs ---------------------------
(***************************************************************************)
(* Proof that LND is sent what the batch file says, for every file, every  *)
(* set of defaults and every width of the integers.                        *)
(*                                                                         *)
(* The reader and the property look the file up in two ways: the reader    *)
(* takes the first [policy] table and passes a policy through two rounds   *)
(* of narrowing; the property takes whatever table names the key and asks  *)
(* that what is sent differs by whole widths.  They meet because an        *)
(* accepted file has no key that nothing asked for, so only the first      *)
(* [policy] table has any, and because a narrowing repeated changes        *)
(* nothing more.                                                           *)
(*                                                                         *)
(* And that no key of an accepted file is idle: every conversion tells     *)
(* neighbours apart, so a key that changes a field is seen in the request. *)
(***************************************************************************)
EXTENDS BatchFile, WellFoundedInduction, TLAPS

USE DEF Named

(* A set of numbers that is not empty has a least member.                  *)
LEMMA LeastIsThere ==
  ASSUME NEW S, S \subseteq Nat, S # {}
  PROVE  Min(S) \in S /\ \A i \in S : Min(S) <= i
<1>1. PICK x \in S : \A y \in S : <<y, x>> \notin OpToRel(<, Nat)
  BY NatLessThanWellFounded, WFMin
<1>2. \A y \in S : x <= y
  <2>1. SUFFICES ASSUME NEW y \in S, ~(x <= y) PROVE FALSE
    OBVIOUS
  <2>2. x \in Nat /\ y \in Nat /\ y < x
    BY <2>1
  <2>3. <<y, x>> \in OpToRel(<, Nat)
    BY <2>2 DEF OpToRel
  <2> QED
    BY <1>1, <2>3
<1> QED
  BY <1>2 DEF Min

(* A conversion to a narrower integer leaves alone what fits.              *)
LEMMA Narrowings ==
  /\ \A n \in 0 .. M32 - 1 : UInt32(n) = n
  /\ \A n \in 0 .. M64 - 1 : UInt64(n) = n
  /\ \A n \in -(M32 \div 2) .. (M32 \div 2) - 1 : Int32(n) = n
<1>1. \A m \in Nat \ {0} : \A n \in 0 .. m - 1 : n % m = n
  OBVIOUS
<1>2. M32 = 2 * (M32 \div 2) /\ M32 \div 2 \in Nat
  BY WidthAssumption
<1>3. \A n \in 0 .. M32 - 1 : UInt32(n) = n
  BY <1>1, WidthAssumption DEF UInt32
<1>4. \A n \in 0 .. M64 - 1 : UInt64(n) = n
  BY <1>1, WidthAssumption DEF UInt64
<1>5. ASSUME NEW n \in -(M32 \div 2) .. (M32 \div 2) - 1 PROVE Int32(n) = n
  <2>1. n \in Int /\ n + (M32 \div 2) \in 0 .. M32 - 1
    BY <1>2
  <2>2. (n + (M32 \div 2)) % M32 = n + (M32 \div 2)
    BY <1>1, <2>1, WidthAssumption
  <2> QED
    BY <1>2, <2>1, <2>2 DEF Int32
<1> QED
  BY <1>3, <1>4, <1>5

(* In an accepted file the [policy] table that has a key is the one that is*)
(* read.                                                                   *)
LEMMA KeysAreInTheTableRead ==
  ASSUME NEW f, DOMAIN f = 1 .. Len(f), ~UnknownKey(f),
         NEW i \in DOMAIN f, f[i].name = "policy", NEW k \in DOMAIN f[i].vals
  PROVE  PolicyTable(f) = f[i].vals
<1> DEFINE said == Named(f, "policy")
<1>1. Used(f, i, k)
  BY DEF UnknownKey
<1>2. \A j \in 1 .. i - 1 : f[j].name # "policy"
  BY <1>1 DEF Used
<1>3. said \subseteq Nat /\ i \in said
  OBVIOUS
<1>4. Min(said) \in said /\ Min(said) <= i
  BY <1>3, LeastIsThere
<1>5. Min(said) = i
  BY <1>2, <1>3, <1>4
<1> QED
  BY <1>3, <1>5 DEF PolicyTable

(* A table that has a key was not made up for a file without [policy].     *)
LEMMA TableReadIsInTheFile ==
  ASSUME NEW f, DOMAIN f = 1 .. Len(f), NEW k \in DOMAIN PolicyTable(f)
  PROVE  \E i \in DOMAIN f : /\ f[i].name = "policy"
                             /\ PolicyTable(f) = f[i].vals
<1> DEFINE said == Named(f, "policy")
<1>1. said # {}
  <2>1. said = {} => PolicyTable(f) = <<>>
    BY DEF PolicyTable
  <2>2. DOMAIN <<>> = {}
    OBVIOUS
  <2> QED
    BY <2>1, <2>2
<1>2. said \subseteq Nat
  OBVIOUS
<1>3. Min(said) \in said
  BY <1>1, <1>2, LeastIsThere
<1>4. PolicyTable(f) = f[Min(said)].vals
  BY <1>1 DEF PolicyTable
<1> QED
  BY <1>3, <1>4

(* What is said of a key, found without the reader's rules, is what the    *)
(* reader finds.                                                           *)
LEMMA SaidIsRead ==
  ASSUME DOMAIN file = 1 .. Len(file), ~UnknownKey(file), NEW t, NEW k
  PROVE  /\ k \in DOMAIN Said(t) <=> \/ k \in DOMAIN t.vals
                                    \/ k \in DOMAIN PolicyTable(file)
         /\ k \in DOMAIN t.vals => Said(t)[k] = t.vals[k]
         /\ k \in DOMAIN PolicyTable(file) /\ k \notin DOMAIN t.vals
              => Said(t)[k] = PolicyTable(file)[k]
<1> DEFINE said == Named(file, "policy")
           keys == (UNION {DOMAIN file[i].vals : i \in said}) \cup DOMAIN t.vals
           there == CHOOSE i \in said : k \in DOMAIN file[i].vals
<1>1. /\ DOMAIN Said(t) = keys
      /\ k \in keys => Said(t)[k] = IF k \in DOMAIN t.vals THEN t.vals[k]
                                    ELSE file[there].vals[k]
  BY DEF Said
<1>2. k \in DOMAIN PolicyTable(file) <=> \E i \in said : k \in DOMAIN file[i].vals
  <2>1. \A i \in said : k \in DOMAIN file[i].vals => PolicyTable(file) = file[i].vals
    BY KeysAreInTheTableRead
  <2>2. k \in DOMAIN PolicyTable(file) => \E i \in said : PolicyTable(file) = file[i].vals
    BY TableReadIsInTheFile
  <2> QED
    BY <2>1, <2>2
<1>3. k \in DOMAIN PolicyTable(file) => file[there].vals = PolicyTable(file)
  <2>1. SUFFICES ASSUME k \in DOMAIN PolicyTable(file)
                 PROVE  file[there].vals = PolicyTable(file)
    OBVIOUS
  <2>2. there \in said /\ k \in DOMAIN file[there].vals
    BY <1>2, <2>1
  <2> HIDE DEF there
  <2> QED
    BY <2>2, KeysAreInTheTableRead
<1> HIDE DEF there
<1>4. k \in keys <=> k \in DOMAIN t.vals \/ k \in DOMAIN PolicyTable(file)
  <2>1. k \in UNION {DOMAIN file[i].vals : i \in said}
          <=> \E i \in said : k \in DOMAIN file[i].vals
    OBVIOUS
  <2> QED
    BY <1>2, <2>1
<1> HIDE DEF keys
<1> QED
  BY <1>1, <1>3, <1>4

(* The channel's own key, else the policy table's, else the default.       *)
LEMMA WrittenIsRead ==
  ASSUME DOMAIN file = 1 .. Len(file), ~UnknownKey(file), NEW t, NEW k, NEW default
  PROVE  Written(t, k, default) = Value(t.vals, k, Value(PolicyTable(file), k, default))
BY SaidIsRead DEF Written, Value

(* A number and its remainder differ by a multiple of the divisor.         *)
LEMMA RemainderIsCongruent ==
  \A m \in Nat \ {0} : \A n \in Int :
    n % m \in 0 .. m - 1 /\ (n - (n % m)) % m = 0
<1> SUFFICES ASSUME NEW m \in Nat \ {0}, NEW n \in Int
             PROVE  n % m \in 0 .. m - 1 /\ (n - (n % m)) % m = 0
  OBVIOUS
<1> DEFINE q == n \div m
           k == n - (n % m)
           p == k \div m
           r == k % m
<1>1. n % m \in 0 .. m - 1
  OBVIOUS
<1>2. q \in Int /\ n = m * q + (n % m)
  OBVIOUS
<1>3. k \in Int /\ k = m * q
  BY <1>1, <1>2
<1> HIDE DEF k
<1>4. p \in Int /\ r \in 0 .. m - 1 /\ k = m * p + r
  BY <1>3
<1> HIDE DEF p, q, r
<1>5. CASE p = q
  BY <1>1, <1>2, <1>3, <1>4, <1>5 DEF k, r
<1>6. CASE p >= q + 1
  <2>1. m * p >= m * (q + 1)
    BY <1>2, <1>4, <1>6
  <2>2. m * (q + 1) = m * q + m
    BY <1>2
  <2> QED
    BY <1>2, <1>3, <1>4, <2>1, <2>2
<1>7. CASE q >= p + 1
  <2>1. m * q >= m * (p + 1)
    BY <1>2, <1>4, <1>7
  <2>2. m * (p + 1) = m * p + m
    BY <1>4
  <2> QED
    BY <1>2, <1>3, <1>4, <2>1, <2>2
<1> QED
  BY <1>2, <1>4, <1>5, <1>6, <1>7

(* Each conversion gives an integer of its range, by whole widths away.    *)
LEMMA NarrowingsWrap ==
  /\ \A n \in Int : SentAs(UInt32(n), n, 0 .. M32 - 1, M32)
  /\ \A n \in Int : SentAs(UInt64(n), n, 0 .. M64 - 1, M64)
  /\ \A n \in Int : SentAs(Int32(n), n, -(M32 \div 2) .. (M32 \div 2) - 1, M32)
<1>1. M32 = 2 * (M32 \div 2) /\ M32 \div 2 \in Nat
  BY WidthAssumption
<1>2. ASSUME NEW n \in Int
      PROVE  SentAs(Int32(n), n, -(M32 \div 2) .. (M32 \div 2) - 1, M32)
  <2> DEFINE m == n + (M32 \div 2)
  <2>1. m \in Int /\ n = m - (M32 \div 2)
    BY <1>1
  <2> HIDE DEF m
  <2>2. m % M32 \in 0 .. M32 - 1 /\ (m - (m % M32)) % M32 = 0
    BY <2>1, RemainderIsCongruent, WidthAssumption
  <2>3. Int32(n) = (m % M32) - (M32 \div 2)
    BY DEF Int32, m
  <2>4. n - Int32(n) = m - (m % M32)
    BY <1>1, <2>1, <2>2, <2>3
  <2> QED
    BY <1>1, <2>2, <2>3, <2>4 DEF SentAs
<1> QED
  BY <1>2, RemainderIsCongruent, WidthAssumption DEF SentAs, UInt32, UInt64

(* A policy is narrowed twice on its way to a channel, and a default once  *)
(* more: the first narrowing is the one that counts.                       *)
LEMMA NarrowedOnce ==
  ASSUME NEW v, NEW table, NEW k, NEW default \in Int,
         k \in DOMAIN v => v[k] \in Int,
         k \in DOMAIN table => table[k] \in Int
  PROVE  LET said == Value(v, k, Value(table, k, default))
         IN /\ said \in Int
            /\ UInt32(Value(v, k, UInt32(Value(table, k, default)))) = UInt32(said)
            /\ UInt64(Value(v, k, UInt64(Value(table, k, default)))) = UInt64(said)
            /\ Int32(Value(v, k, Int32(Value(table, k, default)))) = Int32(said)
<1> DEFINE n == Value(table, k, default)
<1>1. n \in Int
  BY DEF Value
<1>2. /\ UInt32(UInt32(n)) = UInt32(n)
      /\ UInt64(UInt64(n)) = UInt64(n)
      /\ Int32(Int32(n)) = Int32(n)
  BY <1>1, Narrowings, NarrowingsWrap DEF SentAs
<1> HIDE DEF n
<1>3. /\ Value(v, k, n) \in Int
      /\ UInt32(Value(v, k, UInt32(n))) = UInt32(Value(v, k, n))
      /\ UInt64(Value(v, k, UInt64(n))) = UInt64(Value(v, k, n))
      /\ Int32(Value(v, k, Int32(n))) = Int32(Value(v, k, n))
  BY <1>1, <1>2 DEF Value
<1> QED
  BY <1>3 DEF n

(* What has been loaded was accepted and comes from the file; what has been*)
(* sent comes from what was loaded.                                        *)
BInv ==
  /\ file \in Files
  /\ stage \in {"loaded", "sent"} =>
       /\ Acceptable(Channels(file))
       /\ ~UnknownKey(file)
       /\ batch = Channels(file)
  /\ stage = "sent" => requests = [i \in DOMAIN batch |-> Request(batch[i])]

(* The batch file is read once, and what is held comes from it.            *)
LEMMA BInductive == BatchSpec => []BInv
<1>1. BatchInit => BInv
  BY DEF BatchInit, BInv
<1>2. BInv /\ [BatchNext]_bvars => BInv'
  <2> SUFFICES ASSUME BInv, [BatchNext]_bvars PROVE BInv'
    OBVIOUS
  <2>1. CASE LoadBatch
    <3>1. CASE stage' = "loaded"
      <4>1. /\ Acceptable(Channels(file)) /\ ~UnknownKey(file)
            /\ batch' = Channels(file) /\ file' = file
        BY <2>1, <3>1 DEF LoadBatch
      <4>2. /\ Acceptable(Channels(file)) = Acceptable(Channels(file'))
            /\ UnknownKey(file) = UnknownKey(file')
        BY <4>1
      <4> QED
        BY <3>1, <4>1, <4>2 DEF BInv
    <3>2. CASE stage' = "refused"
      BY <2>1, <3>2 DEF LoadBatch, BInv
    <3> QED
      BY <2>1, <3>1, <3>2 DEF LoadBatch
  <2>2. CASE ApplyPolicies
    BY <2>2 DEF ApplyPolicies, BInv
  <2>3. CASE UNCHANGED bvars \/ Over
    BY <2>3 DEF bvars, BInv, Over
  <2> QED
    BY <2>1, <2>2, <2>3 DEF BatchNext
<1> QED
  BY <1>1, <1>2, PTL DEF BatchSpec

(* In such a state every request is the file's.                            *)
LEMMA AllSaidIsSent ==
  ASSUME BInv PROVE RequestIsTheFile
<1>1. SUFFICES ASSUME stage = "sent", NEW i \in DOMAIN requests
               PROVE  LET t == file[i]
                          r == requests[i]
                          fees == IF r.inbound = Unset THEN <<0, 0>> ELSE r.inbound
                          negative == -(M32 \div 2) .. 0
                      IN /\ r.peer = t.vals["peer"]
                         /\ r.base = Written(t, "base", Defaults.base) /\ r.base >= 0
                         /\ SentAs(r.rate, Written(t, "rate", Defaults.rate), 0 .. M32 - 1, M32)
                         /\ SentAs(r.delta, Written(t, "delta", Defaults.delta),
                                   MinDelta .. MaxDelta, M32)
                         /\ r.min = Unset <=> "min" \notin DOMAIN Said(t)
                         /\ r.min # Unset => SentAs(r.min[1], Said(t)["min"], 0 .. M64 - 1, M64)
                         /\ SentAs(r.max, Written(t, "max", 0), 0 .. M64 - 1, M64)
                         /\ SentAs(fees[1], Written(t, "in_base", 0), negative, M32)
                         /\ SentAs(fees[2], Written(t, "in_rate", 0), negative, M32)
                         /\ r.inbound # <<0, 0>>
  BY DEF RequestIsTheFile
<1> DEFINE t == file[i]
           table == PolicyTable(file)
           read(k, default) == Value(t.vals, k, Value(table, k, default))
           d == ReadPolicy(table, PolicyDefaults)
           p == ReadPolicy(t.vals, d)
<1>2. /\ DOMAIN file = 1 .. Len(file) /\ ~UnknownKey(file)
      /\ \A j \in DOMAIN file : file[j].vals \in [DOMAIN file[j].vals -> Int]
      /\ Acceptable(Channels(file))
      /\ requests = [j \in DOMAIN Channels(file) |-> Request(Channels(file)[j])]
  BY <1>1, FilesAssumption DEF BInv
<1>3. /\ i \in DOMAIN file /\ i \in DOMAIN Channels(file)
      /\ Channels(file)[i] = ReadChannel(file, t)
  BY <1>1, <1>2 DEF Channels
<1>4. /\ Channels(file)[i].peer = Value(t.vals, "peer", 0)
      /\ Channels(file)[i].policy = p
  BY <1>3 DEF ReadChannel, Default
<1>5. requests[i] = Request(Channels(file)[i])
  BY <1>1, <1>2
<1>6. Valid(p)
  BY <1>2, <1>3, <1>4 DEF Acceptable
<1>7. /\ \A k \in DOMAIN t.vals : t.vals[k] \in Int
      /\ \A k \in DOMAIN table : table[k] \in Int
  BY <1>2, <1>3, TableReadIsInTheFile
<1> HIDE DEF t, table
<1>8. \A k, default : Written(t, k, default) = read(k, default)
  BY <1>2, WrittenIsRead DEF table
<1>9. requests[i].peer = t.vals["peer"]
  <2>1. Value(t.vals, "peer", 0) # 0
    BY <1>2, <1>3, <1>4 DEF Acceptable
  <2> QED
    BY <1>4, <1>5, <2>1 DEF Request, Value
<1>10. /\ p.base = read("base", Defaults.base)
       /\ p.rate = UInt32(Value(t.vals, "rate", UInt32(Value(table, "rate", Defaults.rate))))
       /\ p.delta = UInt32(Value(t.vals, "delta", UInt32(Value(table, "delta", Defaults.delta))))
       /\ p.min = Optional(t.vals, "min", Optional(table, "min", Unset))
       /\ p.max = UInt64(Value(t.vals, "max", UInt64(Value(table, "max", 0))))
       /\ p.in_base = Int32(Value(t.vals, "in_base", Int32(Value(table, "in_base", 0))))
       /\ p.in_rate = Int32(Value(t.vals, "in_rate", Int32(Value(table, "in_rate", 0))))
  BY DEF ReadPolicy, PolicyDefaults
<1> HIDE DEF p
<1>11. \A k, default : default \in Int =>
         /\ read(k, default) \in Int
         /\ UInt32(Value(t.vals, k, UInt32(Value(table, k, default)))) = UInt32(read(k, default))
         /\ UInt64(Value(t.vals, k, UInt64(Value(table, k, default)))) = UInt64(read(k, default))
         /\ Int32(Value(t.vals, k, Int32(Value(table, k, default)))) = Int32(read(k, default))
  BY <1>7, NarrowedOnce
<1> HIDE DEF read
<1>12. /\ SentAs(p.rate, read("rate", Defaults.rate), 0 .. M32 - 1, M32)
       /\ SentAs(p.delta, read("delta", Defaults.delta), 0 .. M32 - 1, M32)
       /\ SentAs(p.max, read("max", 0), 0 .. M64 - 1, M64)
       /\ SentAs(p.in_base, read("in_base", 0), -(M32 \div 2) .. (M32 \div 2) - 1, M32)
       /\ SentAs(p.in_rate, read("in_rate", 0), -(M32 \div 2) .. (M32 \div 2) - 1, M32)
  <2>1. 0 \in Int /\ Defaults.rate \in Int /\ Defaults.delta \in Int
    BY WidthAssumption
  <2>2. /\ p.rate = UInt32(read("rate", Defaults.rate))
        /\ p.delta = UInt32(read("delta", Defaults.delta))
        /\ p.max = UInt64(read("max", 0))
        /\ p.in_base = Int32(read("in_base", 0))
        /\ p.in_rate = Int32(read("in_rate", 0))
    BY <1>10, <1>11, <2>1
  <2>3. /\ read("rate", Defaults.rate) \in Int /\ read("delta", Defaults.delta) \in Int
        /\ read("max", 0) \in Int
        /\ read("in_base", 0) \in Int /\ read("in_rate", 0) \in Int
    BY <1>11, <2>1
  <2> QED
    BY <2>2, <2>3, NarrowingsWrap
<1>13. /\ SentAs(p.delta, read("delta", Defaults.delta), MinDelta .. MaxDelta, M32)
       /\ SentAs(p.in_base, read("in_base", 0), -(M32 \div 2) .. 0, M32)
       /\ SentAs(p.in_rate, read("in_rate", 0), -(M32 \div 2) .. 0, M32)
       /\ p.base >= 0
  <2>1. M32 \div 2 \in Nat
    BY WidthAssumption
  <2> QED
    BY <1>6, <1>12, <2>1 DEF SentAs, Valid
<1>14. /\ requests[i].min = Unset <=> "min" \notin DOMAIN Said(t)
       /\ requests[i].min # Unset
            => SentAs(requests[i].min[1], Said(t)["min"], 0 .. M64 - 1, M64)
  <2>1. requests[i].min = IF p.min = Unset THEN Unset ELSE <<UInt64(p.min[1])>>
    BY <1>4, <1>5 DEF Request
  <2>2. CASE "min" \in DOMAIN Said(t)
    <3>1. /\ p.min = <<Said(t)["min"]>>
          /\ Said(t)["min"] \in Int
      BY <1>2, <1>7, <1>10, <2>2, SaidIsRead DEF Optional, table
    <3>2. p.min # Unset /\ p.min[1] = Said(t)["min"]
      BY <3>1 DEF Unset
    <3>3. /\ requests[i].min = <<UInt64(Said(t)["min"])>>
          /\ <<UInt64(Said(t)["min"])>> # Unset
      BY <2>1, <3>2 DEF Unset
    <3> QED
      BY <2>2, <3>1, <3>3, NarrowingsWrap
  <2>3. CASE "min" \notin DOMAIN Said(t)
    BY <1>2, <1>10, <2>1, <2>3, SaidIsRead DEF Optional, table
  <2> QED
    BY <2>2, <2>3
<1>15. /\ requests[i].inbound = IF p.in_base = 0 /\ p.in_rate = 0 THEN Unset
                                ELSE <<p.in_base, p.in_rate>>
       /\ requests[i].base = p.base /\ requests[i].rate = p.rate
       /\ requests[i].delta = p.delta /\ requests[i].max = p.max
  BY <1>4, <1>5 DEF Request
<1> DEFINE fees == IF requests[i].inbound = Unset THEN <<0, 0>> ELSE requests[i].inbound
<1>16. /\ fees[1] = p.in_base /\ fees[2] = p.in_rate
       /\ requests[i].inbound # <<0, 0>>
  <2>1. Unset # <<0, 0>> /\ <<p.in_base, p.in_rate>> # Unset
    BY DEF Unset
  <2> QED
    BY <1>15, <2>1
<1> HIDE DEF fees
<1>17. /\ Written(t, "base", Defaults.base) = read("base", Defaults.base)
       /\ Written(t, "rate", Defaults.rate) = read("rate", Defaults.rate)
       /\ Written(t, "delta", Defaults.delta) = read("delta", Defaults.delta)
       /\ Written(t, "max", 0) = read("max", 0)
       /\ Written(t, "in_base", 0) = read("in_base", 0)
       /\ Written(t, "in_rate", 0) = read("in_rate", 0)
  BY <1>8 DEF read
<1>18. p.base = read("base", Defaults.base)
  BY <1>10 DEF read
<1> QED
  BY <1>9, <1>12, <1>13, <1>14, <1>15, <1>16, <1>17, <1>18 DEF t, fees

(***************************************************************************)
(* RequestIsTheFile: whatever file is accepted, UpdateChannelPolicy is     *)
(* called with what that file says of the peer, wherever it says it, cut   *)
(* to the width of each field and within what LND takes.                   *)
(***************************************************************************)
THEOREM TheFileIsSent == BatchSpec => []RequestIsTheFile
BY BInductive, AllSaidIsSent, PTL

(* Two neighbours never leave the same remainder, so a conversion to a      *)
(* narrower integer always tells them apart.                               *)
LEMMA NextRemainder ==
  \A m \in Nat : m > 1 => \A v \in Int : (v + 1) % m # v % m
<1> SUFFICES ASSUME NEW m \in Nat, m > 1, NEW v \in Int, (v + 1) % m = v % m
             PROVE  FALSE
  OBVIOUS
<1> DEFINE q == v \div m
           p == (v + 1) \div m
<1>1. v = m * q + (v % m) /\ v + 1 = m * p + ((v + 1) % m)
  OBVIOUS
<1>2. q \in Int /\ p \in Int
  OBVIOUS
<1> HIDE DEF q, p
<1>3. m * p = m * q + 1
  BY <1>1, <1>2
<1>4. CASE p <= q
  <2>1. m * p <= m * q
    BY <1>2, <1>4
  <2> QED
    BY <1>2, <1>3, <2>1
<1>5. CASE p >= q + 1
  <2>1. m * p >= m * (q + 1)
    BY <1>2, <1>5
  <2>2. m * (q + 1) = m * q + m
    BY <1>2
  <2> QED
    BY <1>2, <1>3, <2>1, <2>2
<1> QED
  BY <1>2, <1>4, <1>5

(* Each of the three conversions tells neighbours apart, and its result is *)
(* of its width.                                                           *)
LEMMA NarrowingsTell ==
  \A v \in Int :
    /\ UInt32(v + 1) # UInt32(v) /\ UInt32(v) \in 0 .. M32 - 1
    /\ UInt64(v + 1) # UInt64(v) /\ UInt64(v) \in 0 .. M64 - 1
    /\ Int32(v + 1) # Int32(v) /\ Int32(v) \in -(M32 \div 2) .. (M32 \div 2) - 1
<1>1. M32 > 1 /\ M64 > 1 /\ M32 \in Nat /\ M64 \in Nat
  BY WidthAssumption
<1>2. \A m \in Nat : m > 1 => \A v \in Int : v % m \in 0 .. m - 1
  OBVIOUS
<1>3. ASSUME NEW v \in Int
      PROVE  Int32(v + 1) # Int32(v) /\ Int32(v) \in -(M32 \div 2) .. (M32 \div 2) - 1
  <2> DEFINE h == M32 \div 2
  <2>1. h \in Nat /\ M32 = 2 * h
    BY WidthAssumption
  <2> HIDE DEF h
  <2>2. PICK x \in Int : x = v + h
    BY <2>1
  <2>3. (x + 1) % M32 # x % M32
    BY <1>1, NextRemainder
  <2>4. x % M32 \in 0 .. M32 - 1 /\ (x + 1) % M32 \in 0 .. M32 - 1
    BY <1>1, <1>2
  <2>5. Int32(v) = (x % M32) - h /\ Int32(v + 1) = ((x + 1) % M32) - h
    <3>1. (v + 1) + h = x + 1
      BY <2>1, <2>2
    <3> QED
      BY <2>2, <3>1 DEF Int32, h
  <2> QED
    BY <2>1, <2>3, <2>4, <2>5 DEF h
<1> QED
  BY <1>1, <1>2, <1>3, NextRemainder DEF UInt32, UInt64

(* A policy read from a table that has the key tells the key's value.      *)
LEMMA FieldsTell ==
  ASSUME NEW t, NEW u, NEW d, NEW k \in PolicyKeys,
         k \in DOMAIN t, k \in DOMAIN u, t[k] \in Int, u[k] = t[k] + 1
  PROVE  ReadPolicy(u, d)[k] # ReadPolicy(t, d)[k]
<1>1. \A default : Value(t, k, default) = t[k] /\ Value(u, k, default) = t[k] + 1
  BY DEF Value
<1>2. \A default : Optional(t, k, default) = <<t[k]>> /\ Optional(u, k, default) = <<t[k] + 1>>
  BY DEF Optional
<1>3. t[k] + 1 # t[k] /\ <<t[k] + 1>> # <<t[k]>>
  OBVIOUS
<1> QED
  BY <1>1, <1>2, <1>3, NarrowingsTell DEF PolicyKeys, ReadPolicy

(* A policy read from a table without the key tells the value the defaults *)
(* had for it, through both rounds of narrowing.                           *)
LEMMA DefaultsTell ==
  ASSUME NEW v, NEW k \in PolicyKeys, k \notin DOMAIN v, NEW c, NEW t, NEW u,
         k \in DOMAIN t, k \in DOMAIN u, t[k] \in Int, u[k] = t[k] + 1
  PROVE  ReadPolicy(v, ReadPolicy(u, c))[k] # ReadPolicy(v, ReadPolicy(t, c))[k]
<1>1. \A default : /\ Value(t, k, default) = t[k] /\ Value(u, k, default) = t[k] + 1
                   /\ Value(v, k, default) = default
  BY DEF Value
<1>2. \A default : /\ Optional(t, k, default) = <<t[k]>>
                   /\ Optional(u, k, default) = <<t[k] + 1>>
                   /\ Optional(v, k, default) = default
  BY DEF Optional
<1>3. t[k] + 1 \in Int /\ t[k] + 1 # t[k] /\ <<t[k] + 1>> # <<t[k]>>
  OBVIOUS
<1>4. \A n \in Int : /\ UInt32(UInt32(n)) = UInt32(n)
                    /\ UInt64(UInt64(n)) = UInt64(n)
                    /\ Int32(Int32(n)) = Int32(n)
  BY NarrowingsTell, Narrowings
<1> QED
  BY <1>1, <1>2, <1>3, <1>4, NarrowingsTell DEF PolicyKeys, ReadPolicy

(* What a file with one key changed keeps of the file.                     *)
LEMMA OneKeyChanged ==
  ASSUME NEW f \in Files, NEW i \in DOMAIN f, NEW k \in DOMAIN f[i].vals,
         NEW g, g = [f EXCEPT ![i].vals[k] = @ + 1]
  PROVE  /\ DOMAIN g = DOMAIN f
         /\ \A j \in DOMAIN f : g[j].name = f[j].name /\ (j # i => g[j] = f[j])
         /\ DOMAIN g[i].vals = DOMAIN f[i].vals
         /\ f[i].vals[k] \in Int /\ g[i].vals[k] = f[i].vals[k] + 1
<1> DEFINE v == f[i].vals
           w == [v EXCEPT ![k] = @ + 1]
           t == [f[i] EXCEPT !.vals = w]
<1>1. /\ f[i] = [name |-> f[i].name, double |-> f[i].double, vals |-> v]
      /\ v \in [DOMAIN v -> Int]
  BY FilesAssumption
<1>2. g = [f EXCEPT ![i] = t]
  OBVIOUS
<1>3. w[k] = v[k] + 1 /\ DOMAIN w = DOMAIN v
  BY <1>1
<1> HIDE DEF w
<1>4. t.name = f[i].name /\ t.vals = w
  BY <1>1
<1> HIDE DEF t
<1>5. /\ DOMAIN g = DOMAIN f /\ g[i] = t
      /\ \A j \in DOMAIN f : j # i => g[j] = f[j]
  BY <1>2
<1> QED
  BY <1>1, <1>3, <1>4, <1>5

(* In an accepted file every key tells: a channel's own key changes that    *)
(* channel, and a default changes every channel that does not set the key. *)
LEMMA EveryKeyTells ==
  ASSUME BInv, stage \in {"loaded", "sent"},
         NEW i \in DOMAIN file, NEW k \in DOMAIN file[i].vals
  PROVE  \/ Channels([file EXCEPT ![i].vals[k] = @ + 1]) # Channels(file)
         \/ /\ file[i].name = "policy"
            /\ k \in PolicyKeys
            /\ \A j \in DOMAIN file :
                 file[j].name = "channel" => k \in DOMAIN file[j].vals
<1> DEFINE g == [file EXCEPT ![i].vals[k] = @ + 1]
<1>1. /\ DOMAIN g = DOMAIN file
      /\ \A j \in DOMAIN file : g[j].name = file[j].name /\ (j # i => g[j] = file[j])
      /\ DOMAIN g[i].vals = DOMAIN file[i].vals
      /\ file[i].vals[k] \in Int /\ g[i].vals[k] = file[i].vals[k] + 1
  <2>1. file \in Files
    BY DEF BInv
  <2>2. g = [file EXCEPT ![i].vals[k] = @ + 1]
    OBVIOUS
  <2> HIDE DEF g
  <2> QED
    BY <2>1, <2>2, OneKeyChanged
<1>2. DOMAIN file = 1 .. Len(file) /\ ~UnknownKey(file)
  BY FilesAssumption DEF BInv
<1>3. Used(file, i, k)
  BY <1>2 DEF UnknownKey
<1> HIDE DEF g
<1>4. Named(g, "channel") = Named(file, "channel") /\ Named(g, "policy") = Named(file, "policy")
  BY <1>1
<1>5. ASSUME NEW j \in Named(file, "channel"), ReadChannel(g, g[j]) # ReadChannel(file, file[j])
      PROVE  Channels(g) # Channels(file)
  <2>1. Channels(g)[j] # Channels(file)[j]
    BY <1>4, <1>5 DEF Channels
  <2> QED
    BY <2>1
<1>6. CASE file[i].name = "channel"
  <2>1. PolicyTable(g) = PolicyTable(file)
    <3>1. \A j \in Named(file, "policy") : g[j] = file[j]
      BY <1>1, <1>6
    <3>2. Named(file, "policy") # {} => Min(Named(file, "policy")) \in Named(file, "policy")
      <4>1. Named(file, "policy") \subseteq Nat
        BY <1>2
      <4> QED
        BY <4>1, LeastIsThere
    <3> QED
      BY <1>4, <3>1, <3>2 DEF PolicyTable
  <2>2. Default(g) = Default(file)
    BY <2>1 DEF Default
  <2>3. CASE k \in PolicyKeys
    <3>1. ReadPolicy(g[i].vals, Default(file))[k] # ReadPolicy(file[i].vals, Default(file))[k]
      BY <1>1, <2>3, FieldsTell
    <3>2. ReadChannel(g, g[i]).policy # ReadChannel(file, file[i]).policy
      BY <2>2, <3>1 DEF ReadChannel
    <3> QED
      BY <1>5, <1>6, <3>2 DEF g
  <2>4. CASE k \in {"peer", "amount"}
    <3>1. Value(g[i].vals, k, 0) # Value(file[i].vals, k, 0)
      BY <1>1 DEF Value
    <3>2. ReadChannel(g, g[i]) # ReadChannel(file, file[i])
      BY <2>4, <3>1 DEF ReadChannel
    <3> QED
      BY <1>5, <1>6, <3>2 DEF g
  <2> QED
    BY <1>3, <1>6, <2>3, <2>4 DEF Used, ChannelKeys
<1>7. CASE file[i].name = "policy"
  <2>1. k \in PolicyKeys
    BY <1>3, <1>7 DEF Used
  <2>2. PolicyTable(file) = file[i].vals /\ PolicyTable(g) = g[i].vals
    <3> DEFINE said == Named(file, "policy")
    <3>1. \A j \in 1 .. i - 1 : file[j].name # "policy"
      BY <1>3, <1>7 DEF Used
    <3>2. said \subseteq Nat /\ i \in said
      BY <1>2, <1>7
    <3>3. Min(said) \in said /\ Min(said) <= i
      BY <3>2, LeastIsThere
    <3>4. Min(said) = i
      BY <1>2, <3>1, <3>2, <3>3
    <3> QED
      BY <1>4, <3>2, <3>4 DEF PolicyTable
  <2>3. SUFFICES ASSUME NEW j \in DOMAIN file, file[j].name = "channel",
                        k \notin DOMAIN file[j].vals
                 PROVE  Channels(g) # Channels(file)
    BY <1>7, <2>1 DEF g
  <2>4. g[j] = file[j]
    BY <1>1, <1>7, <2>3
  <2>5. ReadPolicy(file[j].vals, Default(g))[k] # ReadPolicy(file[j].vals, Default(file))[k]
    <3>1. /\ Default(g) = ReadPolicy(g[i].vals, PolicyDefaults)
          /\ Default(file) = ReadPolicy(file[i].vals, PolicyDefaults)
      BY <2>2 DEF Default
    <3>2. k \in DOMAIN g[i].vals
      BY <1>1
    <3> DEFINE t == file[i].vals
               u == g[i].vals
               v == file[j].vals
    <3>3. /\ k \in DOMAIN t /\ k \in DOMAIN u /\ k \notin DOMAIN v
          /\ t[k] \in Int /\ u[k] = t[k] + 1
      BY <1>1, <2>3, <3>2
    <3> HIDE DEF t, u, v
    <3>4. ReadPolicy(v, ReadPolicy(u, PolicyDefaults))[k]
            # ReadPolicy(v, ReadPolicy(t, PolicyDefaults))[k]
      BY <2>1, <3>3, DefaultsTell
    <3> QED
      BY <3>1, <3>4 DEF t, u, v
  <2>6. ReadChannel(g, g[j]).policy # ReadChannel(file, file[j]).policy
    BY <2>4, <2>5 DEF ReadChannel
  <2> QED
    BY <1>5, <2>3, <2>6
<1> QED
  BY <1>3, <1>6, <1>7 DEF Used

(* No key of an accepted file is idle: changing its value changes what LND *)
(* is asked for, unless every channel sets the key itself.                 *)
THEOREM NoKeyIsIgnored == BatchSpec => []NoKeyIsIdle
<1>1. BInv => NoKeyIsIdle
  BY EveryKeyTells DEF NoKeyIsIdle
<1> QED
  BY <1>1, BInductive, PTL
=============================================================================
