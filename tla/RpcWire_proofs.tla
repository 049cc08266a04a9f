---------------------------- MODULE RpcWire_proofs ----------------------------
(***************************************************************************)
(* Documents on their way through the server, however many of their fields *)
(* were changed and to whatever values: one that conforms to its type      *)
(* arrives, and both ends read the same variant.  All of it rests on what  *)
(* tells the variants of each type apart.                                  *)
(***************************************************************************)
EXTENDS RpcWire, SequenceTheorems, TLAPS

-----------------------------------------------------------------------------
(* What tells two structs apart.                                           *)

\* s requires a field that t has not.
Lacks(t, s) == \E f \in DOMAIN s.req : f \notin Fields(t)

\* Both require a tag, and no value of it is one of both.
TaggedApart(t, s) ==
    \E f \in Tags \cap DOMAIN s.req \cap DOMAIN t.req : s.req[f] \cap t.req[f] = {}

\* What has the fields of t is not read as s.
Differ(t, s) == Lacks(t, s) \/ TaggedApart(t, s)

\* No variant reads the documents of a later one.
InOrder(u) == \A i, j \in DOMAIN u : j < i => Differ(u[i], u[j])

\* No variant reads the documents of another one.
Distinct(u) == \A i, j \in DOMAIN u : i # j => Differ(u[i], u[j])

LEMMA DistinctInOrder ==
    ASSUME NEW u, Distinct(u), DOMAIN u \subseteq Nat
    PROVE  InOrder(u)
BY DEF Distinct, InOrder

LEMMA NotRead ==
    ASSUME NEW s, NEW t, Differ(t, s), NEW d,
           DOMAIN d \subseteq Fields(t),
           \A f \in Tags \cap DOMAIN d \cap DOMAIN t.req : d[f] \in t.req[f]
    PROVE  ~Reads(s, d)
BY DEF Differ, Lacks, TaggedApart, Reads

LEMMA WrittenIs ==
    ASSUME NEW s, NEW d, Reads(s, d)
    PROVE  /\ DOMAIN Written(s, d) \subseteq Fields(s)
           /\ DOMAIN Written(s, d) = {f \in DOMAIN d \cap Fields(s) : f \in DOMAIN s.req \/ d[f] # "null"}
           /\ \A f \in DOMAIN Written(s, d) : Written(s, d)[f] = d[f]
           /\ Reads(s, Written(s, d))
<1>1. DOMAIN Written(s, d) = {f \in DOMAIN d \cap Fields(s) : f \in DOMAIN s.req \/ d[f] # "null"}
  BY DEF Written, Restrict
<1>2. \A f \in DOMAIN Written(s, d) : Written(s, d)[f] = d[f]
  BY DEF Written, Restrict
<1>3. DOMAIN s.req \subseteq DOMAIN Written(s, d)
  BY <1>1 DEF Reads, Fields
<1> HIDE DEF Written
<1>4. Reads(s, Written(s, d))
  BY <1>1, <1>2, <1>3 DEF Reads
<1> QED BY <1>1, <1>2, <1>4
-----------------------------------------------------------------------------
(* The variant that reads a document.                                      *)

LEMMA First ==
    ASSUME NEW S, NEW n \in 1 .. 11, n \in S
    PROVE  \E m \in 1 .. n : m \in S /\ \A j \in 1 .. m - 1 : j \notin S
<1>1. CASE 1 \in S
  BY <1>1
<1>2. CASE 1 \notin S /\ 2 \in S
  BY <1>2
<1>3. CASE 1 \notin S /\ 2 \notin S /\ 3 \in S
  BY <1>3
<1>4. CASE {1, 2, 3} \cap S = {} /\ 4 \in S
  BY <1>4
<1>5. CASE {1, 2, 3, 4} \cap S = {} /\ 5 \in S
  BY <1>5
<1>6. CASE {1, 2, 3, 4, 5} \cap S = {} /\ 6 \in S
  BY <1>6
<1>7. CASE {1, 2, 3, 4, 5, 6} \cap S = {} /\ 7 \in S
  BY <1>7
<1>8. CASE {1, 2, 3, 4, 5, 6, 7} \cap S = {} /\ 8 \in S
  BY <1>8
<1>9. CASE {1, 2, 3, 4, 5, 6, 7, 8} \cap S = {} /\ 9 \in S
  BY <1>9
<1>10. CASE {1, 2, 3, 4, 5, 6, 7, 8, 9} \cap S = {} /\ 10 \in S
  BY <1>10
<1>11. CASE {1, 2, 3, 4, 5, 6, 7, 8, 9, 10} \cap S = {}
  BY <1>11
<1> QED BY <1>1, <1>2, <1>3, <1>4, <1>5, <1>6, <1>7, <1>8, <1>9, <1>10, <1>11

\* A type has at most eleven variants.
IsUnion(u) == \E n \in 1 .. 11 : DOMAIN u = 1 .. n

LEMMA DecodeIs ==
    ASSUME NEW u, IsUnion(u), NEW d
    PROVE  \/ Decode(u, d) = Refused /\ \A i \in DOMAIN u : ~Reads(u[i], d)
           \/ /\ Decode(u, d) \in DOMAIN u
              /\ Reads(u[Decode(u, d)], d)
              /\ \A j \in 1 .. Decode(u, d) - 1 : ~Reads(u[j], d)
<1>1. CASE \E i \in DOMAIN u : Reads(u[i], d)
  <2> DEFINE S == {i \in DOMAIN u : Reads(u[i], d)}
  <2>1. PICK n \in 1 .. 11 : DOMAIN u = 1 .. n
    BY DEF IsUnion
  <2>2. PICK i \in 1 .. n : i \in S
    BY <1>1, <2>1
  <2>3. PICK m \in 1 .. i : m \in S /\ \A j \in 1 .. m - 1 : j \notin S
    <3> HIDE DEF S
    <3> QED BY <2>2, First
  <2>4. Reads(u[m], d) /\ \A j \in 1 .. m - 1 : ~Reads(u[j], d)
    BY <2>1, <2>2, <2>3
  <2>5. m \in DOMAIN u
    BY <2>3
  <2> QED BY <1>1, <2>4, <2>5 DEF Decode
<1>2. CASE ~\E i \in DOMAIN u : Reads(u[i], d)
  BY <1>2 DEF Decode
<1> QED BY <1>1, <1>2

\* The first variant that reads it is the only one that Decode can be.
LEMMA DecodeIsFirst ==
    ASSUME NEW u, IsUnion(u), NEW d, NEW i \in DOMAIN u, Reads(u[i], d),
           \A j \in 1 .. i - 1 : ~Reads(u[j], d)
    PROVE  Decode(u, d) = i
<1>1. DOMAIN u \subseteq Nat \ {0} /\ \A k \in DOMAIN u : 1 .. k \subseteq DOMAIN u
  BY DEF IsUnion
<1>2. Decode(u, d) \in DOMAIN u /\ Reads(u[Decode(u, d)], d)
        /\ \A j \in 1 .. Decode(u, d) - 1 : ~Reads(u[j], d)
  BY DecodeIs
<1>3. ~(i < Decode(u, d)) /\ ~(Decode(u, d) < i)
  BY <1>1, <1>2
<1> QED BY <1>1, <1>2, <1>3

\* What is written by one is read as the same by the other.
LEMMA ReadAlike ==
    ASSUME NEW u, IsUnion(u), InOrder(u), NEW d, NEW i \in DOMAIN u, Reads(u[i], d)
    PROVE  Decode(u, Written(u[i], d)) = i
<1> DEFINE w == Written(u[i], d)
<1>1. Reads(u[i], w) /\ DOMAIN w \subseteq Fields(u[i])
  BY WrittenIs
<1> HIDE DEF w
<1>2. ASSUME NEW j \in 1 .. i - 1
      PROVE  ~Reads(u[j], w)
  <2>1. j \in DOMAIN u /\ j < i
    BY DEF IsUnion
  <2>2. Differ(u[i], u[j])
    BY <2>1 DEF InOrder
  <2> QED BY <1>1, <2>2 DEF Differ, Lacks, TaggedApart, Reads
<1>3. Decode(u, w) = i
  BY <1>1, <1>2, DecodeIsFirst
<1> QED BY <1>3 DEF w
-----------------------------------------------------------------------------
(* Sequences of types.                                                     *)

HasLen(s, n) == n \in Nat /\ Len(s) = n /\ \E S : s \in Seq(S)

\* w is s and t, one after the other.
Joins(w, s, m, t, n) ==
    /\ HasLen(w, m + n)
    /\ \A i \in 1 .. m : w[i] = s[i]
    /\ \A i \in 1 .. n : w[m + i] = t[i]

LEMMA Concat ==
    ASSUME NEW s, NEW m \in Nat, HasLen(s, m), NEW t, NEW n \in Nat, HasLen(t, n)
    PROVE  Joins(s \o t, s, m, t, n)
<1> DEFINE w == s \o t
<1>1. PICK S : s \in Seq(S)
  BY DEF HasLen
<1>2. PICK T : t \in Seq(T)
  BY DEF HasLen
<1>3. s \in Seq(S \cup T) /\ t \in Seq(S \cup T)
  BY <1>1, <1>2, SeqMonotonic
<1>4. w \in Seq(S \cup T) /\ Len(w) = m + n /\ m \in Nat /\ n \in Nat /\ Len(s) = m
  BY <1>3, ConcatProperties DEF HasLen
<1>5. \A i \in 1 .. m + n : w[i] = IF i <= m THEN s[i] ELSE t[i - m]
  BY <1>3, ConcatProperties DEF HasLen
<1> HIDE DEF w
<1>6. HasLen(w, m + n)
  BY <1>4 DEF HasLen
<1>7. \A i \in 1 .. m : w[i] = s[i]
  BY <1>4, <1>5
<1>8. \A i \in 1 .. n : w[m + i] = t[i]
  <2> TAKE i \in 1 .. n
  <2>1. m + i \in 1 .. m + n /\ ~(m + i <= m) /\ (m + i) - m = i
    BY <1>4
  <2> QED BY <2>1, <1>5
<1>9. Joins(w, s, m, t, n)
  BY <1>6, <1>7, <1>8 DEF Joins
<1> QED BY <1>9 DEF w

LEMMA LenIs ==
    ASSUME NEW n \in Nat, NEW s, s = [i \in 1 .. n |-> s[i]]
    PROVE  HasLen(s, n)
<1> DEFINE T == {s[i] : i \in 1 .. n}
<1>1. s \in [1 .. n -> T]
  OBVIOUS
<1> HIDE DEF T
<1>2. s \in Seq(T) /\ Len(s) = n
  BY <1>1, SeqDef
<1> QED BY <1>2 DEF HasLen

LEMMA OneHasLen ==
    ASSUME NEW x
    PROVE  HasLen(<<x>>, 1)
<1>1. <<x>> = [i \in 1 .. 1 |-> <<x>>[i]]
  OBVIOUS
<1> QED BY <1>1, LenIs

LEMMA JoinsOne ==
    ASSUME NEW w, NEW s, NEW m \in Nat, NEW x, Joins(w, s, m, <<x>>, 1)
    PROVE  HasLen(w, m + 1) /\ (\A i \in 1 .. m : w[i] = s[i]) /\ w[m + 1] = x
BY DEF Joins

LEMMA AllTypes ==
    ASSUME NEW k \in DOMAIN Types
    PROVE  \/ \E i \in DOMAIN Values : Types[k] = <<Scalar(Values[i])>>
           \/ \E i \in DOMAIN Structs : Types[k] = <<Structs[i]>>
           \/ \E m \in 1 .. 25 : Types[k] = Unions[m]
<1> DEFINE v == [i \in DOMAIN Values |-> <<Scalar(Values[i])>>]
           s == [i \in DOMAIN Structs |-> <<Structs[i]>>]
<1>1. DOMAIN Values = 1 .. 30
  BY DEF Values
<1>2. PICK n \in Nat : DOMAIN Structs = 1 .. n
  BY DEF Structs
<1>3. HasLen(Unions, 25)
  <2>1. Unions = [i \in 1 .. 25 |-> Unions[i]]
    BY DEF Unions
  <2> QED BY <2>1, LenIs
<1>4. HasLen(v, 30) /\ \A i \in 1 .. 30 : v[i] = <<Scalar(Values[i])>>
  <2>1. v = [i \in 1 .. 30 |-> v[i]] /\ \A i \in 1 .. 30 : v[i] = <<Scalar(Values[i])>>
    BY <1>1
  <2> HIDE DEF v
  <2> QED BY <2>1, LenIs
<1>5. HasLen(s, n) /\ \A i \in 1 .. n : s[i] = <<Structs[i]>>
  <2>1. s = [i \in 1 .. n |-> s[i]] /\ \A i \in 1 .. n : s[i] = <<Structs[i]>>
    BY <1>2
  <2> HIDE DEF s
  <2> QED BY <2>1, LenIs
<1>6. Types = (v \o s) \o Unions
  BY DEF Types
<1> HIDE DEF v, s
<1>7. PICK w : w = v \o s /\ Joins(w, v, 30, s, n)
  BY <1>4, <1>5, Concat
<1>8. HasLen(w, 30 + n) /\ (\A i \in 1 .. 30 : w[i] = v[i]) /\ \A i \in 1 .. n : w[30 + i] = s[i]
  BY <1>7 DEF Joins
<1>9. \A i \in 1 .. 30 + n : \/ \E j \in DOMAIN Values : w[i] = <<Scalar(Values[j])>>
                             \/ \E j \in DOMAIN Structs : w[i] = <<Structs[j]>>
  <2> TAKE i \in 1 .. 30 + n
  <2>1. CASE i <= 30
    <3>1. i \in 1 .. 30 /\ i \in DOMAIN Values
      BY <2>1, <1>1
    <3>2. w[i] = <<Scalar(Values[i])>>
      BY <3>1, <1>4, <1>8
    <3> QED BY <3>1, <3>2
  <2>2. CASE i > 30
    <3>1. PICK j \in 1 .. n : i = 30 + j
      <4>1. i - 30 \in 1 .. n /\ i = 30 + (i - 30)
        BY <2>2
      <4> QED BY <4>1
    <3>2. w[i] = <<Structs[j]>>
      BY <3>1, <1>5, <1>8
    <3> QED BY <3>1, <3>2, <1>2
  <2> QED BY <2>1, <2>2
<1>10. Joins(Types, w, 30 + n, Unions, 25)
  <2>1. 30 + n \in Nat
    OBVIOUS
  <2> QED BY <2>1, <1>3, <1>6, <1>7, <1>8, Concat
<1>11. /\ HasLen(Types, (30 + n) + 25)
       /\ \A i \in 1 .. 30 + n : Types[i] = w[i]
       /\ \A i \in 1 .. 25 : Types[(30 + n) + i] = Unions[i]
  BY <1>10 DEF Joins
<1>12. k \in 1 .. (30 + n) + 25
  BY <1>11 DEF HasLen
<1>13. CASE k <= 30 + n
  <2>1. k \in 1 .. 30 + n
    BY <1>12, <1>13
  <2>2. Types[k] = w[k]
    BY <2>1, <1>11
  <2> QED BY <2>1, <2>2, <1>9
<1>14. CASE k > 30 + n
  <2>1. k - (30 + n) \in 1 .. 25 /\ (30 + n) + (k - (30 + n)) = k
    BY <1>12, <1>14
  <2> QED BY <2>1, <1>11
<1> QED BY <1>12, <1>13, <1>14
-----------------------------------------------------------------------------
(* The types with several variants.                                        *)

\* A struct without optional fields, and a scalar, as a struct of one.
LEMMA StructIs ==
    /\ \A r : Struct(r).req = r /\ Fields(Struct(r)) = DOMAIN r
    /\ \A v : DOMAIN Scalar(v).req = {""} /\ Fields(Scalar(v)) = {""}
BY DEF Fields, Scalar, Struct, StructWith, NoFields

LEMMA FlattenIs ==
    \A s, t :
        /\ DOMAIN Flatten(s, t).req = DOMAIN s.req \cup DOMAIN t.req
        /\ DOMAIN Flatten(s, t).opt = DOMAIN s.opt \cup DOMAIN t.opt
        /\ \A f \in DOMAIN s.req : Flatten(s, t).req[f] = s.req[f]
        /\ \A f \in DOMAIN t.req \ DOMAIN s.req : Flatten(s, t).req[f] = t.req[f]
BY DEF Flatten, Merged

\* A field that tells two structs apart.
LEMMA ByField ==
    ASSUME NEW s, NEW t, NEW f, f \in DOMAIN s.req, f \notin Fields(t)
    PROVE  Differ(t, s)
BY DEF Differ, Lacks

Version == [n \in 0 .. 3 |->
    CASE n = 0 -> {"0x0", "query0"} [] n = 1 -> {"0x1", "query1"}
      [] n = 2 -> {"0x2", "query2"} [] n = 3 -> {"0x3", "query3"}]

\* The tags of a struct; 4 is any version, or none.
Tagged(s, ty, n) ==
    /\ "type" \in DOMAIN s.req /\ s.req["type"] = {ty}
    /\ n \in 0 .. 3 => "version" \in DOMAIN s.req /\ s.req["version"] = Version[n]

LEMMA ByTags ==
    ASSUME NEW s, NEW t, NEW x, NEW y, NEW m \in 0 .. 4, NEW n \in 0 .. 4,
           Tagged(s, x, m), Tagged(t, y, n),
           x # y \/ (m # n /\ m # 4 /\ n # 4)
    PROVE  Differ(t, s)
<1>1. CASE x # y
  BY <1>1 DEF Differ, TaggedApart, Tagged, Tags
<1>2. CASE m # n /\ m # 4 /\ n # 4
  <2>1. m \in 0 .. 3 /\ n \in 0 .. 3
    BY <1>2
  <2>2. Version[m] \cap Version[n] = {}
    BY <2>1, <1>2 DEF Version
  <2>3. "version" \in DOMAIN s.req /\ s.req["version"] = Version[m]
        /\ "version" \in DOMAIN t.req /\ t.req["version"] = Version[n]
    BY <2>1 DEF Tagged
  <2> QED BY <2>2, <2>3 DEF Differ, TaggedApart, Tags
<1> QED BY <1>1, <1>2

\* A flattened struct keeps its tags, or gets those of what is flattened into it.
LEMMA TagsKept ==
    ASSUME NEW s, NEW t, NEW ty, NEW n, Tagged(s, ty, n)
    PROVE  Tagged(Flatten(s, t), ty, n)
BY FlattenIs DEF Tagged

LEMMA TagsAdded ==
    ASSUME NEW s, NEW t, NEW ty, Tagged(t, ty, 4), "type" \notin DOMAIN s.req
    PROVE  Tagged(Flatten(s, t), ty, 4)
BY FlattenIs DEF Tagged

LEMMA BlockIdIs == Distinct(BlockId) /\ DOMAIN BlockId = 1 .. 3
<1>1. /\ DOMAIN BlockId[1].req = {"block_hash"} /\ Fields(BlockId[1]) = {"block_hash"}
      /\ DOMAIN BlockId[2].req = {"block_number"} /\ Fields(BlockId[2]) = {"block_number"}
      /\ DOMAIN BlockId[3].req = {""} /\ Fields(BlockId[3]) = {""}
  BY StructIs DEF BlockId
<1>2. DOMAIN BlockId = 1 .. 3
  BY DEF BlockId
<1>3. /\ \A i \in {2, 3} : Differ(BlockId[i], BlockId[1])
      /\ \A i \in {1, 3} : Differ(BlockId[i], BlockId[2])
      /\ \A i \in {1, 2} : Differ(BlockId[i], BlockId[3])
  <2>1. Differ(BlockId[2], BlockId[1]) /\ Differ(BlockId[3], BlockId[1])
    BY <1>1, ByField
  <2>2. Differ(BlockId[1], BlockId[2]) /\ Differ(BlockId[3], BlockId[2])
    BY <1>1, ByField
  <2>3. Differ(BlockId[1], BlockId[3]) /\ Differ(BlockId[2], BlockId[3])
    BY <1>1, ByField
  <2> QED BY <2>1, <2>2, <2>3
<1> QED BY <1>2, <1>3 DEF Distinct

LEMMA SyncingResultIs == Distinct(SyncingResult) /\ DOMAIN SyncingResult = 1 .. 2
<1>1. DOMAIN SyncStatus.req = Fields(SyncStatus) /\ "starting_block_num" \in Fields(SyncStatus)
        /\ "" \notin Fields(SyncStatus)
  BY DEF Fields, SyncStatus, Struct, StructWith, NoFields
<1>2. DOMAIN Scalar(Bool).req = {""} /\ Fields(Scalar(Bool)) = {""}
  BY StructIs
<1>3. Differ(SyncStatus, Scalar(Bool)) /\ Differ(Scalar(Bool), SyncStatus)
  BY <1>1, <1>2, ByField
<1>4. SyncingResult = <<Scalar(Bool), SyncStatus>>
  BY DEF SyncingResult
<1> QED BY <1>3, <1>4 DEF Distinct

LEMMA NodeIs == Distinct(Node) /\ DOMAIN Node = 1 .. 2
<1>1. Differ(BinaryNode, EdgeNode) /\ Differ(EdgeNode, BinaryNode)
  BY StructIs, ByField DEF BinaryNode, EdgeNode
<1> QED BY <1>1 DEF Distinct, Node

LEMMA GetClassResultIs == Distinct(GetClassResult) /\ DOMAIN GetClassResult = 1 .. 2
<1>1. Differ(DeprecatedContractClass, ContractClass) /\ Differ(ContractClass, DeprecatedContractClass)
  BY DEF Differ, Lacks, Fields, DeprecatedContractClass, ContractClass, StructWith
<1> QED BY <1>1 DEF Distinct, GetClassResult

LEMMA GetStateUpdateResultIs == InOrder(GetStateUpdateResult) /\ DOMAIN GetStateUpdateResult = 1 .. 2
<1>1. Differ(PendingStateUpdate, StateUpdate)
  BY DEF Differ, Lacks, Fields, StateUpdate, PendingStateUpdate, Struct, StructWith, NoFields
<1> QED BY <1>1 DEF InOrder, GetStateUpdateResult

LEMMA InvocationIs ==
    InOrder(InvokeTxnTraceExecuteInvocation) /\ DOMAIN InvokeTxnTraceExecuteInvocation = 1 .. 2
<1> DEFINE revert == StructWith(NoFields, [revert_reason |-> String])
<1>1. "call_type" \in DOMAIN FunctionInvocation.req
  BY FlattenIs DEF FunctionInvocation, Struct, StructWith
<1>2. Fields(revert) = {"revert_reason"}
  BY DEF Fields, StructWith, NoFields
<1>3. Differ(revert, FunctionInvocation)
  BY <1>1, <1>2, ByField
<1>4. InvokeTxnTraceExecuteInvocation = <<FunctionInvocation, revert>>
  BY DEF InvokeTxnTraceExecuteInvocation
<1> HIDE DEF revert
<1> QED BY <1>3, <1>4 DEF InOrder

LEMMA BlockIs ==
    /\ InOrder(GetBlockWithTxHashesResult) /\ DOMAIN GetBlockWithTxHashesResult = 1 .. 2
    /\ InOrder(GetBlockWithTxsResult) /\ DOMAIN GetBlockWithTxsResult = 1 .. 2
<1>1. "block_hash" \in DOMAIN BlockHeader.req
  BY StructIs DEF BlockHeader
<1>2. "block_hash" \notin Fields(PendingBlockHeader)
  BY DEF Fields, PendingBlockHeader, Struct, StructWith, NoFields
<1>3. "block_hash" \notin Fields(BlockBodyWithTxHashes) /\ "block_hash" \notin Fields(BlockBodyWithTxs)
  BY DEF Fields, BlockBodyWithTxHashes, BlockBodyWithTxs, Struct, StructWith, NoFields
<1>4. "block_hash" \in DOMAIN BlockWithTxHashes.req /\ "block_hash" \in DOMAIN BlockWithTxs.req
  BY <1>1, FlattenIs DEF BlockWithTxHashes, BlockWithTxs
<1>5. "block_hash" \notin Fields(PendingBlockWithTxHashes)
        /\ "block_hash" \notin Fields(PendingBlockWithTxs)
  BY <1>2, <1>3, FlattenIs DEF Fields, PendingBlockWithTxHashes, PendingBlockWithTxs
<1>6. Differ(PendingBlockWithTxHashes, BlockWithTxHashes) /\ Differ(PendingBlockWithTxs, BlockWithTxs)
  BY <1>4, <1>5, ByField
<1> QED BY <1>6 DEF InOrder, GetBlockWithTxHashesResult, GetBlockWithTxsResult

-----------------------------------------------------------------------------
(* The types whose variants have tags.                                     *)

\* Types and versions that are two by two not the same.
AllTagged(u, types, versions) ==
    \A i \in DOMAIN u :
        /\ versions[i] \in 0 .. 4
        /\ Tagged(u[i], types[i], versions[i])
        /\ \A j \in DOMAIN u :
            i # j => types[i] # types[j] \/ (versions[i] # versions[j] /\ 4 \notin {versions[i], versions[j]})

LEMMA TaggedDistinct ==
    ASSUME NEW u, NEW types, NEW versions, AllTagged(u, types, versions)
    PROVE  Distinct(u)
BY ByTags DEF AllTagged, Distinct

LEMMA InvokeTags ==
    /\ Tagged(InvokeTxnV0, "INVOKE", 0)
    /\ Tagged(InvokeTxnV1, "INVOKE", 1)
    /\ Tagged(InvokeTxnV3, "INVOKE", 3)
BY DEF Tagged, Version, InvokeTxnV0, InvokeTxnV1, InvokeTxnV3, Struct, StructWith

LEMMA DeclareTags ==
    /\ Tagged(DeclareTxnV0, "DECLARE", 0)
    /\ Tagged(DeclareTxnV1, "DECLARE", 1)
    /\ Tagged(DeclareTxnV2, "DECLARE", 2)
    /\ Tagged(DeclareTxnV3, "DECLARE", 3)
BY DEF Tagged, Version, DeclareTxnV0, DeclareTxnV1, DeclareTxnV2, DeclareTxnV3, Struct, StructWith

LEMMA BroadcastedTags ==
    /\ Tagged(BroadcastedDeclareTxnV1, "DECLARE", 1)
    /\ Tagged(BroadcastedDeclareTxnV2, "DECLARE", 2)
    /\ Tagged(BroadcastedDeclareTxnV3, "DECLARE", 3)
BY DEF Tagged, Version, BroadcastedDeclareTxnV1, BroadcastedDeclareTxnV2, BroadcastedDeclareTxnV3, Struct, StructWith

LEMMA DeployTags ==
    /\ Tagged(DeployTxn, "DEPLOY", 4)
    /\ Tagged(DeployAccountTxnV1, "DEPLOY_ACCOUNT", 1)
    /\ Tagged(DeployAccountTxnV3, "DEPLOY_ACCOUNT", 3)
BY DEF Tagged, Version, DeployTxn, DeployAccountTxnV1, DeployAccountTxnV3, Struct, StructWith

LEMMA L1HandlerTags == Tagged(L1HandlerTxn, "L1_HANDLER", 4)
<1> DEFINE t == Struct([nonce |-> NumAsHex, type |-> {"L1_HANDLER"}, version |-> Felt])
<1>1. Tagged(t, "L1_HANDLER", 4)
  BY DEF Tagged, Struct, StructWith
<1>2. "type" \notin DOMAIN FunctionCall.req
  BY DEF FunctionCall, Struct, StructWith
<1> HIDE DEF t
<1>3. Tagged(Flatten(FunctionCall, t), "L1_HANDLER", 4)
  BY <1>1, <1>2, TagsAdded
<1> QED BY <1>3 DEF L1HandlerTxn, t

LEMMA InvokeTxnIs ==
    /\ HasLen(InvokeTxn, 3)
    /\ Tagged(InvokeTxn[1], "INVOKE", 0)
    /\ Tagged(InvokeTxn[2], "INVOKE", 1)
    /\ Tagged(InvokeTxn[3], "INVOKE", 3)
<1>1. InvokeTxn = [i \in 1 .. 3 |-> InvokeTxn[i]]
  BY DEF InvokeTxn
<1>2. HasLen(InvokeTxn, 3)
  BY <1>1, LenIs
<1>3. InvokeTxn[1] = InvokeTxnV0 /\ InvokeTxn[2] = InvokeTxnV1 /\ InvokeTxn[3] = InvokeTxnV3
  BY DEF InvokeTxn
<1> QED BY <1>2, <1>3, InvokeTags

LEMMA DeclareTxnIs ==
    /\ HasLen(DeclareTxn, 4)
    /\ Tagged(DeclareTxn[1], "DECLARE", 0)
    /\ Tagged(DeclareTxn[2], "DECLARE", 1)
    /\ Tagged(DeclareTxn[3], "DECLARE", 2)
    /\ Tagged(DeclareTxn[4], "DECLARE", 3)
<1>1. DeclareTxn = [i \in 1 .. 4 |-> DeclareTxn[i]]
  BY DEF DeclareTxn
<1>2. HasLen(DeclareTxn, 4)
  BY <1>1, LenIs
<1>3. /\ DeclareTxn[1] = DeclareTxnV0 /\ DeclareTxn[2] = DeclareTxnV1
      /\ DeclareTxn[3] = DeclareTxnV2 /\ DeclareTxn[4] = DeclareTxnV3
  BY DEF DeclareTxn
<1> QED BY <1>2, <1>3, DeclareTags

LEMMA BroadcastedDeclareTxnIs ==
    /\ HasLen(BroadcastedDeclareTxn, 3)
    /\ Tagged(BroadcastedDeclareTxn[1], "DECLARE", 1)
    /\ Tagged(BroadcastedDeclareTxn[2], "DECLARE", 2)
    /\ Tagged(BroadcastedDeclareTxn[3], "DECLARE", 3)
<1>1. BroadcastedDeclareTxn = [i \in 1 .. 3 |-> BroadcastedDeclareTxn[i]]
  BY DEF BroadcastedDeclareTxn
<1>2. HasLen(BroadcastedDeclareTxn, 3)
  BY <1>1, LenIs
<1>3. /\ BroadcastedDeclareTxn[1] = BroadcastedDeclareTxnV1
      /\ BroadcastedDeclareTxn[2] = BroadcastedDeclareTxnV2
      /\ BroadcastedDeclareTxn[3] = BroadcastedDeclareTxnV3
  BY DEF BroadcastedDeclareTxn
<1> QED BY <1>2, <1>3, BroadcastedTags

LEMMA DeployAccountTxnIs ==
    /\ HasLen(DeployAccountTxn, 2)
    /\ Tagged(DeployAccountTxn[1], "DEPLOY_ACCOUNT", 1)
    /\ Tagged(DeployAccountTxn[2], "DEPLOY_ACCOUNT", 3)
<1>1. DeployAccountTxn = [i \in 1 .. 2 |-> DeployAccountTxn[i]]
  BY DEF DeployAccountTxn
<1>2. HasLen(DeployAccountTxn, 2)
  BY <1>1, LenIs
<1>3. DeployAccountTxn[1] = DeployAccountTxnV1 /\ DeployAccountTxn[2] = DeployAccountTxnV3
  BY DEF DeployAccountTxn
<1> QED BY <1>2, <1>3, DeployTags

LEMMA TxnHasLen == HasLen(Txn, 11) /\ \A i \in 1 .. 11 :
    /\ i \in 1 .. 3 => Txn[i] = InvokeTxn[i]
    /\ i = 4 => Txn[i] = L1HandlerTxn
    /\ i \in 5 .. 8 => Txn[i] = DeclareTxn[i - 4]
    /\ i = 9 => Txn[i] = DeployTxn
    /\ i \in 10 .. 11 => Txn[i] = DeployAccountTxn[i - 9]
<1>1. HasLen(<<L1HandlerTxn>>, 1) /\ HasLen(<<DeployTxn>>, 1)
  BY OneHasLen
<1> DEFINE a == InvokeTxn \o <<L1HandlerTxn>>
           b == a \o DeclareTxn
           c == b \o <<DeployTxn>>
<1>2. Joins(a, InvokeTxn, 3, <<L1HandlerTxn>>, 1)
  BY <1>1, InvokeTxnIs, Concat
<1>3. Txn = c \o DeployAccountTxn
  BY DEF Txn
<1>4. c = b \o <<DeployTxn>> /\ b = a \o DeclareTxn
  OBVIOUS
<1> HIDE DEF a, b, c
<1>5. HasLen(a, 4) /\ (\A i \in 1 .. 3 : a[i] = InvokeTxn[i]) /\ a[4] = L1HandlerTxn
  BY <1>2, JoinsOne
<1>6. Joins(b, a, 4, DeclareTxn, 4)
  BY <1>4, <1>5, DeclareTxnIs, Concat
<1>7. HasLen(b, 8) /\ (\A i \in 1 .. 4 : b[i] = a[i]) /\ \A i \in 1 .. 4 : b[4 + i] = DeclareTxn[i]
  BY <1>6 DEF Joins
<1>8. Joins(c, b, 8, <<DeployTxn>>, 1)
  BY <1>1, <1>4, <1>7, Concat
<1>9. HasLen(c, 9) /\ (\A i \in 1 .. 8 : c[i] = b[i]) /\ c[9] = DeployTxn
  BY <1>8, JoinsOne
<1>10. Joins(Txn, c, 9, DeployAccountTxn, 2)
  BY <1>3, <1>9, DeployAccountTxnIs, Concat
<1>11. /\ HasLen(Txn, 11) /\ (\A i \in 1 .. 9 : Txn[i] = c[i])
       /\ \A i \in 1 .. 2 : Txn[9 + i] = DeployAccountTxn[i]
  BY <1>10 DEF Joins
<1> QED BY <1>5, <1>7, <1>9, <1>11

InvokeTypes == <<"INVOKE", "INVOKE", "INVOKE">>
InvokeVersions == <<0, 1, 3>>
DeclareTypes == <<"DECLARE", "DECLARE", "DECLARE", "DECLARE">>
DeclareVersions == <<0, 1, 2, 3>>
BroadcastedVersions == <<1, 2, 3>>
DeployAccountTypes == <<"DEPLOY_ACCOUNT", "DEPLOY_ACCOUNT">>
DeployAccountVersions == <<1, 3>>
TxnTypes ==
    <<"INVOKE", "INVOKE", "INVOKE", "L1_HANDLER", "DECLARE", "DECLARE", "DECLARE", "DECLARE",
      "DEPLOY", "DEPLOY_ACCOUNT", "DEPLOY_ACCOUNT">>
TxnVersions == <<0, 1, 3, 4, 0, 1, 2, 3, 4, 1, 3>>

\* Two by two not the same.
Apart(n, types, versions) ==
    \A i, j \in 1 .. n : i # j =>
        types[i] # types[j] \/ (versions[i] # versions[j] /\ 4 \notin {versions[i], versions[j]})

LEMMA TagsApart ==
    /\ Apart(3, InvokeTypes, InvokeVersions)
    /\ Apart(4, DeclareTypes, DeclareVersions)
    /\ Apart(3, DeclareTypes, BroadcastedVersions)
    /\ Apart(2, DeployAccountTypes, DeployAccountVersions)
<1>1. Apart(3, InvokeTypes, InvokeVersions)
  BY DEF Apart, InvokeVersions
<1>2. Apart(4, DeclareTypes, DeclareVersions)
  BY DEF Apart, DeclareVersions
<1>3. Apart(3, DeclareTypes, BroadcastedVersions)
  BY DEF Apart, BroadcastedVersions
<1>4. Apart(2, DeployAccountTypes, DeployAccountVersions)
  BY DEF Apart, DeployAccountVersions
<1> QED BY <1>1, <1>2, <1>3, <1>4

LEMMA TxnTagsApart == Apart(11, TxnTypes, TxnVersions)
<1>1. /\ TxnTypes[1] = "INVOKE" /\ TxnTypes[2] = "INVOKE" /\ TxnTypes[3] = "INVOKE"
      /\ TxnTypes[4] = "L1_HANDLER"
      /\ TxnTypes[5] = "DECLARE" /\ TxnTypes[6] = "DECLARE"
      /\ TxnTypes[7] = "DECLARE" /\ TxnTypes[8] = "DECLARE"
      /\ TxnTypes[9] = "DEPLOY"
      /\ TxnTypes[10] = "DEPLOY_ACCOUNT" /\ TxnTypes[11] = "DEPLOY_ACCOUNT"
  BY DEF TxnTypes
<1>2. /\ TxnVersions[1] = 0 /\ TxnVersions[2] = 1 /\ TxnVersions[3] = 3
      /\ TxnVersions[5] = 0 /\ TxnVersions[6] = 1 /\ TxnVersions[7] = 2 /\ TxnVersions[8] = 3
      /\ TxnVersions[10] = 1 /\ TxnVersions[11] = 3
  BY DEF TxnVersions
<1> QED BY <1>1, <1>2 DEF Apart

LEMMA ApartDistinct ==
    ASSUME NEW u, NEW n \in Nat, NEW types, NEW versions, HasLen(u, n),
           Apart(n, types, versions),
           \A i \in 1 .. n : versions[i] \in 0 .. 4 /\ Tagged(u[i], types[i], versions[i])
    PROVE  AllTagged(u, types, versions) /\ Distinct(u) /\ DOMAIN u = 1 .. n
<1>1. DOMAIN u = 1 .. n
  BY DEF HasLen
<1>2. AllTagged(u, types, versions)
  BY <1>1 DEF AllTagged, Apart
<1> QED BY <1>1, <1>2, TaggedDistinct

LEMMA FlattenUnionDistinct ==
    ASSUME NEW u, NEW t, NEW types, NEW versions, AllTagged(u, types, versions)
    PROVE  Distinct(FlattenUnion(u, t)) /\ DOMAIN FlattenUnion(u, t) = DOMAIN u
<1> DEFINE v == FlattenUnion(u, t)
<1>1. DOMAIN v = DOMAIN u /\ \A i \in DOMAIN u : v[i] = Flatten(u[i], t)
  BY DEF FlattenUnion
<1> HIDE DEF v
<1>2. AllTagged(v, types, versions)
  BY <1>1, TagsKept DEF AllTagged
<1>3. Distinct(v)
  BY <1>2, TaggedDistinct
<1> QED BY <1>1, <1>3 DEF v

LEMMA InvokeTxnDistinct == Distinct(InvokeTxn) /\ DOMAIN InvokeTxn = 1 .. 3
<1>1. \A i \in 1 .. 3 : InvokeVersions[i] \in 0 .. 4 /\ Tagged(InvokeTxn[i], InvokeTypes[i], InvokeVersions[i])
  BY InvokeTxnIs DEF InvokeTypes, InvokeVersions
<1> QED BY <1>1, InvokeTxnIs, TagsApart, ApartDistinct

LEMMA DeclareTxnDistinct == Distinct(DeclareTxn) /\ DOMAIN DeclareTxn = 1 .. 4
<1>1. \A i \in 1 .. 4 :
        DeclareVersions[i] \in 0 .. 4 /\ Tagged(DeclareTxn[i], DeclareTypes[i], DeclareVersions[i])
  BY DeclareTxnIs DEF DeclareTypes, DeclareVersions
<1> QED BY <1>1, DeclareTxnIs, TagsApart, ApartDistinct

LEMMA BroadcastedDeclareTxnDistinct ==
    Distinct(BroadcastedDeclareTxn) /\ DOMAIN BroadcastedDeclareTxn = 1 .. 3
<1>1. \A i \in 1 .. 3 :
        /\ BroadcastedVersions[i] \in 0 .. 4
        /\ Tagged(BroadcastedDeclareTxn[i], DeclareTypes[i], BroadcastedVersions[i])
  BY BroadcastedDeclareTxnIs DEF DeclareTypes, BroadcastedVersions
<1> QED BY <1>1, BroadcastedDeclareTxnIs, TagsApart, ApartDistinct

LEMMA DeployAccountTxnDistinct == Distinct(DeployAccountTxn) /\ DOMAIN DeployAccountTxn = 1 .. 2
<1>1. \A i \in 1 .. 2 :
        /\ DeployAccountVersions[i] \in 0 .. 4
        /\ Tagged(DeployAccountTxn[i], DeployAccountTypes[i], DeployAccountVersions[i])
  BY DeployAccountTxnIs DEF DeployAccountTypes, DeployAccountVersions
<1> QED BY <1>1, DeployAccountTxnIs, TagsApart, ApartDistinct

LEMMA TxnDistinct == AllTagged(Txn, TxnTypes, TxnVersions) /\ Distinct(Txn) /\ DOMAIN Txn = 1 .. 11
<1>1. \A i \in 1 .. 3 : TxnVersions[i] \in 0 .. 4 /\ Tagged(Txn[i], TxnTypes[i], TxnVersions[i])
  BY TxnHasLen, InvokeTxnIs DEF TxnTypes, TxnVersions
<1>2. TxnVersions[4] \in 0 .. 4 /\ Tagged(Txn[4], TxnTypes[4], TxnVersions[4])
  BY TxnHasLen, L1HandlerTags DEF TxnTypes, TxnVersions
<1>3. \A i \in 5 .. 8 : TxnVersions[i] \in 0 .. 4 /\ Tagged(Txn[i], TxnTypes[i], TxnVersions[i])
  <2>1. Txn[5] = DeclareTxn[1] /\ Txn[6] = DeclareTxn[2] /\ Txn[7] = DeclareTxn[3] /\ Txn[8] = DeclareTxn[4]
    BY TxnHasLen
  <2> QED BY <2>1, DeclareTxnIs DEF TxnTypes, TxnVersions
<1>4. TxnVersions[9] \in 0 .. 4 /\ Tagged(Txn[9], TxnTypes[9], TxnVersions[9])
  BY TxnHasLen, DeployTags DEF TxnTypes, TxnVersions
<1>5. \A i \in 10 .. 11 : TxnVersions[i] \in 0 .. 4 /\ Tagged(Txn[i], TxnTypes[i], TxnVersions[i])
  <2>1. Txn[10] = DeployAccountTxn[1] /\ Txn[11] = DeployAccountTxn[2]
    BY TxnHasLen
  <2> QED BY <2>1, DeployAccountTxnIs DEF TxnTypes, TxnVersions
<1>6. \A i \in 1 .. 11 : TxnVersions[i] \in 0 .. 4 /\ Tagged(Txn[i], TxnTypes[i], TxnVersions[i])
  BY <1>1, <1>2, <1>3, <1>4, <1>5
<1> QED BY <1>6, TxnHasLen, TxnTagsApart, ApartDistinct

LEMMA BlockTransactionIs ==
    \A u \in {BlockTransaction, GetTransactionByHashResult, GetTransactionByBlockIdAndIndexResult} :
        Distinct(u) /\ DOMAIN u = 1 .. 11
BY TxnDistinct, FlattenUnionDistinct
   DEF BlockTransaction, GetTransactionByHashResult, GetTransactionByBlockIdAndIndexResult

LEMMA JoinsInOrder ==
    ASSUME NEW w, NEW s, NEW m \in Nat, NEW t, NEW n \in Nat,
           HasLen(s, m), HasLen(t, n), Joins(w, s, m, t, n), InOrder(s), InOrder(t),
           \A i \in 1 .. m, j \in 1 .. n : Differ(t[j], s[i])
    PROVE  InOrder(w) /\ DOMAIN w = 1 .. m + n
<1>1. DOMAIN s = 1 .. m /\ DOMAIN t = 1 .. n
  BY DEF HasLen
<1>2. DOMAIN w = 1 .. m + n /\ (\A i \in 1 .. m : w[i] = s[i]) /\ \A i \in 1 .. n : w[m + i] = t[i]
  BY DEF Joins, HasLen
<1>3. ASSUME NEW i \in 1 .. m + n, NEW j \in 1 .. m + n, j < i
      PROVE  Differ(w[i], w[j])
  <2>1. CASE i <= m
    BY <1>1, <1>2, <1>3, <2>1 DEF InOrder
  <2>2. CASE i > m /\ j <= m
    <3>1. i - m \in 1 .. n /\ m + (i - m) = i /\ j \in 1 .. m
      BY <2>2
    <3> QED BY <1>2, <3>1
  <2>3. CASE j > m
    <3>1. /\ i - m \in 1 .. n /\ m + (i - m) = i
          /\ j - m \in 1 .. n /\ m + (j - m) = j /\ j - m < i - m
      BY <1>3, <2>3
    <3>2. w[i] = t[i - m] /\ w[j] = t[j - m]
      BY <1>2, <3>1
    <3>3. Differ(t[i - m], t[j - m])
      BY <1>1, <3>1 DEF InOrder
    <3> QED BY <3>2, <3>3
  <2> QED BY <2>1, <2>2, <2>3
<1> QED BY <1>2, <1>3 DEF InOrder

BroadcastedTypes ==
    <<"INVOKE", "INVOKE", "INVOKE", "DECLARE", "DECLARE", "DECLARE", "DEPLOY_ACCOUNT", "DEPLOY_ACCOUNT">>
BroadcastedTxnVersions == <<0, 1, 3, 1, 2, 3, 1, 3>>

LEMMA BroadcastedTxnHasLen == HasLen(BroadcastedTxn, 8) /\ \A i \in 1 .. 8 :
    /\ i \in 1 .. 3 => BroadcastedTxn[i] = InvokeTxn[i]
    /\ i \in 4 .. 6 => BroadcastedTxn[i] = BroadcastedDeclareTxn[i - 3]
    /\ i \in 7 .. 8 => BroadcastedTxn[i] = DeployAccountTxn[i - 6]
<1> DEFINE a == InvokeTxn \o BroadcastedDeclareTxn
<1>1. Joins(a, InvokeTxn, 3, BroadcastedDeclareTxn, 3)
  BY InvokeTxnIs, BroadcastedDeclareTxnIs, Concat
<1>2. BroadcastedTxn = a \o DeployAccountTxn
  BY DEF BroadcastedTxn, BroadcastedInvokeTxn, BroadcastedDeployAccountTxn
<1> HIDE DEF a
<1>3. /\ HasLen(a, 6) /\ (\A i \in 1 .. 3 : a[i] = InvokeTxn[i])
      /\ \A i \in 1 .. 3 : a[3 + i] = BroadcastedDeclareTxn[i]
  BY <1>1 DEF Joins
<1>4. Joins(BroadcastedTxn, a, 6, DeployAccountTxn, 2)
  BY <1>2, <1>3, DeployAccountTxnIs, Concat
<1>5. /\ HasLen(BroadcastedTxn, 8) /\ (\A i \in 1 .. 6 : BroadcastedTxn[i] = a[i])
      /\ \A i \in 1 .. 2 : BroadcastedTxn[6 + i] = DeployAccountTxn[i]
  BY <1>4 DEF Joins
<1> QED BY <1>3, <1>5

LEMMA BroadcastedTagsApart == Apart(8, BroadcastedTypes, BroadcastedTxnVersions)
<1>1. /\ BroadcastedTypes[1] = "INVOKE" /\ BroadcastedTypes[2] = "INVOKE" /\ BroadcastedTypes[3] = "INVOKE"
      /\ BroadcastedTypes[4] = "DECLARE" /\ BroadcastedTypes[5] = "DECLARE" /\ BroadcastedTypes[6] = "DECLARE"
      /\ BroadcastedTypes[7] = "DEPLOY_ACCOUNT" /\ BroadcastedTypes[8] = "DEPLOY_ACCOUNT"
  BY DEF BroadcastedTypes
<1>2. /\ BroadcastedTxnVersions[1] = 0 /\ BroadcastedTxnVersions[2] = 1 /\ BroadcastedTxnVersions[3] = 3
      /\ BroadcastedTxnVersions[4] = 1 /\ BroadcastedTxnVersions[5] = 2 /\ BroadcastedTxnVersions[6] = 3
      /\ BroadcastedTxnVersions[7] = 1 /\ BroadcastedTxnVersions[8] = 3
  BY DEF BroadcastedTxnVersions
<1> QED BY <1>1, <1>2 DEF Apart

LEMMA BroadcastedTxnDistinct == Distinct(BroadcastedTxn) /\ DOMAIN BroadcastedTxn = 1 .. 8
<1> DEFINE P(i) ==
      /\ BroadcastedTxnVersions[i] \in 0 .. 4
      /\ Tagged(BroadcastedTxn[i], BroadcastedTypes[i], BroadcastedTxnVersions[i])
<1>1. \A i \in 1 .. 3 : P(i)
  BY BroadcastedTxnHasLen, InvokeTxnIs DEF BroadcastedTypes, BroadcastedTxnVersions
<1>2. \A i \in 4 .. 6 : P(i)
  <2>1. /\ BroadcastedTxn[4] = BroadcastedDeclareTxn[1] /\ BroadcastedTxn[5] = BroadcastedDeclareTxn[2]
        /\ BroadcastedTxn[6] = BroadcastedDeclareTxn[3]
    BY BroadcastedTxnHasLen
  <2> QED BY <2>1, BroadcastedDeclareTxnIs DEF BroadcastedTypes, BroadcastedTxnVersions
<1>3. \A i \in 7 .. 8 : P(i)
  <2>1. BroadcastedTxn[7] = DeployAccountTxn[1] /\ BroadcastedTxn[8] = DeployAccountTxn[2]
    BY BroadcastedTxnHasLen
  <2> QED BY <2>1, DeployAccountTxnIs DEF BroadcastedTypes, BroadcastedTxnVersions
<1>4. \A i \in 1 .. 8 : P(i)
  BY <1>1, <1>2, <1>3
<1> QED BY <1>4, BroadcastedTxnHasLen, BroadcastedTagsApart, ApartDistinct

-----------------------------------------------------------------------------
(* Receipts. *)

\* A struct with a type and no version.
LEMMA TypedStruct ==
    ASSUME NEW r, NEW ty, "type" \in DOMAIN r, r["type"] = {ty}
    PROVE  Tagged(Struct(r), ty, 4)
BY DEF Tagged, Struct, StructWith

LEMMA CommonIs ==
    /\ "type" \notin DOMAIN CommonReceiptProperties.req
    /\ "block_hash" \in DOMAIN CommonReceiptProperties.req
    /\ "type" \notin DOMAIN PendingCommonReceiptProperties.req
    /\ "block_hash" \notin Fields(PendingCommonReceiptProperties)
BY DEF Fields, CommonReceiptProperties, PendingCommonReceiptProperties, StructWith

LEMMA ReceiptTags ==
    /\ Tagged(InvokeTxnReceipt, "INVOKE", 4)
    /\ Tagged(L1HandlerTxnReceipt, "L1_HANDLER", 4)
    /\ Tagged(DeclareTxnReceipt, "DECLARE", 4)
    /\ Tagged(DeployTxnReceipt, "DEPLOY", 4)
    /\ Tagged(DeployAccountTxnReceipt, "DEPLOY_ACCOUNT", 4)
<1>1. Tagged(Struct([type |-> {"INVOKE"}]), "INVOKE", 4)
  BY TypedStruct
<1>2. Tagged(Struct([message_hash |-> NumAsHex, type |-> {"L1_HANDLER"}]), "L1_HANDLER", 4)
  BY TypedStruct
<1>3. Tagged(Struct([type |-> {"DECLARE"}]), "DECLARE", 4)
  BY TypedStruct
<1>4. Tagged(Struct([contract_address |-> Felt, type |-> {"DEPLOY"}]), "DEPLOY", 4)
  BY TypedStruct
<1>5. Tagged(Struct([contract_address |-> Felt, type |-> {"DEPLOY_ACCOUNT"}]), "DEPLOY_ACCOUNT", 4)
  BY TypedStruct
<1>6. Tagged(InvokeTxnReceipt, "INVOKE", 4)
  BY <1>1, TagsAdded, CommonIs DEF InvokeTxnReceipt
<1>7. Tagged(L1HandlerTxnReceipt, "L1_HANDLER", 4)
  BY <1>2, TagsAdded, CommonIs DEF L1HandlerTxnReceipt
<1>8. Tagged(DeclareTxnReceipt, "DECLARE", 4)
  BY <1>3, TagsAdded, CommonIs DEF DeclareTxnReceipt
<1>9. Tagged(DeployTxnReceipt, "DEPLOY", 4)
  BY <1>4, TagsAdded, CommonIs DEF DeployTxnReceipt
<1>10. Tagged(DeployAccountTxnReceipt, "DEPLOY_ACCOUNT", 4)
  BY <1>5, TagsAdded, CommonIs DEF DeployAccountTxnReceipt
<1> QED BY <1>6, <1>7, <1>8, <1>9, <1>10

LEMMA PendingReceiptTags ==
    /\ Tagged(PendingInvokeTxnReceipt, "INVOKE", 4)
    /\ Tagged(PendingL1HandlerTxnReceipt, "L1_HANDLER", 4)
    /\ Tagged(PendingDeclareTxnReceipt, "DECLARE", 4)
    /\ Tagged(PendingDeployAccountTxnReceipt, "DEPLOY_ACCOUNT", 4)
<1>1. Tagged(Struct([type |-> {"INVOKE"}]), "INVOKE", 4)
  BY TypedStruct
<1>2. Tagged(Struct([message_hash |-> NumAsHex, type |-> {"L1_HANDLER"}]), "L1_HANDLER", 4)
  BY TypedStruct
<1>3. Tagged(Struct([type |-> {"DECLARE"}]), "DECLARE", 4)
  BY TypedStruct
<1>4. Tagged(Struct([contract_address |-> Felt, type |-> {"DEPLOY_ACCOUNT"}]), "DEPLOY_ACCOUNT", 4)
  BY TypedStruct
<1>5. Tagged(PendingInvokeTxnReceipt, "INVOKE", 4)
  BY <1>1, TagsAdded, CommonIs DEF PendingInvokeTxnReceipt
<1>6. Tagged(PendingL1HandlerTxnReceipt, "L1_HANDLER", 4)
  BY <1>2, TagsAdded, CommonIs DEF PendingL1HandlerTxnReceipt
<1>7. Tagged(PendingDeclareTxnReceipt, "DECLARE", 4)
  BY <1>3, TagsAdded, CommonIs DEF PendingDeclareTxnReceipt
<1>8. Tagged(PendingDeployAccountTxnReceipt, "DEPLOY_ACCOUNT", 4)
  BY <1>4, TagsAdded, CommonIs DEF PendingDeployAccountTxnReceipt
<1> QED BY <1>5, <1>6, <1>7, <1>8

LEMMA TypedDistinct ==
    ASSUME NEW u, NEW n \in Nat, NEW types, HasLen(u, n),
           \A i \in 1 .. n : Tagged(u[i], types[i], 4),
           \A i, j \in 1 .. n : i # j => types[i] # types[j]
    PROVE  Distinct(u) /\ DOMAIN u = 1 .. n
<1>1. DOMAIN u = 1 .. n
  BY DEF HasLen
<1>2. ASSUME NEW i \in 1 .. n, NEW j \in 1 .. n, i # j
      PROVE  Differ(u[i], u[j])
  <2>1. Tagged(u[i], types[i], 4) /\ Tagged(u[j], types[j], 4) /\ types[j] # types[i]
    BY <1>2
  <2>2. 4 \in 0 .. 4
    OBVIOUS
  <2> QED BY <2>1, <2>2, ByTags
<1> QED BY <1>1, <1>2 DEF Distinct

LEMMA TxnReceiptIs == HasLen(TxnReceipt, 5) /\ Distinct(TxnReceipt) /\ DOMAIN TxnReceipt = 1 .. 5
<1> DEFINE types == <<"INVOKE", "L1_HANDLER", "DECLARE", "DEPLOY", "DEPLOY_ACCOUNT">>
<1>1. TxnReceipt = [i \in 1 .. 5 |-> TxnReceipt[i]]
  BY DEF TxnReceipt
<1>2. HasLen(TxnReceipt, 5)
  BY <1>1, LenIs
<1>3. \A i \in 1 .. 5 : Tagged(TxnReceipt[i], types[i], 4)
  BY ReceiptTags DEF TxnReceipt
<1>4. \A i, j \in 1 .. 5 : i # j => types[i] # types[j]
  OBVIOUS
<1> HIDE DEF types
<1> QED BY <1>2, <1>3, <1>4, TypedDistinct

LEMMA PendingTxnReceiptIs ==
    HasLen(PendingTxnReceipt, 4) /\ Distinct(PendingTxnReceipt) /\ DOMAIN PendingTxnReceipt = 1 .. 4
<1> DEFINE types == <<"INVOKE", "L1_HANDLER", "DECLARE", "DEPLOY_ACCOUNT">>
<1>1. PendingTxnReceipt = [i \in 1 .. 4 |-> PendingTxnReceipt[i]]
  BY DEF PendingTxnReceipt
<1>2. HasLen(PendingTxnReceipt, 4)
  BY <1>1, LenIs
<1>3. \A i \in 1 .. 4 : Tagged(PendingTxnReceipt[i], types[i], 4)
  BY PendingReceiptTags DEF PendingTxnReceipt
<1>4. \A i, j \in 1 .. 4 : i # j => types[i] # types[j]
  OBVIOUS
<1> HIDE DEF types
<1> QED BY <1>2, <1>3, <1>4, TypedDistinct

LEMMA SettledReceipt ==
    \A i \in 1 .. 5 : "block_hash" \in DOMAIN TxnReceipt[i].req
<1>1. \A t : "block_hash" \in DOMAIN Flatten(CommonReceiptProperties, t).req
  BY FlattenIs, CommonIs
<1> QED BY <1>1 DEF TxnReceipt, InvokeTxnReceipt, L1HandlerTxnReceipt, DeclareTxnReceipt,
               DeployTxnReceipt, DeployAccountTxnReceipt

LEMMA PendingReceipt ==
    \A i \in 1 .. 4 : "block_hash" \notin Fields(PendingTxnReceipt[i])
<1>1. \A r : "block_hash" \notin DOMAIN r
             => "block_hash" \notin Fields(Flatten(PendingCommonReceiptProperties, Struct(r)))
  <2> TAKE r
  <2> DEFINE f == Flatten(PendingCommonReceiptProperties, Struct(r))
  <2> HAVE "block_hash" \notin DOMAIN r
  <2>1. "block_hash" \notin Fields(Struct(r))
    BY StructIs
  <2>2. /\ DOMAIN f.req = DOMAIN PendingCommonReceiptProperties.req \cup DOMAIN Struct(r).req
        /\ DOMAIN f.opt = DOMAIN PendingCommonReceiptProperties.opt \cup DOMAIN Struct(r).opt
    BY FlattenIs
  <2> HIDE DEF f
  <2>3. "block_hash" \notin Fields(f)
    BY <2>1, <2>2, CommonIs DEF Fields
  <2> QED BY <2>3 DEF f
<1>2. /\ "block_hash" \notin Fields(PendingInvokeTxnReceipt)
      /\ "block_hash" \notin Fields(PendingL1HandlerTxnReceipt)
      /\ "block_hash" \notin Fields(PendingDeclareTxnReceipt)
      /\ "block_hash" \notin Fields(PendingDeployAccountTxnReceipt)
  BY <1>1 DEF PendingInvokeTxnReceipt, PendingL1HandlerTxnReceipt, PendingDeclareTxnReceipt,
              PendingDeployAccountTxnReceipt
<1> QED BY <1>2 DEF PendingTxnReceipt

LEMMA GetTransactionReceiptResultIs ==
    InOrder(GetTransactionReceiptResult) /\ DOMAIN GetTransactionReceiptResult = 1 .. 9
<1>1. Joins(GetTransactionReceiptResult, TxnReceipt, 5, PendingTxnReceipt, 4)
  BY TxnReceiptIs, PendingTxnReceiptIs, Concat DEF GetTransactionReceiptResult
<1>2. InOrder(TxnReceipt) /\ InOrder(PendingTxnReceipt)
  BY TxnReceiptIs, PendingTxnReceiptIs, DistinctInOrder
<1>3. \A i \in 1 .. 5, j \in 1 .. 4 : Differ(PendingTxnReceipt[j], TxnReceipt[i])
  BY SettledReceipt, PendingReceipt, ByField
<1>4. HasLen(TxnReceipt, 5) /\ HasLen(PendingTxnReceipt, 4)
  BY TxnReceiptIs, PendingTxnReceiptIs
<1>5. InOrder(GetTransactionReceiptResult) /\ DOMAIN GetTransactionReceiptResult = 1 .. 5 + 4
  BY <1>1, <1>2, <1>3, <1>4, JoinsInOrder
<1> QED BY <1>5

-----------------------------------------------------------------------------
(* Traces and entries of an ABI. *)

LEMMA TransactionTraceIs == Distinct(TransactionTrace) /\ DOMAIN TransactionTrace = 1 .. 4
<1> DEFINE types == <<"INVOKE", "DECLARE", "DEPLOY_ACCOUNT", "L1_HANDLER">>
<1>1. TransactionTrace = [i \in 1 .. 4 |-> TransactionTrace[i]]
  BY DEF TransactionTrace
<1>2. HasLen(TransactionTrace, 4)
  BY <1>1, LenIs
<1>3. /\ Tagged(InvokeTxnTrace, "INVOKE", 4) /\ Tagged(DeclareTxnTrace, "DECLARE", 4)
      /\ Tagged(DeployAccountTxnTrace, "DEPLOY_ACCOUNT", 4) /\ Tagged(L1HandlerTxnTrace, "L1_HANDLER", 4)
  BY DEF Tagged, StructWith, InvokeTxnTrace, DeclareTxnTrace, DeployAccountTxnTrace, L1HandlerTxnTrace
<1>4. \A i \in 1 .. 4 : Tagged(TransactionTrace[i], types[i], 4)
  BY <1>3 DEF TransactionTrace
<1>5. \A i, j \in 1 .. 4 : i # j => types[i] # types[j]
  OBVIOUS
<1> HIDE DEF types
<1> QED BY <1>2, <1>4, <1>5, TypedDistinct

LEMMA ContractAbiEntryIs == Distinct(ContractAbiEntry) /\ DOMAIN ContractAbiEntry = 1 .. 3
<1>1. /\ "type" \in DOMAIN FunctionAbiEntry.req
      /\ FunctionAbiEntry.req["type"] = {"function", "l1_handler", "constructor"}
      /\ "type" \in DOMAIN EventAbiEntry.req /\ EventAbiEntry.req["type"] = {"event"}
      /\ "type" \in DOMAIN StructAbiEntry.req /\ StructAbiEntry.req["type"] = {"struct"}
  BY DEF FunctionAbiEntry, EventAbiEntry, StructAbiEntry, Struct, StructWith
<1>2. \A s, t \in {FunctionAbiEntry, EventAbiEntry, StructAbiEntry} : s # t => Differ(t, s)
  <2>1. \A s, t : /\ "type" \in DOMAIN s.req /\ "type" \in DOMAIN t.req
                  /\ s.req["type"] \cap t.req["type"] = {}
                  => Differ(t, s) /\ Differ(s, t)
    BY DEF Differ, TaggedApart, Tags
  <2>2. Differ(FunctionAbiEntry, EventAbiEntry) /\ Differ(EventAbiEntry, FunctionAbiEntry)
    BY <1>1, <2>1
  <2>3. Differ(FunctionAbiEntry, StructAbiEntry) /\ Differ(StructAbiEntry, FunctionAbiEntry)
    BY <1>1, <2>1
  <2>4. Differ(EventAbiEntry, StructAbiEntry) /\ Differ(StructAbiEntry, EventAbiEntry)
    BY <1>1, <2>1
  <2> QED BY <2>2, <2>3, <2>4
<1>3. FunctionAbiEntry # EventAbiEntry /\ FunctionAbiEntry # StructAbiEntry /\ EventAbiEntry # StructAbiEntry
  BY <1>1
<1> QED BY <1>2, <1>3 DEF Distinct, ContractAbiEntry

-----------------------------------------------------------------------------
(* All types. *)

Excepted == WithPending \cup {InvokeTxnTraceExecuteInvocation}

\* Variants that are told apart, but for those OnlyPendingIsMisread excepts.
ToldApart(u) == IsUnion(u) /\ InOrder(u) /\ (Distinct(u) \/ u \in Excepted)

LEMMA DistinctToldApart ==
    ASSUME NEW u, NEW n \in 1 .. 11, Distinct(u), DOMAIN u = 1 .. n
    PROVE  ToldApart(u)
<1>1. DOMAIN u \subseteq Nat
  OBVIOUS
<1> QED BY <1>1, DistinctInOrder DEF ToldApart, IsUnion

LEMMA InOrderToldApart ==
    ASSUME NEW u \in Excepted, NEW n \in 1 .. 11, InOrder(u), DOMAIN u = 1 .. n
    PROVE  ToldApart(u)
BY DEF ToldApart, IsUnion

LEMMA UnionsToldApart == \A m \in 1 .. 25 : ToldApart(Unions[m])
<1>1. ToldApart(BlockId) /\ ToldApart(SyncingResult) /\ ToldApart(Node)
  BY BlockIdIs, SyncingResultIs, NodeIs, DistinctToldApart
<1>2. ToldApart(GetBlockWithTxHashesResult) /\ ToldApart(GetBlockWithTxsResult)
        /\ ToldApart(GetTransactionReceiptResult) /\ ToldApart(GetStateUpdateResult)
        /\ ToldApart(InvokeTxnTraceExecuteInvocation)
  BY BlockIs, GetTransactionReceiptResultIs, GetStateUpdateResultIs, InvocationIs, InOrderToldApart
     DEF Excepted, WithPending
<1>3. ToldApart(InvokeTxn) /\ ToldApart(DeclareTxn) /\ ToldApart(DeployAccountTxn) /\ ToldApart(Txn)
  BY InvokeTxnDistinct, DeclareTxnDistinct, DeployAccountTxnDistinct, TxnDistinct, DistinctToldApart
<1>4. ToldApart(BlockTransaction) /\ ToldApart(GetTransactionByHashResult)
        /\ ToldApart(GetTransactionByBlockIdAndIndexResult)
  BY BlockTransactionIs, DistinctToldApart
<1>5. ToldApart(BroadcastedDeclareTxn) /\ ToldApart(BroadcastedInvokeTxn)
        /\ ToldApart(BroadcastedDeployAccountTxn) /\ ToldApart(BroadcastedTxn)
  BY <1>3, BroadcastedDeclareTxnDistinct, BroadcastedTxnDistinct, DistinctToldApart
     DEF BroadcastedInvokeTxn, BroadcastedDeployAccountTxn
<1>6. ToldApart(TxnReceipt) /\ ToldApart(PendingTxnReceipt)
  BY TxnReceiptIs, PendingTxnReceiptIs, DistinctToldApart
<1>7. ToldApart(TransactionTrace) /\ ToldApart(ContractAbiEntry)
  BY TransactionTraceIs, ContractAbiEntryIs, DistinctToldApart
<1>8. ToldApart(GetClassResult) /\ ToldApart(GetClassAtResult)
  BY GetClassResultIs, DistinctToldApart DEF GetClassResult, GetClassAtResult
<1> QED BY <1>1, <1>2, <1>3, <1>4, <1>5, <1>6, <1>7, <1>8 DEF Unions

LEMMA TypesToldApart == \A k \in DOMAIN Types : ToldApart(Types[k])
<1>1. \A x : ToldApart(<<x>>)
  BY DEF ToldApart, IsUnion, InOrder, Distinct
<1> QED BY <1>1, AllTypes, UnionsToldApart

-----------------------------------------------------------------------------
(* The states. *)

RpcInv ==
    /\ type \in DOMAIN Types
    /\ variant \in DOMAIN Types[type]
    /\ read # Unread => read = Decode(Types[type], doc)
    /\ read \notin {Unread, Refused} => passed = Written(Types[type][read], doc)
    /\ received # Unread => read \notin {Unread, Refused} /\ received = Decode(Types[type], passed)

LEMMA RpcInit == Init => RpcInv
BY DEF Init, RpcInv

LEMMA RpcNext == RpcInv /\ [Next]_vars => RpcInv'
<1> SUFFICES ASSUME RpcInv, [Next]_vars PROVE RpcInv'
  OBVIOUS
<1> USE DEF RpcInv
<1>1. ASSUME NEW d, Change(d) PROVE RpcInv'
  BY <1>1 DEF Change, Unread
<1>2. ASSUME NEW f \in DOMAIN doc, NEW v \in Changed, ChangeValue(f, v) PROVE RpcInv'
  BY <1>1, <1>2 DEF ChangeValue
<1>3. ASSUME NEW f \in DOMAIN doc, LeaveOut(f) PROVE RpcInv'
  BY <1>1, <1>3 DEF LeaveOut
<1>4. ASSUME NEW f \in FieldsOfOthers, NEW v \in Changed, AddField(f, v) PROVE RpcInv'
  BY <1>1, <1>4 DEF AddField
<1>5. CASE Relay
  BY <1>5 DEF Relay
<1>6. CASE Receive
  BY <1>6 DEF Receive
<1>7. CASE UNCHANGED vars
  BY <1>7 DEF vars
<1> QED BY <1>2, <1>3, <1>4, <1>5, <1>6, <1>7 DEF Next

LEMMA RpcInvariant == Spec => []RpcInv
BY RpcInit, RpcNext, PTL DEF Spec

\* What the server read is a variant of the type, and reads the document.
LEMMA ReadIs ==
    ASSUME RpcInv, read \notin {Unread, Refused}
    PROVE  read \in DOMAIN Types[type] /\ Reads(Types[type][read], doc)
BY TypesToldApart, DecodeIs DEF RpcInv, ToldApart

LEMMA InvReadAlike == RpcInv => BothEndsReadAlike
<1> SUFFICES ASSUME RpcInv, received # Unread PROVE received = read
  BY DEF BothEndsReadAlike
<1>1. /\ read \in DOMAIN Types[type] /\ Reads(Types[type][read], doc)
      /\ passed = Written(Types[type][read], doc) /\ received = Decode(Types[type], passed)
  BY ReadIs DEF RpcInv
<1>2. IsUnion(Types[type]) /\ InOrder(Types[type])
  BY TypesToldApart DEF RpcInv, ToldApart
<1> QED BY <1>1, <1>2, ReadAlike

\* BothEndsReadAlike: whatever document the server took as one variant, the
\* receiver takes what the server wrote of it as the same variant (Serialize and
\* Deserialize of the untagged enums of lightclientservice/src/gen.rs).
THEOREM ReadAlikeHolds == Spec => []BothEndsReadAlike
BY RpcInvariant, InvReadAlike, PTL

LEMMA InvMisread == RpcInv => OnlyPendingIsMisread
<1> SUFFICES ASSUME RpcInv, read \notin {Unread, Refused, variant}, KeepsTags,
                    Types[type] \notin Excepted
             PROVE  FALSE
  BY DEF OnlyPendingIsMisread, Excepted
<1>1. Distinct(Types[type])
  BY TypesToldApart DEF RpcInv, ToldApart
<1>2. read \in DOMAIN Types[type] /\ Reads(Types[type][read], doc)
  BY ReadIs
<1>3. Differ(Types[type][variant], Types[type][read])
  BY <1>1, <1>2 DEF RpcInv, Distinct
<1>4. /\ DOMAIN doc \subseteq Fields(Types[type][variant])
      /\ \A f \in Tags \cap DOMAIN doc \cap DOMAIN Types[type][variant].req :
            doc[f] \in Types[type][variant].req[f]
  BY DEF KeepsTags
<1> QED BY <1>2, <1>3, <1>4, NotRead

\* OnlyPendingIsMisread: with the tags and fields of its variant, a document of
\* any type but the five excepted ones is read as that variant or refused
\* (the order and the tags of the variants in lightclientservice/src/gen.rs).
THEOREM MisreadHolds == Spec => []OnlyPendingIsMisread
BY RpcInvariant, InvMisread, PTL

-----------------------------------------------------------------------------
(* A required field is never null. *)

NoNulls(s) == \A f \in DOMAIN s.req : "null" \notin s.req[f]

LEMMA ValuesNoNull ==
    /\ \A v \in {Array, Object, Bool, Int64, String, Felt, Address, BlockHash, TxnHash, NumAsHex,
                 ChainId, U64, U128, EthAddress, StorageKey, DeprecatedContractClassProgram} : "null" \notin v
    /\ \A v \in {BlockNumber, BlockHeaderTimestamp, PendingBlockHeaderTimestamp,
                 GetTransactionByBlockIdAndIndexIndex, GetBlockTransactionCountResult,
                 StructAbiEntrySize, ResultPageRequestChunkSize, BlockTag, BlockStatus, DaMode,
                 PriceUnit, CallType, EntryPointType} : "null" \notin v
    /\ \A v \in {SimulationFlag, SimulationFlagForEstimateFee, TxGatewayStatus,
                 TxnExecutionStatus, TxnFinalityStatus, TxnStatus} : "null" \notin v
<1>1. "null" \notin Short /\ "null" \notin Query /\ "null" \notin Padded
  BY DEF Short, Query, Padded
<1>2. "null" \notin Hex
  BY <1>1 DEF Hex
<1>3. \A v \in {Array, Object, Bool, Int64, String, Felt, Address, BlockHash, TxnHash, NumAsHex,
                ChainId, U64, U128, EthAddress, StorageKey, DeprecatedContractClassProgram} : "null" \notin v
  BY <1>1, <1>2 DEF Array, Object, Bool, Int64, String, Felt, Address, BlockHash, TxnHash, NumAsHex,
                    ChainId, U64, U128, EthAddress, StorageKey, DeprecatedContractClassProgram
<1>4. \A v \in {BlockNumber, BlockHeaderTimestamp, PendingBlockHeaderTimestamp,
                GetTransactionByBlockIdAndIndexIndex, GetBlockTransactionCountResult,
                StructAbiEntrySize, ResultPageRequestChunkSize, BlockTag, BlockStatus, DaMode,
                PriceUnit, CallType, EntryPointType} : "null" \notin v
  BY DEF NotNegative, BlockNumber, BlockHeaderTimestamp, PendingBlockHeaderTimestamp,
         GetTransactionByBlockIdAndIndexIndex, GetBlockTransactionCountResult, StructAbiEntrySize,
         ResultPageRequestChunkSize, BlockTag, BlockStatus, DaMode, PriceUnit, CallType, EntryPointType
<1>5. \A v \in {SimulationFlag, SimulationFlagForEstimateFee, TxGatewayStatus,
                TxnExecutionStatus, TxnFinalityStatus, TxnStatus} : "null" \notin v
  BY DEF SimulationFlag, SimulationFlagForEstimateFee, TxGatewayStatus,
         TxnExecutionStatus, TxnFinalityStatus, TxnStatus
<1> QED BY <1>3, <1>4, <1>5

LEMMA NoFieldsNoNulls == \A opt : NoNulls(StructWith(NoFields, opt))
BY DEF NoNulls, StructWith, NoFields

LEMMA FlattenNoNulls ==
    ASSUME NEW s, NEW t, NoNulls(s), NoNulls(t)
    PROVE  NoNulls(Flatten(s, t))
BY FlattenIs DEF NoNulls

LEMMA BlocksNoNulls ==
    /\ NoNulls(ResourcePrice) /\ NoNulls(BlockHeader)
    /\ NoNulls(PendingBlockHeader) /\ NoNulls(BlockBodyWithTxHashes) /\ NoNulls(BlockBodyWithTxs)
    /\ NoNulls(BlockHashAndNumberResult)
    /\ NoNulls(SyncStatus)
<1>1. /\ NoNulls(ResourcePrice) /\ NoNulls(BlockHeader)
  BY ValuesNoNull DEF NoNulls, Struct, StructWith, ResourcePrice, BlockHeader
<1>2. /\ NoNulls(PendingBlockHeader) /\ NoNulls(BlockBodyWithTxHashes) /\ NoNulls(BlockBodyWithTxs)
      /\ NoNulls(BlockHashAndNumberResult)
  BY ValuesNoNull DEF NoNulls, Struct, StructWith, PendingBlockHeader, BlockBodyWithTxHashes,
     BlockBodyWithTxs, BlockHashAndNumberResult
<1>3. /\ NoNulls(SyncStatus)
  BY ValuesNoNull DEF NoNulls, Struct, StructWith, SyncStatus
<1> QED BY <1>1, <1>2, <1>3

LEMMA TransactionsNoNulls ==
    /\ NoNulls(FunctionCall) /\ NoNulls(ResourceBounds) /\ NoNulls(ResourceBoundsMapping)
    /\ NoNulls(InvokeTxnV0)
    /\ NoNulls(InvokeTxnV1)
    /\ NoNulls(InvokeTxnV3)
    /\ NoNulls(DeclareTxnV0)
    /\ NoNulls(DeclareTxnV1)
    /\ NoNulls(DeclareTxnV2)
    /\ NoNulls(DeclareTxnV3)
    /\ NoNulls(DeployTxn)
    /\ NoNulls(DeployAccountTxnV1)
    /\ NoNulls(DeployAccountTxnV3)
    /\ NoNulls(BroadcastedDeclareTxnV1)
    /\ NoNulls(BroadcastedDeclareTxnV2)
    /\ NoNulls(BroadcastedDeclareTxnV3)
    /\ NoNulls(MsgFromL1) /\ NoNulls(AddInvokeTransactionResult)
    /\ NoNulls(AddDeclareTransactionResult) /\ NoNulls(AddDeployAccountTransactionResult)
    /\ NoNulls(GetTransactionStatusResult)
<1>1. /\ NoNulls(FunctionCall) /\ NoNulls(ResourceBounds) /\ NoNulls(ResourceBoundsMapping)
  BY ValuesNoNull DEF NoNulls, Struct, StructWith, FunctionCall, ResourceBounds,
     ResourceBoundsMapping
<1>2. /\ NoNulls(InvokeTxnV0)
  BY ValuesNoNull DEF NoNulls, Struct, StructWith, InvokeTxnV0
<1>3. /\ NoNulls(InvokeTxnV1)
  BY ValuesNoNull DEF NoNulls, Struct, StructWith, InvokeTxnV1
<1>4. /\ NoNulls(InvokeTxnV3)
  BY ValuesNoNull DEF NoNulls, Struct, StructWith, InvokeTxnV3
<1>5. /\ NoNulls(DeclareTxnV0)
  BY ValuesNoNull DEF NoNulls, Struct, StructWith, DeclareTxnV0
<1>6. /\ NoNulls(DeclareTxnV1)
  BY ValuesNoNull DEF NoNulls, Struct, StructWith, DeclareTxnV1
<1>7. /\ NoNulls(DeclareTxnV2)
  BY ValuesNoNull DEF NoNulls, Struct, StructWith, DeclareTxnV2
<1>8. /\ NoNulls(DeclareTxnV3)
  BY ValuesNoNull DEF NoNulls, Struct, StructWith, DeclareTxnV3
<1>9. /\ NoNulls(DeployTxn)
  BY ValuesNoNull DEF NoNulls, Struct, StructWith, DeployTxn
<1>10. /\ NoNulls(DeployAccountTxnV1)
  BY ValuesNoNull DEF NoNulls, Struct, StructWith, DeployAccountTxnV1
<1>11. /\ NoNulls(DeployAccountTxnV3)
  BY ValuesNoNull DEF NoNulls, Struct, StructWith, DeployAccountTxnV3
<1>12. /\ NoNulls(BroadcastedDeclareTxnV1)
  BY ValuesNoNull DEF NoNulls, Struct, StructWith, BroadcastedDeclareTxnV1
<1>13. /\ NoNulls(BroadcastedDeclareTxnV2)
  BY ValuesNoNull DEF NoNulls, Struct, StructWith, BroadcastedDeclareTxnV2
<1>14. /\ NoNulls(BroadcastedDeclareTxnV3)
  BY ValuesNoNull DEF NoNulls, Struct, StructWith, BroadcastedDeclareTxnV3
<1>15. /\ NoNulls(MsgFromL1) /\ NoNulls(AddInvokeTransactionResult)
      /\ NoNulls(AddDeclareTransactionResult) /\ NoNulls(AddDeployAccountTransactionResult)
  BY ValuesNoNull DEF NoNulls, Struct, StructWith, MsgFromL1, AddInvokeTransactionResult,
     AddDeclareTransactionResult, AddDeployAccountTransactionResult
<1>16. /\ NoNulls(GetTransactionStatusResult)
  BY ValuesNoNull DEF NoNulls, Struct, StructWith, GetTransactionStatusResult
<1> QED BY <1>1, <1>2, <1>3, <1>4, <1>5, <1>6, <1>7, <1>8, <1>9, <1>10, <1>11, <1>12, <1>13, <1>14,
     <1>15, <1>16

LEMMA ReceiptsNoNulls ==
    /\ NoNulls(EventContent) /\ NoNulls(MsgToL1) /\ NoNulls(ResultPageRequest)
    /\ NoNulls(EventsChunk)
    /\ NoNulls(FeePayment) /\ NoNulls(FeeEstimate)
    /\ NoNulls(ExecutionResources)
    /\ NoNulls(CommonReceiptProperties)
    /\ NoNulls(PendingCommonReceiptProperties)
    /\ NoNulls(EventFilter)
<1>1. /\ NoNulls(EventContent) /\ NoNulls(MsgToL1) /\ NoNulls(ResultPageRequest)
      /\ NoNulls(EventsChunk)
  BY ValuesNoNull DEF NoNulls, Struct, StructWith, EventContent, MsgToL1, ResultPageRequest,
     EventsChunk
<1>2. /\ NoNulls(FeePayment) /\ NoNulls(FeeEstimate)
  BY ValuesNoNull DEF NoNulls, Struct, StructWith, FeePayment, FeeEstimate
<1>3. /\ NoNulls(ExecutionResources)
  BY ValuesNoNull DEF NoNulls, Struct, StructWith, ExecutionResources
<1>4. /\ NoNulls(CommonReceiptProperties)
  BY ValuesNoNull DEF NoNulls, Struct, StructWith, CommonReceiptProperties
<1>5. /\ NoNulls(PendingCommonReceiptProperties)
  BY ValuesNoNull DEF NoNulls, Struct, StructWith, PendingCommonReceiptProperties
<1>6. /\ NoNulls(EventFilter)
  BY NoFieldsNoNulls DEF EventFilter
<1> QED BY <1>1, <1>2, <1>3, <1>4, <1>5, <1>6

LEMMA TracesNoNulls ==
    /\ NoNulls(InvokeTxnTrace) /\ NoNulls(DeclareTxnTrace)
    /\ NoNulls(DeployAccountTxnTrace) /\ NoNulls(L1HandlerTxnTrace)
    /\ NoNulls(SimulatedTransaction) /\ NoNulls(BlockTransactionTrace)
<1>1. /\ NoNulls(InvokeTxnTrace) /\ NoNulls(DeclareTxnTrace)
  BY ValuesNoNull DEF NoNulls, Struct, StructWith, InvokeTxnTrace, DeclareTxnTrace
<1>2. /\ NoNulls(DeployAccountTxnTrace) /\ NoNulls(L1HandlerTxnTrace)
  BY ValuesNoNull DEF NoNulls, Struct, StructWith, DeployAccountTxnTrace, L1HandlerTxnTrace
<1>3. /\ NoNulls(SimulatedTransaction) /\ NoNulls(BlockTransactionTrace)
  BY NoFieldsNoNulls DEF SimulatedTransaction, BlockTransactionTrace
<1> QED BY <1>1, <1>2, <1>3

LEMMA ClassesNoNulls ==
    /\ NoNulls(TypedParameter) /\ NoNulls(FunctionAbiEntry) /\ NoNulls(EventAbiEntry)
    /\ NoNulls(StructAbiEntry) /\ NoNulls(DeprecatedCairoEntryPoint)
    /\ NoNulls(DeprecatedContractClass) /\ NoNulls(SierraEntryPoint)
    /\ NoNulls(ContractClassEntryPointsByType) /\ NoNulls(ContractClass)
    /\ NoNulls(DeprecatedContractClassEntryPointsByType)
<1>1. /\ NoNulls(TypedParameter) /\ NoNulls(FunctionAbiEntry) /\ NoNulls(EventAbiEntry)
  BY ValuesNoNull DEF NoNulls, Struct, StructWith, TypedParameter, FunctionAbiEntry, EventAbiEntry
<1>2. /\ NoNulls(StructAbiEntry) /\ NoNulls(DeprecatedCairoEntryPoint)
      /\ NoNulls(DeprecatedContractClass) /\ NoNulls(SierraEntryPoint)
  BY ValuesNoNull DEF NoNulls, Struct, StructWith, StructAbiEntry, DeprecatedCairoEntryPoint,
     DeprecatedContractClass, SierraEntryPoint
<1>3. /\ NoNulls(ContractClassEntryPointsByType) /\ NoNulls(ContractClass)
  BY ValuesNoNull DEF NoNulls, Struct, StructWith, ContractClassEntryPointsByType, ContractClass
<1>4. /\ NoNulls(DeprecatedContractClassEntryPointsByType)
  BY NoFieldsNoNulls DEF DeprecatedContractClassEntryPointsByType
<1> QED BY <1>1, <1>2, <1>3, <1>4

LEMMA StateNoNulls ==
    /\ NoNulls(ContractStorageDiffItem) /\ NoNulls(DeployedContractItem) /\ NoNulls(StateDiff)
    /\ NoNulls(StateUpdate) /\ NoNulls(PendingStateUpdate) /\ NoNulls(BinaryNodeBinary)
    /\ NoNulls(BinaryNode)
    /\ NoNulls(EdgeNodePath) /\ NoNulls(EdgeNodeEdge) /\ NoNulls(EdgeNode) /\ NoNulls(ContractData)
    /\ NoNulls(GetProofResult)
    /\ NoNulls(StorageDiffItem) /\ NoNulls(DeclaredClass) /\ NoNulls(ReplacedClass)
    /\ NoNulls(NonceUpdate)
<1>1. /\ NoNulls(ContractStorageDiffItem) /\ NoNulls(DeployedContractItem) /\ NoNulls(StateDiff)
  BY ValuesNoNull DEF NoNulls, Struct, StructWith, ContractStorageDiffItem, DeployedContractItem,
     StateDiff
<1>2. /\ NoNulls(StateUpdate) /\ NoNulls(PendingStateUpdate) /\ NoNulls(BinaryNodeBinary)
      /\ NoNulls(BinaryNode)
  BY ValuesNoNull DEF NoNulls, Struct, StructWith, StateUpdate, PendingStateUpdate,
     BinaryNodeBinary, BinaryNode
<1>3. /\ NoNulls(EdgeNodePath) /\ NoNulls(EdgeNodeEdge) /\ NoNulls(EdgeNode)
      /\ NoNulls(ContractData)
  BY ValuesNoNull DEF NoNulls, Struct, StructWith, EdgeNodePath, EdgeNodeEdge, EdgeNode,
     ContractData
<1>4. /\ NoNulls(GetProofResult)
  BY ValuesNoNull DEF NoNulls, Struct, StructWith, GetProofResult
<1>5. /\ NoNulls(StorageDiffItem) /\ NoNulls(DeclaredClass) /\ NoNulls(ReplacedClass)
      /\ NoNulls(NonceUpdate)
  BY NoFieldsNoNulls DEF StorageDiffItem, DeclaredClass, ReplacedClass, NonceUpdate
<1> QED BY <1>1, <1>2, <1>3, <1>4, <1>5

LEMMA FlattenedNoNulls ==
    /\ NoNulls(BlockWithTxHashes) /\ NoNulls(PendingBlockWithTxHashes)
    /\ NoNulls(BlockWithTxs) /\ NoNulls(PendingBlockWithTxs)
    /\ NoNulls(L1HandlerTxn) /\ NoNulls(FunctionInvocation) /\ NoNulls(NestedCall)
    /\ NoNulls(Event) /\ NoNulls(EmittedEvent) /\ NoNulls(OrderedEvent)
    /\ NoNulls(OrderedMessage) /\ NoNulls(GetEventsFilter) /\ NoNulls(StructMember)
<1>1. NoNulls(Struct([status |-> BlockStatus]))
  BY ValuesNoNull DEF NoNulls, Struct, StructWith
<1>2. /\ NoNulls(BlockWithTxHashes) /\ NoNulls(PendingBlockWithTxHashes)
      /\ NoNulls(BlockWithTxs) /\ NoNulls(PendingBlockWithTxs)
  BY <1>1, BlocksNoNulls, FlattenNoNulls
     DEF BlockWithTxHashes, PendingBlockWithTxHashes, BlockWithTxs, PendingBlockWithTxs
<1>3. NoNulls(Struct([nonce |-> NumAsHex, type |-> {"L1_HANDLER"}, version |-> Felt]))
  BY ValuesNoNull DEF NoNulls, Struct, StructWith
<1>4. NoNulls(L1HandlerTxn)
  BY <1>3, TransactionsNoNulls, FlattenNoNulls DEF L1HandlerTxn
<1>5. NoNulls(Struct([call_type |-> CallType, caller_address |-> Felt, calls |-> Array,
          class_hash |-> Felt, entry_point_type |-> EntryPointType, events |-> Array,
          execution_resources |-> Object, messages |-> Array, result |-> Array]))
  BY ValuesNoNull DEF NoNulls, Struct, StructWith
<1>6. NoNulls(FunctionInvocation) /\ NoNulls(NestedCall)
  BY <1>5, TransactionsNoNulls, FlattenNoNulls DEF FunctionInvocation, NestedCall
<1>7. NoNulls(Struct([from_address |-> Address]))
  BY ValuesNoNull DEF NoNulls, Struct, StructWith
<1>8. NoNulls(Event)
  BY <1>7, ReceiptsNoNulls, FlattenNoNulls DEF Event
<1>9. \A opt : NoNulls(StructWith([transaction_hash |-> TxnHash], opt))
  BY ValuesNoNull DEF NoNulls, StructWith
<1>10. NoNulls(EmittedEvent)
  BY <1>8, <1>9, FlattenNoNulls DEF EmittedEvent
<1>11. NoNulls(OrderedEvent) /\ NoNulls(OrderedMessage) /\ NoNulls(GetEventsFilter) /\ NoNulls(StructMember)
  BY ReceiptsNoNulls, ClassesNoNulls, NoFieldsNoNulls, FlattenNoNulls
     DEF OrderedEvent, OrderedMessage, GetEventsFilter, StructMember
<1> QED BY <1>2, <1>4, <1>6, <1>8, <1>10, <1>11

LEMMA ReceiptVariantsNoNulls ==
    /\ NoNulls(InvokeTxnReceipt) /\ NoNulls(L1HandlerTxnReceipt) /\ NoNulls(DeclareTxnReceipt)
    /\ NoNulls(DeployTxnReceipt) /\ NoNulls(DeployAccountTxnReceipt)
    /\ NoNulls(PendingInvokeTxnReceipt) /\ NoNulls(PendingL1HandlerTxnReceipt)
    /\ NoNulls(PendingDeclareTxnReceipt) /\ NoNulls(PendingDeployAccountTxnReceipt)
<1>1. /\ NoNulls(Struct([type |-> {"INVOKE"}]))
      /\ NoNulls(Struct([message_hash |-> NumAsHex, type |-> {"L1_HANDLER"}]))
      /\ NoNulls(Struct([type |-> {"DECLARE"}]))
      /\ NoNulls(Struct([contract_address |-> Felt, type |-> {"DEPLOY"}]))
      /\ NoNulls(Struct([contract_address |-> Felt, type |-> {"DEPLOY_ACCOUNT"}]))
  BY ValuesNoNull DEF NoNulls, Struct, StructWith
<1>2. /\ NoNulls(InvokeTxnReceipt) /\ NoNulls(L1HandlerTxnReceipt) /\ NoNulls(DeclareTxnReceipt)
      /\ NoNulls(DeployTxnReceipt) /\ NoNulls(DeployAccountTxnReceipt)
  BY <1>1, ReceiptsNoNulls, FlattenNoNulls
     DEF InvokeTxnReceipt, L1HandlerTxnReceipt, DeclareTxnReceipt, DeployTxnReceipt, DeployAccountTxnReceipt
<1>3. /\ NoNulls(PendingInvokeTxnReceipt) /\ NoNulls(PendingL1HandlerTxnReceipt)
      /\ NoNulls(PendingDeclareTxnReceipt) /\ NoNulls(PendingDeployAccountTxnReceipt)
  BY <1>1, ReceiptsNoNulls, FlattenNoNulls
     DEF PendingInvokeTxnReceipt, PendingL1HandlerTxnReceipt, PendingDeclareTxnReceipt,
         PendingDeployAccountTxnReceipt
<1> QED BY <1>2, <1>3

LEMMA StructsNoNulls == \A i \in DOMAIN Structs : NoNulls(Structs[i])
BY BlocksNoNulls, TransactionsNoNulls, ReceiptsNoNulls, TracesNoNulls, ClassesNoNulls, StateNoNulls,
   FlattenedNoNulls, ReceiptVariantsNoNulls DEF Structs

LEMMA ScalarNoNulls ==
    ASSUME NEW v, "null" \notin v
    PROVE  NoNulls(Scalar(v))
BY DEF NoNulls, Scalar, Struct, StructWith

LEMMA ValuesIs == \A i \in DOMAIN Values : "null" \notin Values[i]
BY ValuesNoNull DEF Values

\* No variant of u requires a field that may be null.
AllNoNulls(u) == \A i \in DOMAIN u : NoNulls(u[i])

LEMMA JoinNoNulls ==
    ASSUME NEW w, NEW s, NEW m \in Nat, NEW t, NEW n \in Nat, HasLen(s, m), HasLen(t, n),
           Joins(w, s, m, t, n), AllNoNulls(s), AllNoNulls(t)
    PROVE  AllNoNulls(w)
<1>1. /\ DOMAIN s = 1 .. m /\ DOMAIN t = 1 .. n /\ DOMAIN w = 1 .. m + n
      /\ (\A i \in 1 .. m : w[i] = s[i]) /\ \A i \in 1 .. n : w[m + i] = t[i]
  BY DEF Joins, HasLen
<1>2. ASSUME NEW i \in 1 .. m + n PROVE NoNulls(w[i])
  <2>1. CASE i <= m
    BY <1>1, <2>1 DEF AllNoNulls
  <2>2. CASE i > m
    <3>1. i - m \in 1 .. n /\ m + (i - m) = i
      BY <2>2
    <3> QED BY <1>1, <3>1 DEF AllNoNulls
  <2> QED BY <2>1, <2>2
<1> QED BY <1>1, <1>2 DEF AllNoNulls

LEMMA TransactionUnionsNoNulls ==
    /\ AllNoNulls(InvokeTxn) /\ AllNoNulls(DeclareTxn) /\ AllNoNulls(DeployAccountTxn)
    /\ AllNoNulls(BroadcastedDeclareTxn) /\ AllNoNulls(Txn) /\ AllNoNulls(BroadcastedTxn)
    /\ \A u \in {BlockTransaction, GetTransactionByHashResult, GetTransactionByBlockIdAndIndexResult} :
          AllNoNulls(u)
<1>1. /\ AllNoNulls(InvokeTxn) /\ AllNoNulls(DeclareTxn) /\ AllNoNulls(DeployAccountTxn)
      /\ AllNoNulls(BroadcastedDeclareTxn)
  BY TransactionsNoNulls DEF AllNoNulls, InvokeTxn, DeclareTxn, DeployAccountTxn, BroadcastedDeclareTxn
<1>2. AllNoNulls(Txn)
  <2>1. /\ DOMAIN InvokeTxn = 1 .. 3 /\ DOMAIN DeclareTxn = 1 .. 4 /\ DOMAIN DeployAccountTxn = 1 .. 2
        /\ DOMAIN Txn = 1 .. 11
    BY InvokeTxnDistinct, DeclareTxnDistinct, DeployAccountTxnDistinct, TxnDistinct
  <2>2. \A i \in 1 .. 11 :
          \/ \E j \in 1 .. 3 : Txn[i] = InvokeTxn[j]
          \/ Txn[i] = L1HandlerTxn
          \/ \E j \in 1 .. 4 : Txn[i] = DeclareTxn[j]
          \/ Txn[i] = DeployTxn
          \/ \E j \in 1 .. 2 : Txn[i] = DeployAccountTxn[j]
    <3> TAKE i \in 1 .. 11
    <3>1. i \in 1 .. 3 \/ i = 4 \/ (i - 4 \in 1 .. 4 /\ i \in 5 .. 8) \/ i = 9 \/ (i - 9 \in 1 .. 2 /\ i \in 10 .. 11)
      OBVIOUS
    <3> QED BY <3>1, TxnHasLen
  <2> QED BY <1>1, <2>1, <2>2, FlattenedNoNulls, TransactionsNoNulls DEF AllNoNulls
<1>3. AllNoNulls(BroadcastedTxn)
  <2>1. /\ DOMAIN InvokeTxn = 1 .. 3 /\ DOMAIN BroadcastedDeclareTxn = 1 .. 3
        /\ DOMAIN DeployAccountTxn = 1 .. 2 /\ DOMAIN BroadcastedTxn = 1 .. 8
    BY InvokeTxnDistinct, BroadcastedDeclareTxnDistinct, DeployAccountTxnDistinct, BroadcastedTxnDistinct
  <2>2. \A i \in 1 .. 8 :
          \/ \E j \in 1 .. 3 : BroadcastedTxn[i] = InvokeTxn[j]
          \/ \E j \in 1 .. 3 : BroadcastedTxn[i] = BroadcastedDeclareTxn[j]
          \/ \E j \in 1 .. 2 : BroadcastedTxn[i] = DeployAccountTxn[j]
    <3> TAKE i \in 1 .. 8
    <3>1. i \in 1 .. 3 \/ (i - 3 \in 1 .. 3 /\ i \in 4 .. 6) \/ (i - 6 \in 1 .. 2 /\ i \in 7 .. 8)
      OBVIOUS
    <3> QED BY <3>1, BroadcastedTxnHasLen
  <2> QED BY <1>1, <2>1, <2>2 DEF AllNoNulls
<1>4. AllNoNulls(FlattenUnion(Txn, Struct([transaction_hash |-> TxnHash])))
  <2>1. NoNulls(Struct([transaction_hash |-> TxnHash]))
    BY ValuesNoNull DEF NoNulls, Struct, StructWith
  <2> QED BY <1>2, <2>1, FlattenNoNulls DEF AllNoNulls, FlattenUnion
<1> QED BY <1>1, <1>2, <1>3, <1>4
        DEF BlockTransaction, GetTransactionByHashResult, GetTransactionByBlockIdAndIndexResult

LEMMA UnionsNoNulls == \A m \in 1 .. 25 : AllNoNulls(Unions[m])
<1>1. AllNoNulls(BlockId)
  <2>1. NoNulls(Struct([block_hash |-> BlockHash])) /\ NoNulls(Struct([block_number |-> BlockNumber]))
    BY ValuesNoNull DEF NoNulls, Struct, StructWith
  <2>2. NoNulls(Scalar(BlockTag))
    BY ValuesNoNull, ScalarNoNulls
  <2> QED BY <2>1, <2>2 DEF AllNoNulls, BlockId
<1>2. AllNoNulls(SyncingResult) /\ AllNoNulls(Node)
  <2>1. NoNulls(Scalar(Bool))
    BY ValuesNoNull, ScalarNoNulls
  <2> QED BY <2>1, BlocksNoNulls, StateNoNulls DEF AllNoNulls, SyncingResult, Node
<1>3. AllNoNulls(GetBlockWithTxHashesResult) /\ AllNoNulls(GetBlockWithTxsResult)
        /\ AllNoNulls(GetStateUpdateResult)
  BY FlattenedNoNulls, StateNoNulls
     DEF AllNoNulls, GetBlockWithTxHashesResult, GetBlockWithTxsResult, GetStateUpdateResult
<1>4. AllNoNulls(InvokeTxnTraceExecuteInvocation) /\ AllNoNulls(TransactionTrace)
  BY FlattenedNoNulls, NoFieldsNoNulls, TracesNoNulls
     DEF AllNoNulls, InvokeTxnTraceExecuteInvocation, TransactionTrace
<1>5. AllNoNulls(ContractAbiEntry) /\ AllNoNulls(GetClassResult) /\ AllNoNulls(GetClassAtResult)
  BY ClassesNoNulls DEF AllNoNulls, ContractAbiEntry, GetClassResult, GetClassAtResult
<1>6. AllNoNulls(TxnReceipt) /\ AllNoNulls(PendingTxnReceipt)
  BY ReceiptVariantsNoNulls DEF AllNoNulls, TxnReceipt, PendingTxnReceipt
<1>7. AllNoNulls(GetTransactionReceiptResult)
  <2>1. Joins(GetTransactionReceiptResult, TxnReceipt, 5, PendingTxnReceipt, 4)
    BY TxnReceiptIs, PendingTxnReceiptIs, Concat DEF GetTransactionReceiptResult
  <2> QED BY <1>6, <2>1, TxnReceiptIs, PendingTxnReceiptIs, JoinNoNulls
<1>8. AllNoNulls(BroadcastedInvokeTxn) /\ AllNoNulls(BroadcastedDeployAccountTxn)
  BY TransactionUnionsNoNulls DEF BroadcastedInvokeTxn, BroadcastedDeployAccountTxn
<1> QED BY <1>1, <1>2, <1>3, <1>4, <1>5, <1>6, <1>7, <1>8, TransactionUnionsNoNulls DEF Unions

LEMMA TypesNoNulls == \A k \in DOMAIN Types : AllNoNulls(Types[k])
<1>1. \A x : NoNulls(x) => AllNoNulls(<<x>>)
  BY DEF AllNoNulls
<1>2. \A i \in DOMAIN Values : NoNulls(Scalar(Values[i]))
  BY ValuesIs, ScalarNoNulls
<1> QED BY <1>1, <1>2, AllTypes, StructsNoNulls, UnionsNoNulls

-----------------------------------------------------------------------------
(* A document that conforms. *)

LEMMA InvConforming == RpcInv => ConformingArrives
<1> SUFFICES ASSUME RpcInv, read # Unread, Conforms
             PROVE  read = variant /\ passed = Restrict(doc, {f \in DOMAIN doc : doc[f] # "null"})
  BY DEF ConformingArrives
<1> DEFINE u == Types[type]
           s == u[variant]
<1>1. variant \in DOMAIN u /\ Reads(s, doc) /\ DOMAIN doc \subseteq Fields(s)
  BY DEF RpcInv, Conforms
<1>2. IsUnion(u) /\ InOrder(u) /\ NoNulls(s)
  BY TypesToldApart, TypesNoNulls DEF RpcInv, ToldApart, AllNoNulls
<1>3. read = Decode(u, doc)
  BY DEF RpcInv
<1>4. read \notin {Unread, Refused} => passed = Written(u[read], doc)
  BY DEF RpcInv
<1> HIDE DEF u, s
<1>5. ASSUME NEW j \in 1 .. variant - 1
      PROVE  ~Reads(u[j], doc)
  <2>1. j \in DOMAIN u /\ j < variant
    BY <1>1, <1>2 DEF IsUnion
  <2>2. Differ(s, u[j])
    BY <1>1, <1>2, <2>1 DEF InOrder, s
  <2>3. \A f \in Tags \cap DOMAIN doc \cap DOMAIN s.req : doc[f] \in s.req[f]
    BY <1>1 DEF Reads
  <2> QED BY <1>1, <2>2, <2>3, NotRead
<1>6. read = variant
  BY <1>1, <1>2, <1>3, <1>5, DecodeIsFirst DEF s
<1>7. passed = Written(s, doc)
  <2>1. variant \notin {Unread, Refused}
    BY <1>1, <1>2 DEF IsUnion, Unread, Refused
  <2> QED BY <1>4, <1>6, <2>1 DEF s
<1>8. {f \in DOMAIN doc \cap Fields(s) : f \in DOMAIN s.req \/ doc[f] # "null"}
        = {f \in DOMAIN doc : doc[f] # "null"}
  <2>1. \A f \in DOMAIN s.req : doc[f] # "null"
    BY <1>1, <1>2 DEF Reads, NoNulls
  <2> QED BY <1>1, <2>1
<1> QED BY <1>6, <1>7, <1>8 DEF Written

\* ConformingArrives: a document of any type that conforms to the variant it was
\* written as is read as that variant by the server, and passed on with nothing
\* but its null fields left out (lightclientservice/src/gen.rs).
THEOREM ConformingHolds == Spec => []ConformingArrives
BY RpcInvariant, InvConforming, PTL

=============================================================================
