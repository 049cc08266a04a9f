------------------------- MODULE MerkleProof_proofs -------------------------
(***************************************************************************)
(* The check of a storage proof, for keys of any number of bits and states *)
(* of any size: it decides what the state holds, of a node that computes   *)
(* its proofs; and of any node what it verifies is held, if the edges of   *)
(* the proofs lead down the key.                                           *)
(***************************************************************************)
EXTENDS MerkleProof, SequenceTheorems, TLAPS

(* The path of a key, which is checked from its last node to its first.    *)

\* Every node but the last leads to the next one.
LEMMA NodeLeadsOn ==
    ASSUME NEW p, NEW t, NEW k, NEW depth, IsPath(p, t, k, depth),
           NEW i \in 1 .. Len(p), i # Len(p)
    PROVE  /\ NodeAt(p[i], depth[i])
           /\ Follows(p[i], k, depth[i])
           /\ p[i + 1] = Child(p[i], k, depth[i])
           /\ depth[i + 1] = depth[i] + Length(p[i])
BY DEF IsPath

\* A last node that is binary has the leaf of the key on the key's side.
LEMMA LastBinary ==
    ASSUME NEW p, NEW t, NEW k, NEW depth \in [1 .. Len(p) -> 0 .. Height - 1],
           IsPath(p, t, k, depth), Len(p) \in Nat \ {0}, ~IsEdge(p[Len(p)])
    PROVE  /\ depth[Len(p)] = Height - 1
           /\ k \in DOMAIN t
           /\ t[k] = IF k[Height] = 0 THEN p[Len(p)][2] ELSE p[Len(p)][3]
<1> DEFINE n == Len(p)
<1>1. Height \in Nat \ {0}
  BY MerkleAssumption
<1>2. depth[n] \in 0 .. Height - 1 /\ n \in 1 .. Len(p)
  OBVIOUS
<1>3. Length(p[n]) = 1 /\ Follows(p[n], k, depth[n])
  BY DEF Length, Follows
<1>4. /\ depth[n] + Length(p[n]) = Height
      /\ k \in DOMAIN t /\ t[k] = Child(p[n], k, depth[n])
  BY <1>2, <1>3 DEF IsPath
<1> QED BY <1>1, <1>2, <1>3, <1>4 DEF Child

\* The last len bits of a key.
Masked(k, len) == [i \in 1 .. Height |-> IF i > Height - len THEN k[i] ELSE 0]

\* They are the path of an edge that ends with the key.
LEMMA WholePath ==
    ASSUME NEW k, NEW d \in Nat, NEW len \in Nat, d + len = Height
    PROVE  PathOf(k, d, len) = Masked(k, len)
<1>1. \A i \in 1 .. Height : i - Height + d + len = i
  BY MerkleAssumption
<1> QED BY <1>1 DEF PathOf, Masked

\* A last node that is an edge leads to the leaf of the key, or the key is not
\* in the trie; it is the edge to a value along the key exactly if that is the leaf.
LEMMA LastEdge ==
    ASSUME NEW p, NEW t, NEW k, NEW depth \in [1 .. Len(p) -> 0 .. Height - 1],
           IsPath(p, t, k, depth), Len(p) \in Nat \ {0}, IsEdge(p[Len(p)]),
           NEW v, ~Inner(v)
    PROVE  LET last == p[Len(p)]
               len == last[4]
           IN  /\ len \in 1 .. Height
               /\ IF last = Edge(v, Masked(k, len), len)
                  THEN k \in DOMAIN t /\ t[k] = v /\ depth[Len(p)] + len = Height
                  ELSE ~(k \in DOMAIN t /\ t[k] = v)
<1> DEFINE n == Len(p)
           last == p[Len(p)]
           len == last[4]
           d == depth[Len(p)]
<1>1. Height \in Nat \ {0}
  BY MerkleAssumption
<1>2. d \in 0 .. Height - 1 /\ n \in 1 .. Len(p)
  OBVIOUS
<1>3. Length(last) = len
  BY DEF Length
<1>4. last = Edge(last[2], last[3], last[4]) /\ len \in 1 .. Height - d
  BY <1>2, <1>3 DEF IsPath, NodeAt
<1>5. Child(last, k, d) = last[2] /\ (Follows(last, k, d) <=> last[3] = PathOf(k, d, len))
  BY <1>3 DEF Child, Follows
<1>6. /\ d + Length(last) < Height => Inner(Child(last, k, d))
      /\ \/ ~Follows(last, k, d) /\ k \notin DOMAIN t
         \/ /\ Follows(last, k, d) /\ d + Length(last) = Height
            /\ k \in DOMAIN t /\ t[k] = Child(last, k, d)
  BY <1>2 DEF IsPath
<1> SUFFICES /\ len \in 1 .. Height
             /\ IF last = Edge(v, Masked(k, len), len)
                THEN k \in DOMAIN t /\ t[k] = v /\ d + len = Height
                ELSE ~(k \in DOMAIN t /\ t[k] = v)
  OBVIOUS
<1> HIDE DEF n, last, len, d
<1>9. len \in 1 .. Height
  BY <1>1, <1>2, <1>4
<1>7. CASE d + len = Height
  <2>1. PathOf(k, d, len) = Masked(k, len)
    <3>1. d \in Nat /\ len \in Nat
      BY <1>1, <1>2, <1>9
    <3> QED BY <1>7, <3>1, WholePath
  <2>2. last = Edge(v, Masked(k, len), len) <=> last[2] = v /\ last[3] = Masked(k, len)
    BY <1>4 DEF Edge, len
  <2> QED BY <1>3, <1>5, <1>6, <1>7, <1>9, <2>1, <2>2
<1>8. CASE d + len # Height
  <2>1. Inner(last[2]) /\ k \notin DOMAIN t
    BY <1>1, <1>2, <1>3, <1>4, <1>5, <1>6, <1>8
  <2>2. last # Edge(v, Masked(k, len), len)
    BY <2>1 DEF Edge
  <2> QED BY <1>9, <2>1, <2>2
<1> QED BY <1>7, <1>8
-----------------------------------------------------------------------------
(* What the check knows half way, of a node that computes its proofs.      *)

\* The trie that is being proved, its key's proof, and what it should show.
Trie == IF phase = "storage" THEN Leaves(asked.proof_of[asked.address].storage)
        ELSE ContractLeaves(asked.proof_of)
Full == Proof(Trie, key)
Match(t, k, v) == IF DOMAIN t = {} THEN v = Felt(0) ELSE k \in DOMAIN t /\ t[k] = v

\* The first m nodes of p are left.
Left(p, m) ==
    /\ proof \in Seq({p[i] : i \in DOMAIN p})
    /\ Len(proof) = m
    /\ \A i \in 1 .. m : proof[i] = p[i]

\* The nodes from m + 1 on are checked: the hash is that of node m + 1, and the
\* bits used are those of the key below it.
Climbed(p, depth, m) ==
    /\ Left(p, m)
    /\ hold = p[m + 1]
    /\ path_len = Height - depth[m + 1]
    /\ index \in Nat \ {0}

\* Nothing is checked yet, or the value matches and the nodes above are left.
Started(p) == proof = p /\ path_len = 0 /\ hold = value /\ index = 0
Climbs(p, t) ==
    \/ Started(p)
    \/ /\ p # <<>>
       /\ Match(t, key, value)
       /\ \E depth \in [1 .. Len(p) -> 0 .. Height - 1] :
            /\ IsPath(p, t, key, depth)
            /\ \E m \in 0 .. Len(p) - 1 : Climbed(p, depth, m)

ParseInv ==
    /\ key \in Bits
    /\ ~Inner(value)
    /\ IsProof(Full, Trie, key)
    /\ Climbs(Full, Trie)

\* The question, which stays as it is.
Question ==
    /\ asked.proof_of \in Worlds
    /\ asked.root_of \in Others \cup {asked.proof_of}
    /\ asked.key \in Keys
    /\ asked.address \in Addresses
    /\ answer \in Answers(asked.proof_of, asked.address, asked.key)
    /\ phase \in {"storage", "contract", "verified", "rejected"}

\* That each verdict is the right one.
IInv ==
    /\ Question
    /\ IsComputed =>
        /\ phase = "storage" =>
            /\ asked.address \in DOMAIN asked.proof_of
            /\ ParseInv
            /\ key = asked.key
            /\ value = Felt(asked.value)
        /\ phase = "contract" =>
            /\ asked.address \in DOMAIN asked.proof_of
            /\ ParseInv
            /\ key = asked.address
            /\ value = ContractLeaves(asked.proof_of)[asked.address]
            /\ Holds(asked.proof_of)
    /\ ComputedProofsDecide
-----------------------------------------------------------------------------
(* One node of the proof.                                                  *)

\* The last node is checked against the value, which it leads to if it passes.
LEMMA FirstNode ==
    ASSUME NEW p, NEW t, NEW depth \in [1 .. Len(p) -> 0 .. Height - 1],
           key \in Bits, ~Inner(value), IsPath(p, t, key, depth), DOMAIN t # {},
           p \in Seq({p[i] : i \in DOMAIN p}),
           Parsing, Started(p),
           EdgeNode \/ BinaryNode
    PROVE  \/ Rejected /\ ~Match(t, key, value)
           \/ /\ Match(t, key, value)
              /\ hold' = p[Len(p)] /\ proof' = rest /\ index' = 1
              /\ path_len' = Height - depth[Len(p)]
              /\ UNCHANGED <<question, phase, key, value>>
<1> DEFINE n == Len(p)
<1>1. Height \in Nat \ {0}
  BY MerkleAssumption
<1>2. n \in Nat \ {0} /\ n \in 1 .. Len(p) /\ node = p[n]
  BY DEF Parsing, node, Started
<1>3. NodeAt(p[n], depth[n]) /\ depth[n] \in 0 .. Height - 1
  BY <1>2 DEF IsPath
<1>4. CASE IsEdge(node)
  <2> DEFINE len == p[n][4]
  <2>1. /\ len \in 1 .. Height
        /\ IF p[n] = Edge(value, Masked(key, len), len)
           THEN key \in DOMAIN t /\ t[key] = value /\ depth[n] + len = Height
           ELSE ~(key \in DOMAIN t /\ t[key] = value)
    BY <1>2, <1>4, LastEdge
  <2>2. LastEdgeMatches(len) <=> p[n] = Edge(value, Masked(key, len), len)
    BY <1>1, <1>2, <2>1 DEF LastEdgeMatches, felt_from_bits, Masked
  <2>3. IF ~LastEdgeMatches(len) THEN Rejected
        ELSE /\ hold' = p[n]
             /\ path_len' = 0 + len
             /\ index' = 0 + 1
             /\ proof' = rest
             /\ UNCHANGED <<question, phase, key, value>>
    BY <1>2, <1>4 DEF EdgeNode, BinaryNode, EdgeLength, Climb, Started
  <2> HIDE DEF len, n
  <2>4. CASE p[n] = Edge(value, Masked(key, len), len)
    <3>1. len = Height - depth[n]
      BY <1>1, <1>3, <2>1, <2>4
    <3> QED BY <2>1, <2>2, <2>3, <2>4, <3>1 DEF Match, n
  <2>5. CASE p[n] # Edge(value, Masked(key, len), len)
    BY <2>1, <2>2, <2>3, <2>5 DEF Match
  <2> QED BY <2>4, <2>5
<1>5. CASE ~IsEdge(node)
  <2>1. /\ depth[n] = Height - 1 /\ key \in DOMAIN t
        /\ t[key] = IF key[Height] = 0 THEN p[n][2] ELSE p[n][3]
    BY <1>2, <1>5, LastBinary
  <2>2. p[n] = Binary(p[n][2], p[n][3])
    BY <1>2, <1>3, <1>5 DEF NodeAt
  <2>3. IF \/ 0 + 1 > Height
           \/ p[n] # (IF key[Height - (0 + 1) + 1] = 0 THEN Binary(value, p[n][3])
                      ELSE Binary(p[n][2], value))
        THEN Rejected
        ELSE /\ hold' = p[n] /\ path_len' = 0 + 1 /\ index' = 0 + 1 /\ proof' = rest
             /\ UNCHANGED <<question, phase, key, value>>
    BY <1>2, <1>5 DEF EdgeNode, BinaryNode, Direction, Climb, Started
  <2>4. Height - (0 + 1) + 1 = Height /\ Height - depth[n] = 1 /\ ~(0 + 1 > Height)
    BY <1>1, <2>1
  <2>5. p[n] = (IF key[Height] = 0 THEN Binary(value, p[n][3]) ELSE Binary(p[n][2], value))
            <=> value = t[key]
    <3> HIDE DEF n
    <3>1. CASE key[Height] = 0
      <4>1. p[n] = Binary(value, p[n][3]) <=> p[n][2] = value
        BY <2>2 DEF Binary
      <4> QED BY <2>1, <3>1, <4>1
    <3>2. CASE key[Height] # 0
      <4>1. p[n] = Binary(p[n][2], value) <=> p[n][3] = value
        BY <2>2 DEF Binary
      <4> QED BY <2>1, <3>2, <4>1
    <3> QED BY <3>1, <3>2
  <2> HIDE DEF n
  <2> QED BY <2>1, <2>3, <2>4, <2>5 DEF Match, n
<1> QED BY <1>4, <1>5

\* A node above another one on the path passes.
LEMMA NextNode ==
    ASSUME NEW p, NEW t, NEW depth \in [1 .. Len(p) -> 0 .. Height - 1],
           key \in Bits, IsPath(p, t, key, depth), Len(p) \in Nat,
           NEW m \in 0 .. Len(p) - 1, Climbed(p, depth, m),
           Parsing, EdgeNode \/ BinaryNode
    PROVE  /\ m # 0
           /\ hold' = p[m] /\ proof' = rest /\ index' = index + 1
           /\ path_len' = Height - depth[m]
           /\ UNCHANGED <<question, phase, key, value>>
<1>1. Height \in Nat \ {0}
  BY MerkleAssumption
<1>2. m # 0 /\ m \in 1 .. Len(p) /\ m # Len(p) /\ m + 1 \in 1 .. Len(p) /\ node = p[m]
  BY DEF Parsing, node, Climbed, Left
<1>3. /\ NodeAt(p[m], depth[m])
      /\ p[m + 1] = Child(p[m], key, depth[m])
      /\ depth[m + 1] = depth[m] + Length(p[m])
  BY <1>2, NodeLeadsOn
<1>4. depth[m] \in 0 .. Height - 1 /\ depth[m + 1] \in 0 .. Height - 1
  BY <1>2
<1>5. path_len = Height - depth[m + 1] /\ hold = p[m + 1]
  BY DEF Climbed
<1>6. index # 0
  BY DEF Climbed
<1>7. CASE IsEdge(node)
  <2>1. Length(p[m]) = p[m][4] /\ Length(p[m]) \in 1 .. Height - depth[m]
    BY <1>2, <1>3, <1>7 DEF Length, NodeAt
  <2>2. hold' = p[m] /\ path_len' = path_len + p[m][4] /\ proof' = rest /\ index' = index + 1
        /\ UNCHANGED <<question, phase, key, value>>
    BY <1>2, <1>6, <1>7 DEF EdgeNode, BinaryNode, EdgeLength, Climb
  <2>3. path_len + p[m][4] = Height - depth[m]
    <3>1. path_len = Height - (depth[m] + p[m][4])
      BY <1>3, <1>5, <2>1
    <3>2. Height \in Int /\ depth[m] \in Int /\ p[m][4] \in Int
      BY <1>1, <1>4, <2>1
    <3>3. \A h, d, l \in Int : h - (d + l) + l = h - d
      OBVIOUS
    <3> QED BY <3>1, <3>2, <3>3
  <2> QED BY <1>2, <2>2, <2>3
<1>8. CASE ~IsEdge(node)
  <2>1. Length(p[m]) = 1 /\ p[m] = Binary(p[m][2], p[m][3])
    BY <1>2, <1>3, <1>8 DEF Length, NodeAt
  <2>2. p[m + 1] = IF key[depth[m] + 1] = 0 THEN p[m][2] ELSE p[m][3]
    BY <1>2, <1>3, <1>8 DEF Child
  <2>3. /\ path_len + 1 = Height - depth[m] /\ Height - (path_len + 1) + 1 = depth[m] + 1
        /\ ~(path_len + 1 > Height)
    <3>1. path_len = Height - (depth[m] + 1) /\ depth[m] \in Nat /\ Height \in Nat
      BY <1>1, <1>3, <1>4, <1>5, <2>1
    <3> QED BY <3>1
  <2>4. p[m] = IF key[depth[m] + 1] = 0 THEN Binary(hold, p[m][3]) ELSE Binary(p[m][2], hold)
    BY <1>5, <2>1, <2>2
  <2>5. IF \/ path_len + 1 > Height
           \/ p[m] # (IF key[Height - (path_len + 1) + 1] = 0 THEN Binary(hold, p[m][3])
                      ELSE Binary(p[m][2], hold))
        THEN Rejected
        ELSE /\ hold' = p[m] /\ path_len' = path_len + 1 /\ proof' = rest
             /\ index' = index + 1
             /\ UNCHANGED <<question, phase, key, value>>
    BY <1>2, <1>8 DEF EdgeNode, BinaryNode, Direction, Climb
  <2> QED BY <1>2, <2>3, <2>4, <2>5
<1> QED BY <1>7, <1>8

\* What is left when the last node of a sequence is taken off.
LEMMA TakeLast ==
    ASSUME NEW S, NEW s \in Seq(S), s # <<>>
    PROVE  /\ SubSeq(s, 1, Len(s) - 1) \in Seq(S)
           /\ Len(SubSeq(s, 1, Len(s) - 1)) = Len(s) - 1
           /\ \A i \in 1 .. Len(s) - 1 : SubSeq(s, 1, Len(s) - 1)[i] = s[i]
<1> DEFINE n == Len(s) - 1
<1>1. n \in Nat /\ \A i \in 1 .. n : s[i] \in S
  OBVIOUS
<1> SUFFICES /\ SubSeq(s, 1, n) \in Seq(S)
             /\ Len(SubSeq(s, 1, n)) = n
             /\ \A i \in 1 .. n : SubSeq(s, 1, n)[i] = s[i]
  OBVIOUS
<1> HIDE DEF n
<1>2. /\ SubSeq(s, 1, n) \in Seq(S)
      /\ Len(SubSeq(s, 1, n)) = IF 1 <= n THEN n - 1 + 1 ELSE 0
      /\ \A i \in 1 .. n - 1 + 1 : SubSeq(s, 1, n)[i] = s[1 + i - 1]
  BY <1>1, SubSeqProperties
<1>3. n - 1 + 1 = n /\ \A i \in 1 .. n : 1 + i - 1 = i
  BY <1>1
<1> QED BY <1>1, <1>2, <1>3

\* Each node is another step up the path, or shows that the value does not match.
LEMMA ParseStep ==
    ASSUME NEW p, NEW t,
           key \in Bits, ~Inner(value), IsProof(p, t, key), Climbs(p, t),
           Parsing, EdgeNode \/ BinaryNode
    PROVE  \/ Rejected /\ ~Match(t, key, value)
           \/ Climbs(p, t)' /\ UNCHANGED <<question, phase, key, value>>
<1>1. p \in Seq({p[i] : i \in DOMAIN p}) /\ Len(p) \in Nat
  BY DEF IsProof, IsSequence
<1>2. proof # <<>>
  BY DEF Parsing
<1>3. CASE Started(p)
  <2>1. DOMAIN t # {} /\ p # <<>> /\ Len(p) \in 1 .. Len(p)
    <3>1. DOMAIN t # {} /\ p # <<>>
      BY <1>2, <1>3 DEF IsProof, Started
    <3> QED BY <1>1, <3>1
  <2>2. PICK depth \in [1 .. Len(p) -> 0 .. Height - 1] : IsPath(p, t, key, depth)
    BY <2>1 DEF IsProof
  <2>3. \/ Rejected /\ ~Match(t, key, value)
        \/ /\ Match(t, key, value)
           /\ hold' = p[Len(p)] /\ proof' = rest /\ index' = 1
           /\ path_len' = Height - depth[Len(p)]
           /\ UNCHANGED <<question, phase, key, value>>
    BY <1>1, <1>3, <2>1, <2>2, FirstNode
  <2>4. ASSUME Match(t, key, value),
               hold' = p[Len(p)], proof' = rest, index' = 1,
               path_len' = Height - depth[Len(p)],
               UNCHANGED <<question, phase, key, value>>
        PROVE  Climbs(p, t)'
    <3> DEFINE m == Len(p) - 1
    <3>1. m \in 0 .. Len(p) - 1 /\ m + 1 = Len(p)
      BY <2>1
    <3>2. rest = SubSeq(p, 1, m)
      BY <1>3 DEF rest, Started
    <3>3. Climbed(p, depth, m)'
      BY <1>1, <2>1, <2>4, <3>1, <3>2, TakeLast DEF Climbed, Left
    <3>4. Match(t, key, value)' /\ IsPath(p, t, key, depth)'
      BY <2>2, <2>4 DEF Match, IsPath, NodeAt, Follows, Child
    <3> HIDE DEF m
    <3> QED BY <2>1, <2>2, <3>1, <3>3, <3>4 DEF Climbs
  <2> QED BY <2>3, <2>4
<1>4. CASE /\ p # <<>>
           /\ Match(t, key, value)
           /\ \E depth \in [1 .. Len(p) -> 0 .. Height - 1] :
                /\ IsPath(p, t, key, depth)
                /\ \E m \in 0 .. Len(p) - 1 : Climbed(p, depth, m)
  <2>1. PICK depth \in [1 .. Len(p) -> 0 .. Height - 1] :
            /\ IsPath(p, t, key, depth)
            /\ \E m \in 0 .. Len(p) - 1 : Climbed(p, depth, m)
    BY <1>4
  <2>2. PICK m \in 0 .. Len(p) - 1 : Climbed(p, depth, m)
    BY <2>1
  <2>3. /\ m # 0
        /\ hold' = p[m] /\ proof' = rest /\ index' = index + 1
        /\ path_len' = Height - depth[m]
        /\ UNCHANGED <<question, phase, key, value>>
    BY <1>1, <2>1, <2>2, NextNode
  <2>4. m - 1 \in 0 .. Len(p) - 1 /\ m - 1 + 1 = m
    BY <1>1, <2>2, <2>3
  <2>5. Climbed(p, depth, m - 1)'
    <3>1. proof \in Seq({p[i] : i \in DOMAIN p}) /\ Len(proof) = m
          /\ \A i \in 1 .. m : proof[i] = p[i]
      BY <2>2 DEF Climbed, Left
    <3>2. /\ rest \in Seq({p[i] : i \in DOMAIN p})
          /\ Len(rest) = m - 1
          /\ \A i \in 1 .. m - 1 : rest[i] = proof[i]
      BY <1>2, <3>1, TakeLast DEF rest
    <3>3. index' \in Nat \ {0}
      BY <2>2, <2>3 DEF Climbed
    <3> QED BY <2>3, <2>4, <3>1, <3>2, <3>3 DEF Climbed, Left
  <2>6. Match(t, key, value)' /\ IsPath(p, t, key, depth)'
    BY <1>4, <2>1, <2>3 DEF Match, IsPath, NodeAt, Follows, Child
  <2> QED BY <1>4, <2>1, <2>3, <2>4, <2>5, <2>6 DEF Climbs
<1> QED BY <1>3, <1>4 DEF Climbs

\* With no node left, the hash is the root exactly if the value matches.
LEMMA ParseEnd ==
    ASSUME NEW p, NEW t, IsProof(p, t, key), Climbs(p, t), proof = <<>>
    PROVE  Match(t, key, value) <=> hold = Root(t)
<1>1. CASE Started(p)
  BY <1>1 DEF IsProof, Match, Started
<1>2. CASE /\ p # <<>>
           /\ Match(t, key, value)
           /\ \E depth \in [1 .. Len(p) -> 0 .. Height - 1] :
                /\ IsPath(p, t, key, depth)
                /\ \E m \in 0 .. Len(p) - 1 : Climbed(p, depth, m)
  <2>1. PICK depth, m : IsPath(p, t, key, depth) /\ Climbed(p, depth, m)
    BY <1>2
  <2>2. m = 0 /\ hold = p[1]
    BY <2>1 DEF Climbed, Left
  <2> QED BY <1>2, <2>1, <2>2 DEF IsPath
<1> QED BY <1>1, <1>2 DEF Climbs
-----------------------------------------------------------------------------
(* The verdict.                                                            *)

\* In its storage phase the check decides what the state of the proof holds.
LEMMA StorageMatch ==
    ASSUME NEW world, asked.address \in DOMAIN world
    PROVE  Match(Leaves(world[asked.address].storage), asked.key, Felt(asked.value))
               <=> Holds(world)
<1> DEFINE storage == world[asked.address].storage
           t == Leaves(storage)
<1>1. t = [k \in DOMAIN storage |-> Felt(storage[k])]
  BY DEF Leaves
<1>2. \A a, b : Felt(a) = Felt(b) <=> a = b
  BY DEF Felt
<1>3. Holds(world) <=>
        \/ asked.key \in DOMAIN storage /\ storage[asked.key] = asked.value
        \/ DOMAIN storage = {} /\ asked.value = 0
  BY DEF Holds
<1> SUFFICES Match(t, asked.key, Felt(asked.value)) <=> Holds(world)
  OBVIOUS
<1> HIDE DEF t
<1>4. DOMAIN t = DOMAIN storage /\ \A k \in DOMAIN storage : t[k] = Felt(storage[k])
  BY <1>1
<1> QED BY <1>2, <1>3, <1>4 DEF Match

LEMMA NotInner ==
    /\ \A n : ~Inner(Felt(n))
    /\ \A c, r : ~Inner(calculate_contract_state_hash(c, r))
BY DEF Inner, Felt, calculate_contract_state_hash

\* What verify starts from.
LEMMA InitQuestion ==
    ASSUME Init
    PROVE  /\ Question
           /\ key = asked.key /\ value = Felt(asked.value)
           /\ hold = value /\ path_len = 0 /\ index = 0
           /\ IF answer.contract_data = NoData
              THEN phase = "rejected" /\ proof = <<>>
              ELSE phase = "storage" /\ proof = answer.contract_data.storage_proof
<1>1. PICK world \in Worlds : \E other \in Others \cup {world} :
        \E address \in Addresses, k \in Keys, v \in Values \cup {0} :
          /\ asked = [root_of |-> other, proof_of |-> world, address |-> address,
                      key |-> k, value |-> v]
          /\ answer \in Answers(world, address, k)
          /\ IF answer.contract_data = NoData
             THEN phase = "rejected" /\ proof = <<>>
             ELSE phase = "storage" /\ proof = answer.contract_data.storage_proof
          /\ key = k /\ value = Felt(v) /\ hold = Felt(v) /\ path_len = 0 /\ index = 0
  BY DEF Init
<1>2. PICK other \in Others \cup {world} : \E address \in Addresses, k \in Keys, v \in Values \cup {0} :
        /\ asked = [root_of |-> other, proof_of |-> world, address |-> address,
                    key |-> k, value |-> v]
        /\ answer \in Answers(world, address, k)
        /\ IF answer.contract_data = NoData
           THEN phase = "rejected" /\ proof = <<>>
           ELSE phase = "storage" /\ proof = answer.contract_data.storage_proof
        /\ key = k /\ value = Felt(v) /\ hold = Felt(v) /\ path_len = 0 /\ index = 0
  BY <1>1
<1>3. PICK address \in Addresses, k \in Keys, v \in Values \cup {0} :
        /\ asked = [root_of |-> other, proof_of |-> world, address |-> address,
                    key |-> k, value |-> v]
        /\ answer \in Answers(world, address, k)
        /\ IF answer.contract_data = NoData
           THEN phase = "rejected" /\ proof = <<>>
           ELSE phase = "storage" /\ proof = answer.contract_data.storage_proof
        /\ key = k /\ value = Felt(v) /\ hold = Felt(v) /\ path_len = 0 /\ index = 0
  BY <1>2
<1>4. /\ asked.proof_of = world /\ asked.root_of = other /\ asked.address = address
      /\ asked.key = k /\ asked.value = v
  BY <1>3
<1> QED BY <1>3, <1>4 DEF Question

\* What a node computes, by the parts of its answer.
LEMMA ComputedParts ==
    ASSUME IsComputed, Question
    PROVE  /\ IF asked.address \in DOMAIN asked.proof_of
              THEN /\ answer.contract_data # NoData
                   /\ answer.contract_data =
                          ContractData(asked.proof_of, asked.address, asked.key)
              ELSE answer.contract_data = NoData
           /\ answer.contract_proof = Proof(ContractLeaves(asked.proof_of), asked.address)
           /\ answer.state_commitment = GlobalRoot(asked.proof_of)
<1> DEFINE data == IF asked.address \in DOMAIN asked.proof_of
                   THEN ContractData(asked.proof_of, asked.address, asked.key) ELSE NoData
<1>1. answer = [contract_data |-> data,
                contract_proof |-> Proof(ContractLeaves(asked.proof_of), asked.address),
                state_commitment |-> GlobalRoot(asked.proof_of)]
  BY DEF IsComputed, Computed
<1>2. asked.address \in DOMAIN asked.proof_of =>
        ContractData(asked.proof_of, asked.address, asked.key) # NoData
  BY AnswerAssumption DEF Question
<1> HIDE DEF data
<1>3. /\ answer.contract_data = data
      /\ answer.contract_proof = Proof(ContractLeaves(asked.proof_of), asked.address)
      /\ answer.state_commitment = GlobalRoot(asked.proof_of)
  BY <1>1
<1> QED BY <1>2, <1>3 DEF data

LEMMA InitInv == Init => IInv
<1> SUFFICES ASSUME Init PROVE IInv
  OBVIOUS
<1>1. /\ Question
      /\ key = asked.key /\ value = Felt(asked.value)
      /\ hold = value /\ path_len = 0 /\ index = 0
      /\ IF answer.contract_data = NoData
         THEN phase = "rejected" /\ proof = <<>>
         ELSE phase = "storage" /\ proof = answer.contract_data.storage_proof
  BY InitQuestion
<1>2. CASE ~IsComputed
  BY <1>1, <1>2 DEF IInv, ComputedProofsDecide
<1>3. CASE IsComputed /\ asked.address \in DOMAIN asked.proof_of
  <2> DEFINE t == Leaves(asked.proof_of[asked.address].storage)
  <2>1. phase = "storage" /\ proof = Proof(t, asked.key)
    BY <1>1, <1>3, ComputedParts DEF ContractData
  <2>2. Trie = t /\ Full = Proof(t, asked.key)
    BY <1>1, <2>1 DEF Trie, Full
  <2>3. IsProof(Full, Trie, key)
    BY <1>1, <1>3, <2>2, TrieAssumption DEF Question
  <2>4. Climbs(Full, Trie)
    BY <1>1, <2>1, <2>2 DEF Climbs, Started
  <2>5. key \in Bits /\ ~Inner(value)
    BY <1>1, MerkleAssumption, NotInner DEF Question
  <2> QED BY <1>1, <1>3, <2>1, <2>3, <2>4, <2>5 DEF IInv, ParseInv, ComputedProofsDecide
<1>4. CASE IsComputed /\ asked.address \notin DOMAIN asked.proof_of
  BY <1>1, <1>4, ComputedParts DEF IInv, ComputedProofsDecide, Holds
<1> QED BY <1>2, <1>3, <1>4

\* Without a step of the question, IsComputed and what a state holds are as they were.
LEMMA SameQuestion ==
    ASSUME question' = question
    PROVE  /\ asked' = asked /\ answer' = answer
           /\ IsComputed' <=> IsComputed
           /\ \A world : Holds(world)' <=> Holds(world)
<1>1. asked' = asked /\ answer' = answer
  BY DEF question
<1> QED BY <1>1 DEF IsComputed, Holds

LEMMA NodeInv ==
    ASSUME IInv, IsComputed, EdgeNode \/ BinaryNode
    PROVE  IInv'
<1>1. Parsing /\ phase \in {"storage", "contract"}
  BY DEF EdgeNode, BinaryNode, Parsing
<1>2. asked.address \in DOMAIN asked.proof_of /\ ParseInv /\ Question
  BY <1>1 DEF IInv
<1>3. PICK p, t : p = Full /\ t = Trie
  OBVIOUS
<1>4. \/ Rejected /\ ~Match(t, key, value)
      \/ Climbs(p, t)' /\ UNCHANGED <<question, phase, key, value>>
  BY <1>1, <1>2, <1>3, ParseStep DEF ParseInv
<1>5. ASSUME Rejected, ~Match(t, key, value)
      PROVE  IInv'
  <2>1. phase = "storage" => ~Holds(asked.proof_of)
    BY <1>2, <1>3, <1>5, StorageMatch DEF IInv, Trie
  <2>2. phase # "contract"
    <3> SUFFICES ASSUME phase = "contract" PROVE FALSE
      OBVIOUS
    <3>1. /\ key = asked.address /\ value = ContractLeaves(asked.proof_of)[asked.address]
          /\ t = ContractLeaves(asked.proof_of)
      BY <1>3 DEF IInv, Trie
    <3>2. DOMAIN t = DOMAIN asked.proof_of
      BY <3>1 DEF ContractLeaves
    <3> QED BY <1>2, <1>5, <3>1, <3>2 DEF Match
  <2>3. phase' = "rejected" /\ question' = question
    BY <1>5 DEF Rejected
  <2>4. asked.root_of # asked.proof_of \/ ~Holds(asked.root_of)
    BY <1>1, <2>1, <2>2
  <2>5. (asked.root_of # asked.proof_of \/ ~Holds(asked.root_of))'
    BY <2>3, <2>4, SameQuestion DEF Holds
  <2>6. Question'
    BY <1>2, <2>3, SameQuestion DEF Question
  <2> QED BY <2>3, <2>5, <2>6 DEF IInv, ComputedProofsDecide
<1>6. ASSUME Climbs(p, t)', UNCHANGED <<question, phase, key, value>>
      PROVE  IInv'
  <2>1. asked' = asked /\ answer' = answer
    BY <1>6, SameQuestion
  <2>2. Trie' = Trie /\ Full' = Full
    BY <1>6, <2>1 DEF Trie, Full
  <2>3. Climbs(Full, Trie)'
    BY <1>3, <1>6, <2>2
  <2>4. IsProof(Full, Trie, key)'
    BY <1>2, <1>6, <2>2 DEF ParseInv
  <2>5. ParseInv'
    BY <1>2, <1>6, <2>3, <2>4 DEF ParseInv
  <2>6. (Holds(asked.proof_of))' <=> Holds(asked.proof_of)
    BY <2>1 DEF Holds
  <2>7. Question'
    BY <1>2, <1>6, <2>1 DEF Question
  <2> QED BY <1>1, <1>6, <2>1, <2>5, <2>6, <2>7 DEF IInv, ComputedProofsDecide
<1> QED BY <1>4, <1>5, <1>6

LEMMA StorageInv ==
    ASSUME IInv, IsComputed, verify_storage_proofs
    PROVE  IInv'
<1> DEFINE world == asked.proof_of
           data == answer.contract_data
           hash == calculate_contract_state_hash(data.class_and_nonce, data.root)
           root == Root(Leaves(world[asked.address].storage))
<1>1. phase = "storage" /\ proof = <<>>
  BY DEF verify_storage_proofs, Parsed
<1>2. /\ asked.address \in DOMAIN world /\ Question
      /\ ParseInv /\ key = asked.key /\ value = Felt(asked.value)
  BY <1>1 DEF IInv
<1>3. data.root = root /\ data.class_and_nonce = world[asked.address].class_and_nonce
  BY <1>2, ComputedParts DEF ContractData
<1>4. Holds(world) <=> hold = root
  BY <1>1, <1>2, ParseEnd, StorageMatch DEF ParseInv, Trie
<1>5. CASE hold # data.root
  <2>1. phase' = "rejected" /\ question' = question
    BY <1>5 DEF verify_storage_proofs, Rejected
  <2>2. (asked.root_of # asked.proof_of \/ ~Holds(asked.root_of))'
    BY <1>3, <1>4, <1>5, <2>1, SameQuestion DEF Holds
  <2>3. Question'
    BY <1>2, <2>1, SameQuestion DEF Question
  <2> QED BY <2>1, <2>2, <2>3 DEF IInv, ComputedProofsDecide
<1>6. CASE hold = data.root
  <2>1. /\ phase' = "contract" /\ proof' = answer.contract_proof
        /\ key' = asked.address /\ value' = hash /\ hold' = hash
        /\ path_len' = 0 /\ index' = 0 /\ question' = question
    BY <1>6 DEF verify_storage_proofs
  <2>2. asked' = asked /\ answer' = answer
    BY <2>1, SameQuestion
  <2>3. hash = ContractLeaves(world)[asked.address]
    BY <1>2, <1>3 DEF ContractLeaves
  <2>4. Trie' = ContractLeaves(world) /\ Full' = Proof(ContractLeaves(world), asked.address)
    BY <2>1, <2>2 DEF Trie, Full
  <2>5. ~Inner(hash)
    BY NotInner
  <2>6. asked.address \in Bits
    BY <1>2, MerkleAssumption DEF Question
  <2>7. IsProof(Proof(ContractLeaves(world), asked.address), ContractLeaves(world), asked.address)
    BY <1>2, TrieAssumption DEF Question
  <2>8. proof' = Full'
    BY <1>2, <2>1, <2>4, ComputedParts
  <2> HIDE DEF hash
  <2>9. Climbs(Full, Trie)'
    BY <2>1, <2>8 DEF Climbs, Started
  <2>10. IsProof(Full, Trie, key)'
    BY <2>1, <2>4, <2>7
  <2>11. ParseInv'
    BY <2>1, <2>5, <2>6, <2>9, <2>10 DEF ParseInv
  <2>12. Holds(asked.proof_of)'
    BY <1>3, <1>4, <1>6, <2>2 DEF Holds
  <2>13. (value = ContractLeaves(asked.proof_of)[asked.address])'
    BY <2>1, <2>2, <2>3
  <2>14. Question' /\ (asked.address \in DOMAIN asked.proof_of)'
    BY <1>2, <2>1, <2>2 DEF Question
  <2> QED BY <2>1, <2>2, <2>11, <2>12, <2>13, <2>14 DEF IInv, ComputedProofsDecide
<1> QED BY <1>5, <1>6

LEMMA ContractInv ==
    ASSUME IInv, IsComputed, verify_contract_proof
    PROVE  IInv'
<1>1. phase = "contract" /\ proof = <<>>
  BY DEF verify_contract_proof, Parsed
<1> DEFINE world == asked.proof_of
<1>2. /\ asked.address \in DOMAIN world /\ Question
      /\ ParseInv /\ key = asked.address
      /\ value = ContractLeaves(world)[asked.address]
      /\ Holds(world)
  BY <1>1 DEF IInv
<1>3. Trie = ContractLeaves(world) /\ DOMAIN ContractLeaves(world) = DOMAIN world
  BY <1>1 DEF Trie, ContractLeaves
<1>4. Match(Trie, key, value)
  BY <1>2, <1>3 DEF Match
<1>5. hold = Root(ContractLeaves(world))
  BY <1>1, <1>2, <1>3, <1>4, ParseEnd DEF ParseInv
<1>6. IsGlobalRoot(calculate_global_root(hold)) <=> GlobalRoot(asked.root_of) = GlobalRoot(world)
  BY <1>2, <1>5, ComputedParts DEF IsGlobalRoot, GlobalRoot
<1>7. IsGlobalRoot(calculate_global_root(hold)) <=> asked.root_of = world
  BY <1>2, <1>6, TrieAssumption DEF Question
<1>8. /\ question' = question
      /\ phase' = IF asked.root_of = world THEN "verified" ELSE "rejected"
  BY <1>7 DEF verify_contract_proof, Rejected
<1>9. asked' = asked /\ answer' = answer
  BY <1>8, SameQuestion
<1>10. ComputedProofsDecide'
  BY <1>2, <1>8, <1>9 DEF ComputedProofsDecide, Holds
<1>11. Question'
  BY <1>2, <1>8, <1>9 DEF Question
<1> QED BY <1>8, <1>10, <1>11 DEF IInv

\* No step changes the question.
LEMMA QuestionStays ==
    ASSUME Question, [Next]_vars
    PROVE  Question' /\ question' = question
<1>1. question' = question /\ phase' \in {"storage", "contract", "verified", "rejected"}
  BY DEF Question, Next, EdgeNode, BinaryNode, verify_storage_proofs, verify_contract_proof,
         Rejected, Climb, vars
<1> QED BY <1>1, SameQuestion DEF Question

LEMMA StepInv == IInv /\ [Next]_vars => IInv'
<1> SUFFICES ASSUME IInv, [Next]_vars PROVE IInv'
  OBVIOUS
<1>0. CASE ~IsComputed
  <2>1. Question' /\ question' = question
    BY QuestionStays DEF IInv
  <2>2. ~IsComputed'
    BY <1>0, <2>1, SameQuestion
  <2> QED BY <2>1, <2>2 DEF IInv, ComputedProofsDecide
<1>1. CASE IsComputed /\ EdgeNode
  BY <1>1, NodeInv
<1>2. CASE IsComputed /\ BinaryNode
  BY <1>2, NodeInv
<1>3. CASE IsComputed /\ verify_storage_proofs
  BY <1>3, StorageInv
<1>4. CASE IsComputed /\ verify_contract_proof
  BY <1>4, ContractInv
<1>5. CASE UNCHANGED vars
  <2>1. /\ UNCHANGED <<phase, proof, key, value, hold, path_len, index, question>>
        /\ asked' = asked /\ answer' = answer
    BY <1>5, SameQuestion DEF vars
  <2>2. Trie' = Trie /\ Full' = Full
    BY <2>1 DEF Trie, Full
  <2>3. PICK p, t : p = Full /\ t = Trie
    OBVIOUS
  <2>4. Climbs(p, t)' <=> Climbs(p, t)
    BY <2>1 DEF Climbs, Climbed, Match, Started, Left
  <2>5. Climbs(Full, Trie)' <=> Climbs(Full, Trie)
    BY <2>2, <2>3, <2>4
  <2>6. IsProof(Full, Trie, key)' <=> IsProof(Full, Trie, key)
    BY <2>1, <2>2
  <2>7. ParseInv' <=> ParseInv
    BY <2>1, <2>5, <2>6 DEF ParseInv
  <2>8. /\ Holds(asked.proof_of)' <=> Holds(asked.proof_of)
        /\ ComputedProofsDecide' <=> ComputedProofsDecide
        /\ IsComputed' <=> IsComputed
        /\ Question' <=> Question
    BY <2>1 DEF Holds, ComputedProofsDecide, IsComputed, Question
  <2> QED BY <2>1, <2>7, <2>8 DEF IInv
<1> QED BY <1>0, <1>1, <1>2, <1>3, <1>4, <1>5 DEF Next

\* Of a node that computes its proofs, a value is verified exactly if the root
\* asked about is that of the state of the proof and this state holds the value,
\* and rejected otherwise: for keys of any length, and proofs with any number of
\* edges and binary nodes (verify, verify_storage_proofs, verify_contract_proof).
THEOREM ComputedExactly == Spec => []ComputedProofsDecide
<1>1. IInv => ComputedProofsDecide
  BY DEF IInv
<1> QED BY InitInv, StepInv, <1>1, PTL DEF Spec
-----------------------------------------------------------------------------
(* What the check knows half way, whatever the node answers.               *)

\* h is what the trie t has on the path of k below its first d bits.
At(t, k, d, h) ==
    IF d = Height THEN k \in DOMAIN t /\ t[k] = h
    ELSE \E depth \in [1 .. Len(Proof(t, k)) -> 0 .. Height - 1] :
            /\ IsPath(Proof(t, k), t, k, depth)
            /\ \E i \in 1 .. Len(Proof(t, k)) : depth[i] = d /\ Proof(t, k)[i] = h

\* The first m nodes of p are left.  If p leads down the key, the bits used are
\* those below them, and the value matches if the trie has the hash at this depth.
Rising(p, t, k, m) ==
    \A depth \in [1 .. Len(p) + 1 -> 0 .. Height] : Down(p, k, depth) =>
        /\ path_len = Height - depth[m + 1]
        /\ At(t, k, depth[m + 1], hold) => Match(t, k, value)

Rises(p, t, k) ==
    \E m \in 0 .. Len(p) :
        /\ Left(p, m)
        /\ Rising(p, t, k, m)
        /\ IF m = Len(p) THEN index = 0 /\ hold = value
           ELSE index \in Nat \ {0} /\ hold = p[m + 1] /\ Inner(hold)

\* What a node leads to on the path of the key is in the trie if the node is.
LEMMA AtBelow ==
    ASSUME NEW t, NEW k, NEW d \in 0 .. Height - 1, NEW n, At(t, k, d, n),
           Follows(n, k, d)
    PROVE  At(t, k, d + Length(n), Child(n, k, d)) /\ Length(n) \in 1 .. Height - d
<1> DEFINE q == Proof(t, k)
<1>1. Height \in Nat \ {0} /\ d # Height
  BY MerkleAssumption
<1>2. PICK depth \in [1 .. Len(q) -> 0 .. Height - 1] :
        /\ IsPath(q, t, k, depth)
        /\ \E i \in 1 .. Len(q) : depth[i] = d /\ q[i] = n
  BY <1>1 DEF At
<1>3. PICK i \in 1 .. Len(q) : depth[i] = d /\ q[i] = n
  BY <1>2
<1> HIDE DEF q
<1>4. /\ NodeAt(n, d)
      /\ \/ /\ d + Length(n) < Height
            /\ i < Len(q) /\ q[i + 1] = Child(n, k, d) /\ depth[i + 1] = d + Length(n)
         \/ /\ d + Length(n) = Height
            /\ k \in DOMAIN t /\ t[k] = Child(n, k, d)
  BY <1>2, <1>3 DEF IsPath
<1>5. Length(n) \in 1 .. Height - d
  BY <1>4 DEF NodeAt
<1>6. CASE d + Length(n) = Height
  BY <1>1, <1>4, <1>5, <1>6 DEF At
<1>7. CASE d + Length(n) # Height
  <2>1. /\ i + 1 \in 1 .. Len(q)
        /\ q[i + 1] = Child(n, k, d) /\ depth[i + 1] = d + Length(n)
    BY <1>1, <1>3, <1>4, <1>5, <1>7
  <2> QED BY <1>2, <1>5, <1>7, <2>1 DEF At, q
<1> QED BY <1>6, <1>7

\* A node that passes is an edge along the key's last bits to the value, or leads to
\* the hash so far on the side of the bit before those used.
LEMMA NodePasses ==
    ASSUME NEW p, NEW m \in Nat \ {0}, Left(p, m), Parsing, EdgeNode \/ BinaryNode
    PROVE  LET n == p[m]
           IN  \/ Rejected
               \/ /\ Climb(path_len + Length(n)) /\ node = n /\ Inner(n)
                  /\ \/ IsEdge(n) /\ index # 0
                     \/ IsEdge(n) /\ index = 0 /\ n = Edge(value, Masked(key, n[4]), n[4])
                     \/ /\ ~IsEdge(n)
                        /\ n = IF key[Height - (path_len + 1) + 1] = 0
                               THEN Binary(hold, n[3]) ELSE Binary(n[2], hold)
<1>1. node = p[m]
  BY DEF Left, node
<1>2. CASE IsEdge(p[m])
  <2>1. Inner(p[m]) /\ Length(p[m]) = p[m][4]
    BY <1>2 DEF Inner, IsEdge, Length
  <2>2. \/ Rejected
        \/ Climb(path_len + p[m][4]) /\ (index # 0 \/ LastEdgeMatches(p[m][4]))
    BY <1>1, <1>2 DEF EdgeNode, BinaryNode, EdgeLength
  <2>3. LastEdgeMatches(p[m][4]) => p[m] = Edge(value, Masked(key, p[m][4]), p[m][4])
    BY <1>1 DEF LastEdgeMatches, felt_from_bits, Masked
  <2> QED BY <1>1, <1>2, <2>1, <2>2, <2>3
<1>3. CASE ~IsEdge(p[m])
  <2>1. Length(p[m]) = 1
    BY <1>3 DEF Length
  <2>2. \/ Rejected
        \/ /\ Climb(path_len + 1)
           /\ p[m] = IF key[Height - (path_len + 1) + 1] = 0
                     THEN Binary(hold, p[m][3]) ELSE Binary(p[m][2], hold)
    BY <1>1, <1>3 DEF EdgeNode, BinaryNode, Direction
  <2>3. \A a, b : Inner(Binary(a, b))
    BY DEF Inner, Binary
  <2> QED BY <1>1, <1>3, <2>1, <2>2, <2>3
<1> QED BY <1>2, <1>3

\* On the way down the key, such a node leads to the hash so far.
LEMMA LeadsToHold ==
    ASSUME NEW p, NEW depth \in [1 .. Len(p) + 1 -> 0 .. Height], Len(p) \in Nat,
           Down(p, key, depth), NEW m \in 1 .. Len(p),
           path_len = Height - depth[m + 1],
           IF m = Len(p) THEN index = 0 /\ hold = value ELSE index # 0 /\ hold = p[m + 1],
           \/ IsEdge(p[m]) /\ index # 0
           \/ IsEdge(p[m]) /\ index = 0 /\ p[m] = Edge(value, Masked(key, p[m][4]), p[m][4])
           \/ /\ ~IsEdge(p[m])
              /\ p[m] = IF key[Height - (path_len + 1) + 1] = 0
                        THEN Binary(hold, p[m][3]) ELSE Binary(p[m][2], hold)
    PROVE  /\ depth[m] \in 0 .. Height - 1
           /\ depth[m + 1] = depth[m] + Length(p[m])
           /\ path_len + Length(p[m]) = Height - depth[m]
           /\ Follows(p[m], key, depth[m])
           /\ Child(p[m], key, depth[m]) = hold
<1>0. Height \in Nat \ {0}
  BY MerkleAssumption
<1>1. /\ Length(p[m]) \in 1 .. Height - depth[m]
      /\ depth[m + 1] = depth[m] + Length(p[m])
      /\ IsEdge(p[m]) /\ m # Len(p) => p[m][2] = p[m + 1] /\ Follows(p[m], key, depth[m])
      /\ depth[Len(p) + 1] = Height
  BY DEF Down
<1>2. depth[m] \in 0 .. Height /\ m \in 1 .. Len(p) + 1
  OBVIOUS
<1>3. depth[m] \in 0 .. Height - 1 /\ path_len + Length(p[m]) = Height - depth[m]
  <2>1. Length(p[m]) \in Nat \ {0} /\ depth[m] \in Nat
        /\ path_len = Height - (depth[m] + Length(p[m])) /\ Length(p[m]) <= Height - depth[m]
    BY <1>0, <1>1, <1>2
  <2> QED BY <1>0, <2>1
<1>4. CASE IsEdge(p[m]) /\ m # Len(p)
  BY <1>1, <1>3, <1>4 DEF Child
<1>5. CASE IsEdge(p[m]) /\ m = Len(p)
  <2>1. p[m] = Edge(value, Masked(key, p[m][4]), p[m][4]) /\ hold = value
    BY <1>5
  <2>2. Length(p[m]) = p[m][4]
    BY <1>5 DEF Length
  <2>3. p[m][2] = value /\ p[m][3] = Masked(key, p[m][4])
    BY <2>1 DEF Edge
  <2>4. PathOf(key, depth[m], p[m][4]) = Masked(key, p[m][4])
    <3>1. depth[m] + p[m][4] = Height /\ depth[m] \in Nat /\ p[m][4] \in Nat
      BY <1>0, <1>1, <1>2, <1>5, <2>2
    <3> QED BY <3>1, WholePath
  <2> QED BY <1>1, <1>3, <1>5, <2>1, <2>2, <2>3, <2>4 DEF Follows, Child
<1>6. CASE ~IsEdge(p[m])
  <2>1. Length(p[m]) = 1 /\ Follows(p[m], key, depth[m])
    BY <1>6 DEF Length, Follows
  <2>2. Height - (path_len + 1) + 1 = depth[m] + 1
    <3>1. path_len = Height - (depth[m] + 1) /\ depth[m] \in Nat
      BY <1>1, <1>2, <2>1
    <3> QED BY <1>0, <3>1
  <2>3. p[m] = IF key[depth[m] + 1] = 0 THEN Binary(hold, p[m][3]) ELSE Binary(p[m][2], hold)
    BY <1>6, <2>2
  <2>4. (IF key[depth[m] + 1] = 0 THEN p[m][2] ELSE p[m][3]) = hold
    BY <2>3 DEF Binary
  <2> QED BY <1>1, <1>3, <1>6, <2>1, <2>4 DEF Child
<1> QED BY <1>4, <1>5, <1>6

\* Before the first node nothing is claimed but that the value is the value.
LEMMA RiseStart ==
    ASSUME NEW p, NEW t, IsSequence(p), Started(p)
    PROVE  Rises(p, t, key)
<1> DEFINE m == Len(p)
<1>1. m \in 0 .. Len(p) /\ m + 1 = Len(p) + 1
  BY DEF IsSequence
<1>2. Left(p, m)
  BY DEF Left, IsSequence, Started
<1>3. Rising(p, t, key, m)
  <2> SUFFICES ASSUME NEW depth \in [1 .. Len(p) + 1 -> 0 .. Height], Down(p, key, depth)
               PROVE  /\ path_len = Height - depth[m + 1]
                      /\ At(t, key, depth[m + 1], hold) => Match(t, key, value)
    BY DEF Rising
  <2>1. depth[m + 1] = Height
    BY DEF Down
  <2>2. path_len = Height - Height
    BY MerkleAssumption DEF Started
  <2>3. At(t, key, Height, hold) => Match(t, key, value)
    BY DEF At, Match, Started
  <2> QED BY <2>1, <2>2, <2>3
<1> QED BY <1>1, <1>2, <1>3 DEF Rises, Started

\* So it is too when the second proof is begun.
LEMMA RisesNext ==
    ASSUME NEW p, NEW t, IsSequence(p), Started(p)'
    PROVE  Rises(p, t, key)'
<1> DEFINE m == Len(p)
<1>1. m \in 0 .. Len(p) /\ m + 1 = Len(p) + 1
  BY DEF IsSequence
<1>2. Left(p, m)'
  BY DEF Left, IsSequence, Started
<1>3. Rising(p, t, key, m)'
  <2> SUFFICES ASSUME NEW depth \in [1 .. Len(p) + 1 -> 0 .. Height], Down(p, key', depth)
               PROVE  /\ path_len' = Height - depth[m + 1]
                      /\ At(t, key', depth[m + 1], hold') => Match(t, key', value')
    BY DEF Rising
  <2>1. depth[m + 1] = Height
    BY DEF Down
  <2>2. path_len' = Height - Height
    BY MerkleAssumption DEF Started
  <2>3. At(t, key', Height, hold') => Match(t, key', value')
    BY DEF At, Match, Started
  <2> QED BY <2>1, <2>2, <2>3
<1> QED BY <1>1, <1>2, <1>3 DEF Rises, Started

\* A node that passes carries what is claimed one node up.
LEMMA RiseStep ==
    ASSUME NEW p, NEW t, IsSequence(p), Rises(p, t, key),
           Parsing, EdgeNode \/ BinaryNode
    PROVE  \/ Rejected
           \/ Rises(p, t, key)' /\ UNCHANGED <<question, phase, key, value>>
<1>0. Len(p) \in Nat
  BY DEF IsSequence
<1>1. PICK m \in 0 .. Len(p) :
        /\ Left(p, m)
        /\ Rising(p, t, key, m)
        /\ IF m = Len(p) THEN index = 0 /\ hold = value
           ELSE index \in Nat \ {0} /\ hold = p[m + 1] /\ Inner(hold)
  BY DEF Rises
<1>2. m \in Nat \ {0} /\ m \in 1 .. Len(p)
  BY <1>0, <1>1 DEF Left, Parsing
<1>3. \/ Rejected
      \/ /\ Climb(path_len + Length(p[m])) /\ node = p[m] /\ Inner(p[m])
         /\ \/ IsEdge(p[m]) /\ index # 0
            \/ IsEdge(p[m]) /\ index = 0 /\ p[m] = Edge(value, Masked(key, p[m][4]), p[m][4])
            \/ /\ ~IsEdge(p[m])
               /\ p[m] = IF key[Height - (path_len + 1) + 1] = 0
                         THEN Binary(hold, p[m][3]) ELSE Binary(p[m][2], hold)
  BY <1>1, <1>2, NodePasses
<1> SUFFICES ASSUME ~Rejected
             PROVE  Rises(p, t, key)' /\ UNCHANGED <<question, phase, key, value>>
  OBVIOUS
<1>4. /\ hold' = p[m] /\ path_len' = path_len + Length(p[m]) /\ proof' = rest
      /\ index' = index + 1 /\ UNCHANGED <<question, phase, key, value>>
  BY <1>3 DEF Climb
<1>5. Left(p, m - 1)'
  <2>1. /\ proof \in Seq({p[i] : i \in DOMAIN p}) /\ Len(proof) = m
        /\ \A i \in 1 .. m : proof[i] = p[i]
    BY <1>1 DEF Left
  <2>2. proof # <<>>
    BY <1>2, <2>1
  <2>3. /\ rest \in Seq({p[i] : i \in DOMAIN p})
        /\ Len(rest) = m - 1
        /\ \A i \in 1 .. m - 1 : rest[i] = proof[i]
    BY <2>1, <2>2, TakeLast DEF rest
  <2>4. \A i \in 1 .. m - 1 : i \in 1 .. m
    BY <1>2
  <2> QED BY <1>4, <2>1, <2>3, <2>4 DEF Left
<1>6. Rising(p, t, key, m - 1)'
  <2>1. m - 1 + 1 = m
    BY <1>2
  <2> SUFFICES ASSUME NEW depth \in [1 .. Len(p) + 1 -> 0 .. Height], Down(p, key, depth)
               PROVE  /\ path_len' = Height - depth[m]
                      /\ At(t, key, depth[m], p[m]) => Match(t, key, value)
    BY <1>4, <2>1 DEF Rising
  <2>2. /\ path_len = Height - depth[m + 1]
        /\ At(t, key, depth[m + 1], hold) => Match(t, key, value)
    BY <1>1 DEF Rising
  <2>3. /\ depth[m] \in 0 .. Height - 1
        /\ depth[m + 1] = depth[m] + Length(p[m])
        /\ path_len + Length(p[m]) = Height - depth[m]
        /\ Follows(p[m], key, depth[m])
        /\ Child(p[m], key, depth[m]) = hold
    <3>1. IF m = Len(p) THEN index = 0 /\ hold = value ELSE index # 0 /\ hold = p[m + 1]
      BY <1>1
    <3> QED BY <1>0, <1>2, <1>3, <2>2, <3>1, LeadsToHold
  <2>4. At(t, key, depth[m], p[m]) => At(t, key, depth[m + 1], hold)
    BY <2>3, AtBelow
  <2> QED BY <1>4, <2>2, <2>3, <2>4
<1>7. index' \in Nat \ {0} /\ hold' = p[m] /\ Inner(hold)'
  <2>1. index \in Nat
    BY <1>1
  <2> QED BY <1>3, <1>4, <2>1 DEF Inner
<1>8. m - 1 \in 0 .. Len(p) /\ m - 1 # Len(p) /\ m - 1 + 1 = m
  BY <1>0, <1>2
<1> QED BY <1>4, <1>5, <1>6, <1>7, <1>8 DEF Rises

\* With no node left and the root of the trie reached, the value matches.
LEMMA RiseEnd ==
    ASSUME NEW p, NEW t, IsProof(Proof(t, key), t, key), IsSequence(p),
           Rises(p, t, key), LeadsDown(p, key), proof = <<>>, hold = Root(t)
    PROVE  Match(t, key, value)
<1> DEFINE q == Proof(t, key)
<1>0. Len(p) \in Nat \ {0} /\ Height \in Nat \ {0}
  BY MerkleAssumption DEF IsSequence, LeadsDown
<1>1. PICK m \in 0 .. Len(p) :
        /\ Left(p, m)
        /\ Rising(p, t, key, m)
        /\ IF m = Len(p) THEN index = 0 /\ hold = value
           ELSE index \in Nat \ {0} /\ hold = p[m + 1] /\ Inner(hold)
  BY DEF Rises
<1>2. m = 0
  BY <1>1 DEF Left
<1>3. Inner(hold)
  BY <1>0, <1>1, <1>2
<1>4. DOMAIN t # {}
  BY <1>3, NotInner DEF IsProof
<1>5. PICK depth \in [1 .. Len(q) -> 0 .. Height - 1] : IsPath(q, t, key, depth)
  BY <1>4 DEF IsProof
<1>6. Len(q) \in Nat \ {0} /\ 1 \in 1 .. Len(q)
  BY <1>4 DEF IsProof, IsSequence
<1>7. At(t, key, 0, hold)
  <2>1. depth[1] = 0 /\ q[1] = hold
    BY <1>5 DEF IsPath
  <2> QED BY <1>0, <1>5, <1>6, <2>1 DEF At
<1>8. PICK down \in [1 .. Len(p) + 1 -> 0 .. Height] : Down(p, key, down)
  BY DEF LeadsDown
<1>9. down[m + 1] = 0
  BY <1>2, <1>8 DEF Down
<1> QED BY <1>1, <1>7, <1>8, <1>9 DEF Rising
-----------------------------------------------------------------------------
(* The verdict on any answer.                                              *)

Data == answer.contract_data
StorageOf(world) == Leaves(world[asked.address].storage)
StateHash == calculate_contract_state_hash(Data.class_and_nonce, Data.root)

\* What the storage phase has shown when it ends.
StorageShown ==
    /\ LeadsDown(Data.storage_proof, asked.key)
    /\ asked.address \in DOMAIN asked.root_of
    /\ Root(StorageOf(asked.root_of)) = Data.root
    => Holds(asked.root_of)

AnyInv ==
    /\ Question
    /\ phase = "storage" =>
        /\ key = asked.key /\ value = Felt(asked.value)
        /\ Data # NoData
        /\ Rises(Data.storage_proof, StorageOf(asked.root_of), key)
    /\ phase = "contract" =>
        /\ key = asked.address /\ value = StateHash
        /\ StorageShown
        /\ Rises(answer.contract_proof, ContractLeaves(asked.root_of), key)
    /\ VerifiedIfHeld

\* What the assumptions say of the question.
LEMMA Assumed ==
    ASSUME Question
    PROVE  /\ IsProof(Proof(ContractLeaves(asked.root_of), asked.address),
                      ContractLeaves(asked.root_of), asked.address)
           /\ asked.address \in DOMAIN asked.root_of =>
                IsProof(Proof(StorageOf(asked.root_of), asked.key),
                        StorageOf(asked.root_of), asked.key)
           /\ IsSequence(answer.contract_proof)
           /\ Data # NoData => IsSequence(Data.storage_proof)
<1>1. asked.root_of \in Worlds
  BY MerkleAssumption DEF Question
<1>2. /\ IsSequence(answer.contract_proof)
      /\ answer.contract_data # NoData => IsSequence(answer.contract_data.storage_proof)
  BY AnswerAssumption DEF Question
<1> QED BY <1>1, <1>2, TrieAssumption DEF Question, StorageOf, Data

LEMMA InitAny == Init => AnyInv
<1> SUFFICES ASSUME Init PROVE AnyInv
  OBVIOUS
<1>1. /\ Question
      /\ key = asked.key /\ value = Felt(asked.value)
      /\ hold = value /\ path_len = 0 /\ index = 0
      /\ IF answer.contract_data = NoData
         THEN phase = "rejected" /\ proof = <<>>
         ELSE phase = "storage" /\ proof = answer.contract_data.storage_proof
  BY InitQuestion
<1>2. CASE Data = NoData
  BY <1>1, <1>2 DEF AnyInv, VerifiedIfHeld, Data
<1>3. CASE Data # NoData
  <2>1. phase = "storage" /\ Started(Data.storage_proof)
    BY <1>1, <1>3 DEF Data, Started
  <2>2. Rises(Data.storage_proof, StorageOf(asked.root_of), key)
    BY <1>1, <1>3, <2>1, Assumed, RiseStart
  <2> QED BY <1>1, <1>3, <2>1, <2>2 DEF AnyInv, VerifiedIfHeld
<1> QED BY <1>2, <1>3

LEMMA NodeAny ==
    ASSUME AnyInv, EdgeNode \/ BinaryNode, Question', question' = question
    PROVE  AnyInv'
<1>1. Parsing /\ phase \in {"storage", "contract"}
  BY DEF EdgeNode, BinaryNode, Parsing
<1>2. asked' = asked /\ answer' = answer
  BY SameQuestion
<1>3. PICK p, t :
        /\ p = IF phase = "storage" THEN Data.storage_proof ELSE answer.contract_proof
        /\ t = IF phase = "storage" THEN StorageOf(asked.root_of)
               ELSE ContractLeaves(asked.root_of)
  OBVIOUS
<1>4. Rises(p, t, key) /\ IsSequence(p)
  BY <1>1, <1>3, Assumed DEF AnyInv
<1>5. \/ Rejected
      \/ Rises(p, t, key)' /\ UNCHANGED <<question, phase, key, value>>
  BY <1>1, <1>4, RiseStep
<1>6. CASE Rejected
  BY <1>6 DEF Rejected, AnyInv, VerifiedIfHeld
<1>7. CASE Rises(p, t, key)' /\ UNCHANGED <<question, phase, key, value>>
  <2>1. /\ Data' = Data /\ StateHash' = StateHash
        /\ StorageOf(asked.root_of)' = StorageOf(asked.root_of)
    BY <1>2 DEF Data, StateHash, StorageOf
  <2>2. StorageShown' <=> StorageShown
    BY <1>2, <2>1 DEF StorageShown, Holds
  <2>3. CASE phase = "storage"
    <3>1. (p = Data.storage_proof)' /\ (t = StorageOf(asked.root_of))'
      BY <1>3, <2>1, <2>3
    <3>2. Rises(Data.storage_proof, StorageOf(asked.root_of), key)'
      BY <1>7, <3>1
    <3> QED BY <1>2, <1>7, <2>1, <2>3, <3>2 DEF AnyInv, VerifiedIfHeld
  <2>4. CASE phase = "contract"
    <3>1. (p = answer.contract_proof)' /\ (t = ContractLeaves(asked.root_of))'
      BY <1>2, <1>3, <2>4
    <3>2. Rises(answer.contract_proof, ContractLeaves(asked.root_of), key)'
      BY <1>7, <3>1
    <3> QED BY <1>2, <1>7, <2>1, <2>2, <2>4, <3>2 DEF AnyInv, VerifiedIfHeld
  <2> QED BY <1>1, <2>3, <2>4
<1> QED BY <1>5, <1>6, <1>7

LEMMA StorageAny ==
    ASSUME AnyInv, verify_storage_proofs, Question', question' = question
    PROVE  AnyInv'
<1>1. /\ phase = "storage" /\ proof = <<>>
      /\ key = asked.key /\ value = Felt(asked.value) /\ Data # NoData
      /\ Rises(Data.storage_proof, StorageOf(asked.root_of), key)
      /\ Question
  BY DEF verify_storage_proofs, Parsed, AnyInv
<1>2. asked' = asked /\ answer' = answer
  BY SameQuestion
<1>3. CASE hold # Data.root
  BY <1>3 DEF verify_storage_proofs, Rejected, AnyInv, VerifiedIfHeld, Data
<1>4. CASE hold = Data.root
  <2>1. /\ phase' = "contract" /\ proof' = answer.contract_proof
        /\ key' = asked.address /\ value' = StateHash /\ hold' = StateHash
        /\ path_len' = 0 /\ index' = 0
    BY <1>4 DEF verify_storage_proofs, Data, StateHash
  <2>2. StorageShown
    <3> SUFFICES ASSUME LeadsDown(Data.storage_proof, asked.key),
                        asked.address \in DOMAIN asked.root_of,
                        Root(StorageOf(asked.root_of)) = Data.root
                 PROVE  Holds(asked.root_of)
      BY DEF StorageShown
    <3>1. Match(StorageOf(asked.root_of), key, value)
      BY <1>1, <1>4, Assumed, RiseEnd
    <3> QED BY <1>1, <3>1, StorageMatch DEF StorageOf
  <2>3. StorageShown' /\ StateHash' = StateHash
    BY <1>2, <2>2 DEF StorageShown, Holds, StorageOf, Data, StateHash
  <2>4. PICK p, t : p = answer.contract_proof /\ t = ContractLeaves(asked.root_of)
    OBVIOUS
  <2>5. Started(p)' /\ IsSequence(p)
    BY <1>1, <2>1, <2>4, Assumed DEF Started
  <2>6. Rises(p, t, key)'
    BY <2>5, RisesNext
  <2>7. Rises(answer.contract_proof, ContractLeaves(asked.root_of), key)'
    BY <1>2, <2>4, <2>6
  <2> QED BY <1>2, <2>1, <2>3, <2>7 DEF AnyInv, VerifiedIfHeld
<1> QED BY <1>3, <1>4

LEMMA ContractAny ==
    ASSUME AnyInv, verify_contract_proof, Question', question' = question
    PROVE  AnyInv'
<1> DEFINE world == asked.root_of
           leaves == ContractLeaves(world)
<1>1. /\ phase = "contract" /\ proof = <<>>
      /\ key = asked.address /\ value = StateHash
      /\ StorageShown
      /\ Rises(answer.contract_proof, leaves, key)
      /\ Question
  BY DEF verify_contract_proof, Parsed, AnyInv
<1>2. asked' = asked /\ answer' = answer
  BY SameQuestion
<1>3. CASE ~IsGlobalRoot(calculate_global_root(hold))
  BY <1>3 DEF verify_contract_proof, Rejected, AnyInv, VerifiedIfHeld
<1>4. CASE IsGlobalRoot(calculate_global_root(hold))
  <2>1. hold = Root(leaves)
    BY <1>4 DEF IsGlobalRoot, GlobalRoot, calculate_global_root
  <2>2. ASSUME LeadsDown(Data.storage_proof, asked.key),
               LeadsDown(answer.contract_proof, asked.address)
        PROVE  Holds(world)
    <3>1. Match(leaves, asked.address, StateHash)
      BY <1>1, <2>1, <2>2, Assumed, RiseEnd
    <3>2. StateHash # Felt(0)
      BY DEF StateHash, Felt, calculate_contract_state_hash
    <3>3. asked.address \in DOMAIN leaves /\ leaves[asked.address] = StateHash
      BY <3>1, <3>2 DEF Match
    <3>4. asked.address \in DOMAIN world /\ Root(StorageOf(world)) = Data.root
      BY <3>3 DEF ContractLeaves, calculate_contract_state_hash, StateHash, StorageOf
    <3> QED BY <1>1, <2>2, <3>4 DEF StorageShown
  <2>3. phase' = "verified"
    BY <1>4 DEF verify_contract_proof
  <2>4. VerifiedIfHeld'
    BY <1>2, <2>2 DEF VerifiedIfHeld, Holds, Data
  <2> QED BY <2>3, <2>4 DEF AnyInv
<1> QED BY <1>3, <1>4

LEMMA StepAny == AnyInv /\ [Next]_vars => AnyInv'
<1> SUFFICES ASSUME AnyInv, [Next]_vars PROVE AnyInv'
  OBVIOUS
<1>0. Question' /\ question' = question
  BY QuestionStays DEF AnyInv
<1>1. CASE EdgeNode
  BY <1>0, <1>1, NodeAny
<1>2. CASE BinaryNode
  BY <1>0, <1>2, NodeAny
<1>3. CASE verify_storage_proofs
  BY <1>0, <1>3, StorageAny
<1>4. CASE verify_contract_proof
  BY <1>0, <1>4, ContractAny
<1>5. CASE UNCHANGED vars
  <2>1. /\ UNCHANGED <<phase, proof, key, value, hold, path_len, index>>
        /\ asked' = asked /\ answer' = answer
    BY <1>5, SameQuestion DEF vars
  <2>2. \A p, t : Rises(p, t, key)' <=> Rises(p, t, key)
    BY <2>1 DEF Rises, Rising, Left
  <2>3. /\ Data' = Data /\ StateHash' = StateHash
        /\ StorageOf(asked.root_of)' = StorageOf(asked.root_of)
    BY <2>1 DEF Data, StateHash, StorageOf
  <2>4. PICK p, t, q, u :
            /\ p = Data.storage_proof /\ t = StorageOf(asked.root_of)
            /\ q = answer.contract_proof /\ u = ContractLeaves(asked.root_of)
    OBVIOUS
  <2>5. /\ Rises(p, t, key)' <=> Rises(p, t, key)
        /\ Rises(q, u, key)' <=> Rises(q, u, key)
    BY <2>2
  <2>6. /\ (p = Data.storage_proof)' /\ (t = StorageOf(asked.root_of))'
        /\ (q = answer.contract_proof)' /\ (u = ContractLeaves(asked.root_of))'
    BY <2>1, <2>3, <2>4
  <2>7. /\ Rises(Data.storage_proof, StorageOf(asked.root_of), key)'
               <=> Rises(Data.storage_proof, StorageOf(asked.root_of), key)
        /\ Rises(answer.contract_proof, ContractLeaves(asked.root_of), key)'
               <=> Rises(answer.contract_proof, ContractLeaves(asked.root_of), key)
    BY <2>4, <2>5, <2>6
  <2>8. (StorageShown' <=> StorageShown) /\ (VerifiedIfHeld' <=> VerifiedIfHeld)
    BY <2>1, <2>3 DEF StorageShown, VerifiedIfHeld, Holds
  <2> QED BY <1>0, <2>1, <2>3, <2>7, <2>8 DEF AnyInv
<1> QED BY <1>1, <1>2, <1>3, <1>4, <1>5 DEF Next

\* Whatever the node answers, a value that is verified is the one of the state whose
\* root was asked about, provided that the edges above the last node of both proofs
\* lead down the key, which parse_proof leaves uncompared: for keys of any length and
\* any two sequences of nodes (verify, verify_storage_proofs, verify_contract_proof).
THEOREM VerifiedAreHeld == Spec => []VerifiedIfHeld
<1>1. AnyInv => VerifiedIfHeld
  BY DEF AnyInv
<1> QED BY InitAny, StepAny, <1>1, PTL DEF Spec
=============================================================================
