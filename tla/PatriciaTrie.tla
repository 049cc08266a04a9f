---------------------------- MODULE PatriciaTrie ----------------------------
(***************************************************************************)
(* The Merkle-Patricia tries that the network keeps, and the proofs that a *)
(* node computes: from the root down the path of the key, until the path   *)
(* ends.  They are external, and are here for the instances of MerkleProof.*)
(***************************************************************************)
EXTENDS MerkleProof

\* The entries of t whose key has bit b after its first d bits.
Branch(t, d, b) == [k \in {k \in DOMAIN t : k[d + 1] = b} |-> t[k]]
Splits(t, d) == \A b \in {0, 1} : DOMAIN Branch(t, d, b) # {}

\* How many bits the keys of t share.
Shared(t) ==
    CHOOSE e \in 0 .. Height :
        /\ \A k, l \in DOMAIN t : SubSeq(k, 1, e) = SubSeq(l, 1, e)
        /\ e < Height => Splits(t, e)

AnyKey(t) == CHOOSE k \in DOMAIN t : TRUE

\* The hash of the entries of t, whose keys share their first d bits.
RECURSIVE Node(_, _)
Node(t, d) ==
    IF DOMAIN t = {} THEN Felt(0)
    ELSE IF d = Height THEN t[AnyKey(t)]
    ELSE IF Splits(t, d) THEN Binary(Node(Branch(t, d, 0), d + 1), Node(Branch(t, d, 1), d + 1))
    ELSE Edge(Node(t, Shared(t)), PathOf(AnyKey(t), d, Shared(t) - d), Shared(t) - d)

RECURSIVE ProofFrom(_, _, _)
ProofFrom(t, k, d) ==
    IF DOMAIN t = {} \/ d = Height THEN <<>>
    ELSE IF Splits(t, d)
    THEN <<Node(t, d)>> \o ProofFrom(Branch(t, d, k[d + 1]), k, d + 1)
    ELSE <<Node(t, d)>> \o
         IF SubSeq(AnyKey(t), 1, Shared(t)) = SubSeq(k, 1, Shared(t))
         THEN ProofFrom(t, k, Shared(t)) ELSE <<>>

TrieRoot(t) == Node(t, 0)
TrieProof(t, k) == ProofFrom(t, k, 0)
=============================================================================
