----------------------------- MODULE MerkleProof -----------------------------
(***************************************************************************)
(* The check of a storage proof (lightclientservice/src/proof.rs, util.rs):*)
(* from the value of a key to the root of the contract's storage, and from *)
(* the contract to the root of the state.  The root is known; the answer   *)
(* with the proof is the node's and may be any, whatever state it was      *)
(* computed for: Answers says which the node gives.                        *)
(*                                                                         *)
(* A key is a tuple of Height bits, the most significant first, and so is  *)
(* the path of an edge, whose last bits count.  A hash is the term that it *)
(* is computed from: hashes do not collide, those of edges, binary nodes   *)
(* and contracts among each other included.  The states and their tries    *)
(* are the network's: TrieAssumption says what a trie is, and PatriciaTrie *)
(* defines them.  The class commitment, which is hashed into the root as   *)
(* it is given, absent fields but the contract data, and strings that are  *)
(* no field elements are left out; the length of an edge is a number.      *)
(***************************************************************************)
EXTENDS Integers, Sequences

CONSTANTS
    Height,          \* the bits of a key
    Values,          \* the values stored, and asked about besides 0
    Keys,            \* the keys asked about
    Worlds,          \* the states: contracts by address, each [class_and_nonce, storage]
    Others,          \* the states whose root may be asked about with another's proof
    NoData,          \* the contract data of an unknown contract
    Root(_),         \* the root of a trie, given by its leaves
    Proof(_, _),     \* the nodes of a trie on the path of a key
    Answers(_, _, _) \* what a node with this state may answer about an address and a key

VARIABLES
    asked,     \* the address, key and value, the state of the root, that of the node
    answer,    \* what the node has answered
    phase,     \* what is being parsed: "storage", "contract", or the verdict
    proof,     \* the nodes that are left, the next one last
    key,       \* the key of this phase
    value,     \* its value
    hold,      \* the hash so far
    path_len,  \* the bits of the key used so far
    index      \* the nodes looked at so far

question == <<asked, answer>>
vars == <<question, phase, proof, key, value, hold, path_len, index>>

Felt(n) == <<"felt", n>>
Binary(left, right) == <<"binary", left, right>>
Edge(child, path, len) == <<"edge", child, path, len>>
IsEdge(node) == node[1] = "edge"
-----------------------------------------------------------------------------
calculate_contract_state_hash(class_and_nonce, root) == <<"contract", class_and_nonce, root>>
calculate_global_root(storage_commitment) == <<"state", storage_commitment>>

Leaves(storage) == [k \in DOMAIN storage |-> Felt(storage[k])]

ContractLeaves(world) ==
    [a \in DOMAIN world |->
        calculate_contract_state_hash(world[a].class_and_nonce, Root(Leaves(world[a].storage)))]

GlobalRoot(world) == calculate_global_root(Root(ContractLeaves(world)))
-----------------------------------------------------------------------------
(* The nodes on the path of a key.                                         *)

Bits == [1 .. Height -> {0, 1}]
Addresses == UNION {DOMAIN world : world \in Worlds}

\* The n bits of the key after its first d, as the path of an edge has them.
PathOf(k, d, n) ==
    [i \in 1 .. Height |-> IF i > Height - n THEN k[i - Height + d + n] ELSE 0]

Length(node) == IF IsEdge(node) THEN node[4] ELSE 1
Inner(hash) == hash[1] \in {"binary", "edge"}

\* A node of the trie whose keys have shared d bits.
NodeAt(node, d) ==
    /\ Inner(node)
    /\ node = IF IsEdge(node) THEN Edge(node[2], node[3], node[4]) ELSE Binary(node[2], node[3])
    /\ Length(node) \in 1 .. Height - d

\* The key takes the edge, and where the key goes on.
Follows(node, k, d) == IsEdge(node) => node[3] = PathOf(k, d, Length(node))
Child(node, k, d) == IF IsEdge(node) \/ k[d + 1] = 0 THEN node[2] ELSE node[3]

\* The nodes of p, at these depths, are those from the root of t down the path
\* of k: to its leaf, or to an edge that the key does not take.
IsPath(p, t, k, depth) ==
    /\ p[1] = Root(t)
    /\ depth[1] = 0
    /\ \A i \in 1 .. Len(p) :
        LET child == Child(p[i], k, depth[i])
            next == depth[i] + Length(p[i])
        IN  /\ NodeAt(p[i], depth[i])
            /\ next < Height => Inner(child)
            /\ \/ /\ ~Follows(p[i], k, depth[i])
                  /\ i = Len(p) /\ k \notin DOMAIN t
               \/ /\ Follows(p[i], k, depth[i]) /\ next < Height
                  /\ i < Len(p) /\ p[i + 1] = child /\ depth[i + 1] = next
               \/ /\ Follows(p[i], k, depth[i]) /\ next = Height
                  /\ i = Len(p) /\ k \in DOMAIN t /\ t[k] = child

IsSequence(p) == p \in Seq({p[i] : i \in DOMAIN p})

IsProof(p, t, k) ==
    /\ IsSequence(p)
    /\ IF DOMAIN t = {} THEN p = <<>> /\ Root(t) = Felt(0)
       ELSE p # <<>> /\ \E depth \in [1 .. Len(p) -> 0 .. Height - 1] : IsPath(p, t, k, depth)

ASSUME MerkleAssumption ==
    /\ Height \in Nat \ {0}
    /\ Values \subseteq Nat \ {0}
    /\ Keys \subseteq Bits
    /\ Others \subseteq Worlds
    /\ \A world \in Worlds :
        /\ DOMAIN world \subseteq Bits
        /\ \A a \in DOMAIN world :
            \A k \in DOMAIN world[a].storage : world[a].storage[k] \in Values

\* Every trie of a state has a path for each key, and a root is of one state only.
ASSUME TrieAssumption ==
    \A world \in Worlds :
        /\ \A a \in Addresses : IsProof(Proof(ContractLeaves(world), a), ContractLeaves(world), a)
        /\ \A a \in DOMAIN world : \A k \in Keys :
            IsProof(Proof(Leaves(world[a].storage), k), Leaves(world[a].storage), k)
        /\ \A other \in Others : GlobalRoot(other) = GlobalRoot(world) => other = world

\* The contract data that a node computes.
ContractData(world, a, k) ==
    [class_and_nonce |-> world[a].class_and_nonce,
     root |-> Root(Leaves(world[a].storage)),
     storage_proof |-> Proof(Leaves(world[a].storage), k)]

\* Whatever the node answers, its proofs are sequences of nodes.
ASSUME AnswerAssumption ==
    \A world \in Worlds, k \in Keys :
        /\ \A a \in DOMAIN world : ContractData(world, a, k) # NoData
        /\ \A a \in Addresses : \A any \in Answers(world, a, k) :
            /\ IsSequence(any.contract_proof)
            /\ any.contract_data # NoData => IsSequence(any.contract_data.storage_proof)
-----------------------------------------------------------------------------
\* verify: an unknown contract has no contract data.
Init ==
    \E world \in Worlds : \E other \in Others \cup {world} :
    \E address \in Addresses, k \in Keys, v \in Values \cup {0} :
        /\ asked = [root_of |-> other, proof_of |-> world, address |-> address,
                    key |-> k, value |-> v]
        /\ answer \in Answers(world, address, k)
        /\ IF answer.contract_data = NoData
           THEN phase = "rejected" /\ proof = <<>>
           ELSE phase = "storage" /\ proof = answer.contract_data.storage_proof
        /\ key = k
        /\ value = Felt(v)
        /\ hold = Felt(v)
        /\ path_len = 0
        /\ index = 0

Parsing == phase \in {"storage", "contract"} /\ proof # <<>>
Parsed == phase \in {"storage", "contract"} /\ proof = <<>>

node == proof[Len(proof)]
rest == SubSeq(proof, 1, Len(proof) - 1)

Rejected ==
    /\ phase' = "rejected"
    /\ UNCHANGED <<question, proof, key, value, hold, path_len, index>>

Climb(len) ==
    /\ hold' = node
    /\ path_len' = len
    /\ proof' = rest
    /\ index' = index + 1
    /\ UNCHANGED <<question, phase, key, value>>

\* The key under the mask Height - len: its last len bits.
felt_from_bits(len) == [i \in 1 .. Height |-> IF i > Height - len THEN key[i] ELSE 0]

\* The last node of a proof leads to the value along the key's last bits.
LastEdgeMatches(len) == len <= Height /\ node = Edge(value, felt_from_bits(len), len)

\* Mutant: an edge is one bit, as a binary node is.
OneBit(len) == 1
EdgeLength(len) == len

\* Of an edge above the last node neither the child nor the path is compared.
EdgeNode ==
    /\ Parsing
    /\ IsEdge(node)
    /\ IF index = 0 /\ ~LastEdgeMatches(node[4]) THEN Rejected
       ELSE Climb(path_len + EdgeLength(node[4]))

\* key[251 - path_len], counted from 0.
Direction(len) == key[Height - len + 1]

\* With more bits used than the key has, the index panics: no verdict but this one.
BinaryNode ==
    /\ Parsing
    /\ ~IsEdge(node)
    /\ LET len == path_len + 1
       IN  IF \/ len > Height
              \/ node # IF Direction(len) = 0 THEN Binary(hold, node[3]) ELSE Binary(node[2], hold)
           THEN Rejected
           ELSE Climb(len)

verify_storage_proofs ==
    /\ Parsed
    /\ phase = "storage"
    /\ LET data == answer.contract_data
           hash == calculate_contract_state_hash(data.class_and_nonce, data.root)
       IN  IF hold # data.root THEN Rejected
           ELSE /\ phase' = "contract"
                /\ proof' = answer.contract_proof
                /\ key' = asked.address
                /\ value' = hash
                /\ hold' = hash
                /\ path_len' = 0
                /\ index' = 0
                /\ UNCHANGED question

\* Mutant: the root is compared with the one that comes with the proof only.
IsStateCommitment(root) == root = answer.state_commitment
IsGlobalRoot(root) == root = answer.state_commitment /\ root = GlobalRoot(asked.root_of)

verify_contract_proof ==
    /\ Parsed
    /\ phase = "contract"
    /\ IF ~IsGlobalRoot(calculate_global_root(hold)) THEN Rejected
       ELSE phase' = "verified" /\ UNCHANGED <<question, proof, key, value, hold, path_len, index>>

Next == EdgeNode \/ BinaryNode \/ verify_storage_proofs \/ verify_contract_proof

Spec == Init /\ [][Next]_vars
-----------------------------------------------------------------------------
\* The value that the state with the given root has for the key.
Holds(world) ==
    /\ asked.address \in DOMAIN world
    /\ LET storage == world[asked.address].storage
       IN  \/ asked.key \in DOMAIN storage /\ storage[asked.key] = asked.value
           \/ DOMAIN storage = {} /\ asked.value = 0

\* The lengths of p's nodes, at these depths, add up to the key, and each edge above
\* the last node has the next one as its child and the key's bits as its path.
Down(p, k, depth) ==
    /\ depth[1] = 0
    /\ depth[Len(p) + 1] = Height
    /\ \A i \in 1 .. Len(p) :
        /\ Length(p[i]) \in 1 .. Height - depth[i]
        /\ depth[i + 1] = depth[i] + Length(p[i])
        /\ IsEdge(p[i]) /\ i # Len(p) => p[i][2] = p[i + 1] /\ Follows(p[i], k, depth[i])
LeadsDown(p, k) ==
    p # <<>> /\ \E depth \in [1 .. Len(p) + 1 -> 0 .. Height] : Down(p, k, depth)

\* Whatever the node answers, computed or made up, a value that is verified is the
\* one of the state whose root was asked about, provided that the edges above the
\* last node of both proofs lead down the key.  That is a condition on the answer,
\* as parse_proof compares child and path of an edge for the last node only; what
\* it does compare, the last node, the direction of every binary node, the root of
\* the contract and the global root, leaves room for no other value.
VerifiedIfHeld ==
    /\ phase = "verified"
    /\ LeadsDown(answer.contract_data.storage_proof, asked.key)
    /\ LeadsDown(answer.contract_proof, asked.address)
    => Holds(asked.root_of)

\* What a node answers that computes its proofs.
Computed(world, address, k) ==
    [contract_data |->
        IF address \in DOMAIN world THEN ContractData(world, address, k) ELSE NoData,
     contract_proof |-> Proof(ContractLeaves(world), address),
     state_commitment |-> GlobalRoot(world)]
IsComputed == answer = Computed(asked.proof_of, asked.address, asked.key)

\* Of a node that computes its proofs, for whatever state, a value is verified
\* exactly if the root is that of this state and the state holds the value.  The
\* value 0 of a key that was never written is verified only in an empty storage: a
\* proof of absence is not understood (verify).
ComputedProofsDecide ==
    IsComputed =>
        /\ phase = "verified" => asked.root_of = asked.proof_of /\ Holds(asked.root_of)
        /\ phase = "rejected" => asked.root_of # asked.proof_of \/ ~Holds(asked.root_of)
=============================================================================
