---------------------------- MODULE MCMerkleProof ----------------------------
(* States of a contract with every storage of at most three keys of three    *)
(* bits, so that each order of binary nodes and edges occurs, alone or       *)
(* beside three others, which give its address a different place.  A node    *)
(* computes its answer, or alters the one about the contract as the tests of *)
(* proof.rs do.                                                              *)
EXTENDS PatriciaTrie, FiniteSets, SequencesExt

AllKeys == [1 .. Height -> {0, 1}]
MCKeys == {<<0, 1, 1>>, <<0, 0, 0>>, <<0, 0, 1>>}

Storages == {[k \in K |-> IF k = <<0, 1, 1>> THEN 2 ELSE 1] :
                K \in {K \in SUBSET AllKeys : Cardinality(K) <= 3}}

Address == <<0, 1, 1>>
Neighbours == {{}, {<<1, 0, 0>>, <<0, 0, 0>>, <<1, 0, 1>>}}

World(storage, neighbours) ==
    [a \in {Address} \cup neighbours |->
        [class_and_nonce |-> "c", storage |-> IF a = Address THEN storage ELSE << >>]]

MCWorlds == {World(s, n) : s \in Storages, n \in Neighbours}
MCOthers == {World([k \in {Address} |-> 2], {})}

\* A node with another child, path or length, and a proof with one altered or left out.
Altered(n) ==
    IF IsEdge(n)
    THEN {Edge(c, n[3], n[4]) : c \in {Felt(v) : v \in Values} \ {n[2]}}
         \cup {Edge(n[2], PathOf(k, 0, n[4]), n[4]) : k \in MCKeys}
         \cup {Edge(n[2], n[3], l) : l \in 1 .. Height + 1}
    ELSE {Binary(n[3], n[2]), Binary(Felt(1), n[3])}

AlteredProofs(p) ==
    {RemoveAt(p, i) : i \in 1 .. Len(p)}
    \cup UNION {{ReplaceAt(p, i, n) : n \in Altered(p[i])} : i \in 1 .. Len(p)}

\* Besides: the proof of another key, and the data of a contract with another storage.
MCAnswers(world, address, k) ==
    LET right == Computed(world, address, k)
        data == right.contract_data
    IN  {right} \cup
        IF data = NoData \/ address # Address THEN {}
        ELSE {[right EXCEPT !.contract_data.storage_proof = p] :
                 p \in AlteredProofs(data.storage_proof)
                       \cup {Proof(Leaves(world[address].storage), l) : l \in MCKeys}}
             \cup {[right EXCEPT !.contract_proof = p] : p \in AlteredProofs(right.contract_proof)}
             \cup {[right EXCEPT !.contract_data = Computed(other, address, k).contract_data] :
                      other \in MCOthers}
             \cup {[right EXCEPT !.state_commitment = GlobalRoot(other)] : other \in MCOthers}
=============================================================================
