----------------------------- MODULE StarknetNode -----------------------------
(***************************************************************************)
(* The Starknet node that the light client asks, which it does not         *)
(* control: a pool of honest replicas that may lag behind a chain that     *)
(* grows, and of which the last blocks may be replaced.                    *)
(*                                                                         *)
(* A state root is the block it is the root of: the hash functions are     *)
(* taken to be free of collisions, and a proof of a value under a root     *)
(* exists only if the block holds the value (MerkleProof).                 *)
(***************************************************************************)
EXTENDS Integers, Sequences

CONSTANTS
    MaxBlock,       \* bound: height of the chain
    MaxFork,        \* bound: how often one block is replaced
    MaxLag,         \* how many blocks a replica may be behind
    None            \* nothing yet

VARIABLE chain      \* the fork of each block, by number

Block == [number : Nat, fork : Nat]
BlockAt(n) == [number |-> n, fork |-> chain[n]]
Canonical(b) == b.number \in 1 .. Len(chain) /\ b = BlockAt(b.number)

\* The sequencer adds a block.
Extend ==
    /\ Len(chain) < MaxBlock
    /\ chain' = Append(chain, 0)

\* The blocks from n on are replaced by another block n.
Replace(n) ==
    /\ n \in 1 .. Len(chain)
    /\ chain[n] < MaxFork
    /\ chain' = Append(SubSeq(chain, 1, n - 1), chain[n] + 1)

\* The heights at which a replica may be.
Views == {v \in 1 .. Len(chain) : v >= Len(chain) - MaxLag}
=============================================================================
