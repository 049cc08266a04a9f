------------------------------- MODULE Executor -------------------------------
(***************************************************************************)
(* starknet_call of the light client: the server runs the contract itself  *)
(* (exe/mod.rs), over a state that asks a Starknet node whenever the       *)
(* execution reads something, and keeps in a diff what it writes.          *)
(*                                                                         *)
(* The virtual machine is external: the code of a contract is any sequence *)
(* of reads, writes, calls of other contracts and replacements of its      *)
(* class.  A conversion between the types of the machine and those of the  *)
(* RPC interface (exe/map.rs) either succeeds or fails the execution.  The *)
(* methods of the state that only a transaction reaches are left out, as   *)
(* is the feature that accepts a zero root, which is for tests.            *)
(***************************************************************************)
EXTENDS StarknetNode

CONSTANTS
    Contracts,          \* the contracts
    Keys,               \* the keys of their storage
    Values,             \* the values of a storage slot
    Classes,            \* the classes of contracts
    StorageAt(_, _, _),   \* the value of a contract's key in a block
    Class(_, _),        \* the class of a contract in a block
    Declared(_, _),     \* the class is declared in the block
    MaxReads,           \* bound: how much storage one execution reads
    MaxDepth            \* bound: how deep contracts call each other

Slot == Contracts \X Keys
NoContract == "no contract"     \* a contract without a class: not deployed

ASSUME ExecutorAssumption ==
    /\ {MaxFork, MaxLag, MaxReads, MaxDepth} \subseteq Nat
    /\ MaxBlock \in Nat \ {0}
    /\ \A b \in [number : 1 .. MaxBlock, fork : 0 .. MaxFork], c \in Contracts :
        /\ Class(b, c) \in Classes \cup {NoContract}
        /\ \A key \in Keys : StorageAt(b, c, key) \in Values
    /\ NoContract \notin Classes
    /\ None \notin Values /\ None \notin Classes

VARIABLES
    pc,         \* what the server does for the call
    root,       \* StateProxy.state_root
    frames,     \* the contracts that called each other; in the last one code runs
    class,      \* the class that is fetched
    slot, value,\* the storage slot that is read, and the value answered
    diff,       \* StateProxy.diff: the writes of storage and of classes
    reads       \* history: what the execution was answered, in order

executor_vars == <<chain, pc, root, frames, class, slot, value, diff, reads>>

NoDiff == [storage_updates |-> [s \in Slot |-> None],
           address_to_class_hash |-> [c \in Contracts |-> None]]

target == frames[Len(frames)]

Fails ==
    /\ pc' = "error"
    /\ UNCHANGED <<chain, root, frames, class, slot, value, diff, reads>>
-----------------------------------------------------------------------------
(* The request, and the entry into a contract.                             *)

\* The block id of the request is ignored, and left out.
call(contract) ==
    /\ pc = "idle"
    /\ pc' = "latest_state"
    /\ frames' = <<contract>>
    /\ UNCHANGED <<chain, root, class, slot, value, diff, reads>>

get_latest_state(v) ==
    /\ pc = "latest_state"
    /\ pc' = "class_hash"
    /\ root' = BlockAt(v)
    /\ UNCHANGED <<chain, frames, class, slot, value, diff, reads>>

\* The node answers with an error if no contract is there.
get_class_hash_at(v) ==
    /\ pc = "class_hash"
    /\ LET hash == Class(BlockAt(v), target)
       IN  IF hash = NoContract THEN Fails
           ELSE /\ pc' = "contract_class"
                /\ class' = hash
                /\ UNCHANGED <<chain, root, frames, slot, value, diff, reads>>

get_compiled_contract_class(v) ==
    /\ pc = "contract_class"
    /\ IF Declared(BlockAt(v), class)
       THEN /\ pc' = "run"
            /\ UNCHANGED <<chain, root, frames, class, slot, value, diff, reads>>
       ELSE Fails
-----------------------------------------------------------------------------
(* What the code of a contract may do.                                     *)

CallContract(contract) ==
    /\ pc = "run"
    /\ Len(frames) < MaxDepth
    /\ pc' = "class_hash"
    /\ frames' = Append(frames, contract)
    /\ UNCHANGED <<chain, root, class, slot, value, diff, reads>>

\* The contract's code ends: its caller goes on.
GoBack ==
    /\ pc = "run"
    /\ Len(frames) > 1
    /\ frames' = SubSeq(frames, 1, Len(frames) - 1)
    /\ UNCHANGED <<chain, pc, root, class, slot, value, diff, reads>>

ReadStorage(key) ==
    /\ pc = "run"
    /\ Len(reads) < MaxReads
    /\ pc' = "storage"
    /\ slot' = <<target, key>>
    /\ UNCHANGED <<chain, root, frames, class, value, diff, reads>>

\* StateProxy.get_storage_at: the value, then its proof, both of the latest block.
get_storage_at(v) ==
    /\ pc = "storage"
    /\ pc' = "proof"
    /\ value' = StorageAt(BlockAt(v), slot[1], slot[2])
    /\ UNCHANGED <<chain, root, frames, class, slot, diff, reads>>

\* Mutant: the value is taken without its proof.
NotVerified(b) == TRUE
\* proof.verify, for a proof from block b, with the root that call has fetched.
verify_read(b) == b = root /\ StorageAt(b, slot[1], slot[2]) = value

get_storage_proof(v) ==
    /\ pc = "proof"
    /\ IF verify_read(BlockAt(v))
       THEN /\ pc' = "run"
            /\ reads' = Append(reads, [slot |-> slot, value |-> value])
            /\ UNCHANGED <<chain, root, frames, class, slot, value, diff>>
       ELSE Fails

\* Only the first write of a slot is kept.
set_storage_at(key, v) ==
    /\ pc = "run"
    /\ diff' = [diff EXCEPT !.storage_updates[<<target, key>>] = IF @ = None THEN v ELSE @]
    /\ UNCHANGED <<chain, pc, root, frames, class, slot, value, reads>>

\* replace_class: the new class is fetched, then set; this contract goes on.
set_class_hash_at(new, v) ==
    /\ pc = "run"
    /\ IF Declared(BlockAt(v), new)
       THEN /\ diff' = [diff EXCEPT !.address_to_class_hash[target] = new]
            /\ UNCHANGED <<chain, pc, root, frames, class, slot, value, reads>>
       ELSE Fails

\* The result of the execution is the answer; its diff is dropped with it.
Return ==
    /\ pc = "run"
    /\ Len(frames) = 1
    /\ pc' = "returned"
    /\ diff' = NoDiff
    /\ UNCHANGED <<chain, root, frames, class, slot, value, reads>>

\* A remote call or a conversion fails, or the code panics.
Error ==
    /\ pc \in {"latest_state", "class_hash", "contract_class", "run", "storage", "proof"}
    /\ Fails
-----------------------------------------------------------------------------
ExecutorInit ==
    /\ chain = <<0>>
    /\ pc = "idle"
    /\ root = None /\ frames = <<>> /\ class = None /\ slot = None /\ value = None
    /\ diff = NoDiff
    /\ reads = <<>>

Chain ==
    /\ Extend \/ \E n \in 2 .. MaxBlock : Replace(n)
    /\ UNCHANGED <<pc, root, frames, class, slot, value, diff, reads>>

Execute ==
    \/ \E contract \in Contracts : call(contract) \/ CallContract(contract)
    \/ \E key \in Keys : ReadStorage(key) \/ \E v \in Values : set_storage_at(key, v)
    \/ \E v \in Views :
        \/ get_latest_state(v)
        \/ get_class_hash_at(v)
        \/ get_compiled_contract_class(v)
        \/ get_storage_at(v)
        \/ get_storage_proof(v)
        \/ \E new \in Classes : set_class_hash_at(new, v)
    \/ GoBack
    \/ Return
    \/ Error

ExecutorNext == Chain \/ Execute

ExecutorSpec == ExecutorInit /\ [][ExecutorNext]_executor_vars
-----------------------------------------------------------------------------
(* The values of storage that a successful execution has been given are all *)
(* of the block whose root it started with, whichever contracts it has      *)
(* called and whatever it has written, and however far the latest block     *)
(* moves between a read, its proof and the next read.                       *)
CallReadsOneBlock ==
    pc = "returned" =>
        \A i \in 1 .. Len(reads) :
            reads[i].value = StorageAt(root, reads[i].slot[1], reads[i].slot[2])
=============================================================================
