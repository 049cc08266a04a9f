------------------------------- MODULE MCReads -------------------------------
(* A small instance of what the server verifies: LightClient and Executor     *)
(* over one node.  They share nothing but its chain, which only the node       *)
(* changes, so that in a behaviour the one or the other does something.       *)
EXTENDS LightClient, Executor, TLC

\* The storage that getStorageAt is asked for changes with every second block
\* and with every fork: a value may be the same in two blocks.
MCStorage(b) == <<b.number \div 2, b.fork>>

\* Bound: height of the chain while a call is executed.
MCExecutorBlocks == 3

\* One contract whose storage does the same; another that is deployed by the
\* second block and whose class changes in the third, with its declaration.
MCStorageAt(b, contract, key) ==
    IF contract = "proxy" /\ key = 1 THEN (b.number \div 2 + b.fork) % 2 ELSE (b.number + b.fork) % 2

MCClass(b, contract) ==
    CASE contract = "proxy" -> "old"
      [] b.number = 1 -> NoContract
      [] b.number = 2 -> "old"
      [] OTHER -> "new"

MCDeclared(b, hash) == hash = "old" \/ b.number > 2

MCSymmetry == Permutations(Requests)

MCInit == Init /\ ExecutorInit

MCNext ==
    \/ /\ Next
       /\ pc = "idle"
       /\ UNCHANGED <<pc, root, frames, class, slot, value, diff, reads>>
    \/ /\ ExecutorNext
       /\ sync.pc = "latest" /\ Len(l1) = 1
       /\ Len(chain') <= MCExecutorBlocks
       /\ UNCHANGED <<l1, sync, state, task>>

MCSpec == MCInit /\ [][MCNext]_<<chain, l1, sync, state, task, pc, root, frames, class, slot,
                               value, diff, reads>>
=============================================================================
