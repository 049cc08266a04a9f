----------------------------- MODULE LightClient -----------------------------
(***************************************************************************)
(* The light client (lightclientservice/src): the state it reads from the  *)
(* Starknet core contract on Ethereum when it starts, and the reads of     *)
(* storage that its RPC server answers, at the same time, from a Starknet  *)
(* node it does not control, checking each value against a state root.     *)
(*                                                                         *)
(* A remote call may be answered by any replica, or fail.  What Ethereum   *)
(* has settled is never replaced.  A call that the server executes itself  *)
(* is in Executor, what it merely forwards in JsonRpc.                     *)
(***************************************************************************)
EXTENDS StarknetNode

CONSTANTS
    Requests,       \* the requests a server is handling
    Storage(_),     \* the value of the storage asked for, in a block
    MaxEthBlock     \* bound: height of the Ethereum chain

ASSUME LightClientAssumption ==
    /\ {MaxFork, MaxEthBlock, MaxLag} \subseteq Nat
    /\ MaxBlock \in Nat \ {0}

VARIABLES
    l1,     \* the Ethereum chain: the number of the block settled, by Ethereum block
    sync,   \* EthereumClient::starknet_state, at most once running
    state,  \* client::State, what Context.state holds
    task    \* the requests in progress

vars == <<chain, l1, sync, state, task>>

Settled == l1[Len(l1)]

BlockNumberId(n) == [type |-> "number", number |-> n]
BlockHashId(b) == [type |-> "hash", hash |-> b]
Latest == [type |-> "latest"]
Pending == [type |-> "pending"]

NoTask == [pc |-> "idle", asked |-> None, block_id |-> None, root |-> None,
           value |-> None]
-----------------------------------------------------------------------------
(* The two chains.                                                         *)

NewBlock ==
    /\ Extend
    /\ UNCHANGED <<l1, sync, state, task>>

Reorg(n) ==
    /\ n > Settled
    /\ Replace(n)
    /\ UNCHANGED <<l1, sync, state, task>>

\* A block of Ethereum, in which the core contract may have settled more.
NewEthBlock(n) ==
    /\ Len(l1) < MaxEthBlock
    /\ n \in Settled .. Len(chain)
    /\ l1' = Append(l1, n)
    /\ UNCHANGED <<chain, sync, state, task>>
-----------------------------------------------------------------------------
(* Starting: run reads the state once, then serves.                        *)

\* latest: the block of Ethereum that Helios has verified last.
latest(eth) ==
    /\ sync.pc = "latest"
    /\ sync' = [sync EXCEPT !.pc = "number", !.tag = eth]
    /\ UNCHANGED <<chain, l1, state, task>>

\* Mutant: each call asks for the latest block of Ethereum.
CallAtLatest == Settled
\* The block that the core contract has settled, by the tag of the three calls.
CallAtTag == l1[sync.tag]

state_block_number ==
    /\ sync.pc = "number"
    /\ sync' = [sync EXCEPT !.pc = "hash", !.block_number = CallAtTag]
    /\ UNCHANGED <<chain, l1, state, task>>

state_block_hash ==
    /\ sync.pc = "hash"
    /\ sync' = [sync EXCEPT !.pc = "root", !.block_hash = BlockAt(CallAtTag)]
    /\ UNCHANGED <<chain, l1, state, task>>

\* state_root, after which run stores the state and serves.
state_root ==
    /\ sync.pc = "root"
    /\ sync' = [sync EXCEPT !.pc = "serving"]
    /\ state' = [block_number |-> sync.block_number, block_hash |-> sync.block_hash,
                 root |-> BlockAt(CallAtTag)]
    /\ UNCHANGED <<chain, l1, task>>

\* A call to Ethereum fails, and run with it.
SyncFails ==
    /\ sync.pc \in {"latest", "number", "hash", "root"}
    /\ sync' = [sync EXCEPT !.pc = "failed"]
    /\ UNCHANGED <<chain, l1, state, task>>
-----------------------------------------------------------------------------
(* What the Starknet node answers.                                         *)

\* The block that a replica of height v has for an id, or None.
Lookup(v, id) ==
    CASE id.type = "latest" -> BlockAt(v)
      [] id.type = "number" -> IF id.number \in 1 .. v THEN BlockAt(id.number) ELSE None
      [] id.type = "hash" -> IF Canonical(id.hash) /\ id.hash.number <= v THEN id.hash ELSE None

Step(r, t) ==
    /\ task' = [task EXCEPT ![r] = t]
    /\ UNCHANGED <<chain, l1, sync, state>>

Fail(r) == Step(r, [task[r] EXCEPT !.pc = "error"])

\* proof.verify: b is the block whose state the node has computed the proof from;
\* that the check then decides so is ComputedProofsDecide of MerkleProof.
verify(root, b, value) == b = root /\ Storage(b) = value
-----------------------------------------------------------------------------
(* getStorageAt.                                                           *)

\* The request arrives.
getStorageAt(r, id) ==
    /\ sync.pc = "serving"
    /\ task[r].pc = "idle"
    /\ Step(r, [NoTask EXCEPT !.pc = "resolve", !.asked = id])

Resolved(r, id, root) ==
    Step(r, [task[r] EXCEPT !.pc = "storage", !.block_id = id, !.root = root])

\* The current state is used for the latest block and for what is not before it.
resolve_current(r) ==
    /\ task[r].pc = "resolve"
    /\ \/ task[r].asked.type = "latest"
       \/ task[r].asked.type = "number" /\ task[r].asked.number >= state.block_number
    /\ Resolved(r, BlockNumberId(state.block_number), state.root)

resolve_pending(r) ==
    /\ task[r].pc = "resolve"
    /\ task[r].asked.type = "pending"
    /\ Fail(r)

resolve_block_by_number(r, v) ==
    /\ task[r].pc = "resolve"
    /\ task[r].asked.type = "number"
    /\ task[r].asked.number < state.block_number
    /\ LET b == Lookup(v, task[r].asked)
       IN  IF b # None /\ b.number = task[r].asked.number
           THEN Resolved(r, task[r].asked, b) ELSE Fail(r)

resolve_current_hash(r) ==
    /\ task[r].pc = "resolve"
    /\ task[r].asked.type = "hash"
    /\ task[r].asked.hash = state.block_hash
    /\ Resolved(r, task[r].asked, state.root)

\* Mutant: the number of the block is not compared with the current one.
IsAskedBlock(b, r) == b # None /\ b = task[r].asked.hash
\* The node's block is the one asked for, and before the current one.
IsEarlierBlock(b, r) ==
    b # None /\ b = task[r].asked.hash /\ b.number < state.block_number

resolve_block_by_hash(r, v) ==
    /\ task[r].pc = "resolve"
    /\ task[r].asked.type = "hash"
    /\ task[r].asked.hash # state.block_hash
    /\ LET b == Lookup(v, task[r].asked)
       IN  IF IsEarlierBlock(b, r) THEN Resolved(r, task[r].asked, b) ELSE Fail(r)

storage_value(r, v) ==
    /\ task[r].pc = "storage"
    /\ LET b == Lookup(v, task[r].block_id)
       IN  IF b = None THEN Fail(r)
           ELSE Step(r, [task[r] EXCEPT !.pc = "proof", !.value = Storage(b)])

storage_proof(r, v) ==
    /\ task[r].pc = "proof"
    /\ LET b == Lookup(v, task[r].block_id)
       IN  IF b # None /\ verify(task[r].root, b, task[r].value)
           THEN Step(r, [task[r] EXCEPT !.pc = "done"]) ELSE Fail(r)

\* The block is resolved by a call to the node.
AsksNode(r) ==
    \/ task[r].asked.type = "number" /\ task[r].asked.number < state.block_number
    \/ task[r].asked.type = "hash" /\ task[r].asked.hash # state.block_hash

\* A remote call fails or times out.
RemoteFails(r) ==
    /\ task[r].pc \in {"resolve", "storage", "proof"}
    /\ task[r].pc = "resolve" => AsksNode(r)
    /\ Fail(r)

\* The server has answered; the next request of this task may come.
Answered(r) ==
    /\ task[r].pc \in {"done", "error"}
    /\ Step(r, NoTask)
-----------------------------------------------------------------------------
BlockIds ==
    {BlockNumberId(n) : n \in 1 .. MaxBlock}
        \cup {BlockHashId(b) : b \in [number : 1 .. MaxBlock, fork : 0 .. MaxFork]}
        \cup {Latest, Pending}

Init ==
    /\ chain = <<0>>
    /\ l1 = <<1>>
    /\ sync = [pc |-> "latest", tag |-> 0, block_number |-> 0, block_hash |-> None]
    /\ state = None
    /\ task = [r \in Requests |-> NoTask]

Chains ==
    \/ NewBlock
    \/ \E n \in 1 .. MaxBlock : Reorg(n)
    \/ \E n \in 1 .. MaxBlock : NewEthBlock(n)

Start ==
    \/ \E eth \in 1 .. Len(l1) : latest(eth)
    \/ state_block_number
    \/ state_block_hash
    \/ state_root
    \/ SyncFails

Serve(r) ==
    \/ \E id \in BlockIds : getStorageAt(r, id)
    \/ resolve_current(r)
    \/ resolve_current_hash(r)
    \/ resolve_pending(r)
    \/ \E v \in Views :
        \/ resolve_block_by_number(r, v)
        \/ resolve_block_by_hash(r, v)
        \/ storage_value(r, v)
        \/ storage_proof(r, v)
    \/ RemoteFails(r)
    \/ Answered(r)

Next == Chains \/ Start \/ \E r \in Requests : Serve(r)

Spec == Init /\ [][Next]_vars
-----------------------------------------------------------------------------
(* Properties.                                                             *)

SettledBlock(b) == Canonical(b) /\ b.number <= Settled

(* The number, the hash and the root that the server verifies against are   *)
(* those of one block, which is settled and in the chain for good, although *)
(* three calls read them while Ethereum goes on (starknet_state, eth.rs).   *)
StateIsOneSettledBlock ==
    state # None =>
        /\ state.block_hash = state.root
        /\ state.block_number = state.root.number
        /\ SettledBlock(state.root)

(* getStorageAt answers only with what a settled block holds: the one that  *)
(* was asked for, or the current one for "latest" and for what is later     *)
(* (resolve_block_id, rpc.rs).  The node may switch to a lagging replica    *)
(* between the three calls, and the chain may be reorganised.               *)
AnswerIsOfSettledBlock ==
    \A r \in Requests : task[r].pc = "done" =>
        LET asked == task[r].asked
            block == CASE asked.type = "hash" -> asked.hash
                       [] asked.type = "number" /\ asked.number < state.block_number ->
                            BlockAt(asked.number)
                       [] OTHER -> state.root
        IN  SettledBlock(block) /\ task[r].value = Storage(block)

\* The status of a request as its caller sees it.
Seen == [idle |-> "none", resolve |-> "open", storage |-> "open", proof |-> "open",
         done |-> "answered", error |-> "refused"]

Request(t) == [status |-> Seen[t.pc], asked |-> t.asked,
               value |-> IF t.pc = "done" THEN t.value ELSE None]

VR == INSTANCE VerifiedReads WITH
    settled <- [n \in 1 .. Settled |-> BlockAt(n)],
    current <- IF sync.pc = "serving" THEN state.block_number ELSE 0,
    request <- [r \in Requests |-> Request(task[r])]

\* Whatever the replicas answer and however the chains move, a caller cannot
\* tell the server from one that has the settled blocks up to its own before it
\* and looks the storage up there, or refuses: no block that may be replaced is
\* answered from, none is after the one the server began with, and what was
\* answered stays so (getStorageAt and starknet_state).
ImplementsVerifiedReads == VR!Spec
=============================================================================
