----------------------------- MODULE Reads_proofs -----------------------------
(***************************************************************************)
(* The light client's two ways to read the chain.  Whenever it starts and  *)
(* however far the two chains and the replicas of the node move meanwhile, *)
(* what the server verifies against is one settled block, what it answers  *)
(* is the storage of one, and what a call it executes reads of the storage *)
(* is of one block.  Last, that the server is one that has the settled     *)
(* blocks before it and looks the storage up there (VerifiedReads).        *)
(***************************************************************************)
EXTENDS LightClient, Executor, TLAPS

(* What a step of the chain keeps (StarknetNode).                          *)

ChainOK ==
    /\ chain \in Seq(0 .. MaxFork)
    /\ Len(chain) \in 1 .. MaxBlock

\* A new block leaves the others as they are.
LEMMA ExtendKeeps ==
    ASSUME MaxBlock \in Nat, MaxFork \in Nat, ChainOK, Extend
    PROVE  /\ ChainOK'
           /\ Len(chain') = Len(chain) + 1
           /\ \A i \in 1 .. Len(chain) : chain'[i] = chain[i]
BY DEF ChainOK, Extend

\* A replacement of block n leaves those before it as they are.
LEMMA ReplaceKeeps ==
    ASSUME MaxBlock \in Nat, MaxFork \in Nat, ChainOK, NEW n, Replace(n)
    PROVE  /\ ChainOK'
           /\ n \in 1 .. Len(chain)
           /\ Len(chain') = n
           /\ \A i \in 1 .. (n - 1) : chain'[i] = chain[i]
<1>1. n \in 1 .. Len(chain) /\ chain[n] + 1 \in 0 .. MaxFork
  BY DEF ChainOK, Replace
<1> DEFINE kept == SubSeq(chain, 1, n - 1)
<1>2. /\ kept \in Seq(0 .. MaxFork)
      /\ Len(kept) = n - 1
      /\ \A i \in 1 .. (n - 1) : kept[i] = chain[i]
  BY <1>1 DEF ChainOK
<1>3. chain' = Append(kept, chain[n] + 1)
  BY DEF Replace
<1> HIDE DEF kept
<1>4. /\ chain' \in Seq(0 .. MaxFork)
      /\ Len(chain') = n
      /\ \A i \in 1 .. (n - 1) : chain'[i] = kept[i]
  BY <1>1, <1>2, <1>3
<1> QED BY <1>1, <1>2, <1>4 DEF ChainOK

\* What a replica answers from is a block of the chain.
LEMMA ViewsAreBlocks ==
    ASSUME MaxBlock \in Nat, MaxFork \in Nat, ChainOK, NEW v \in Views
    PROVE  /\ v \in 1 .. Len(chain)
           /\ BlockAt(v) \in [number : 1 .. MaxBlock, fork : 0 .. MaxFork]
<1>1. v \in 1 .. Len(chain)
  BY DEF Views
<1>2. v \in 1 .. MaxBlock /\ chain[v] \in 0 .. MaxFork
  BY <1>1 DEF ChainOK
<1> QED BY <1>1, <1>2 DEF BlockAt
-----------------------------------------------------------------------------
(* The reads of the server (LightClient).                                  *)

Answers == {Storage(b) : b \in Block}

Task == [pc : {"idle", "resolve", "storage", "proof", "done", "error"},
         asked : BlockIds \cup {None}, block_id : BlockIds \cup {None},
         root : Block \cup {None}, value : Answers \cup {None}]

\* What Ethereum has settled is in the chain, and grows.
SettledOK ==
    /\ ChainOK
    /\ l1 \in Seq(1 .. MaxBlock)
    /\ l1 # <<>>
    /\ Settled <= Len(chain)
    /\ \A i \in 1 .. Len(l1) : l1[i] <= Settled

\* What the start has read so far is of the Ethereum block of its tag.
SyncOK ==
    /\ sync \in [pc : {"latest", "number", "hash", "root", "serving", "failed"},
                 tag : Nat, block_number : Nat, block_hash : Block \cup {None}]
    /\ sync.pc \in {"number", "hash", "root"} => sync.tag \in 1 .. Len(l1)
    /\ sync.pc \in {"hash", "root"} => sync.block_number = CallAtTag
    /\ sync.pc = "root" => sync.block_hash = BlockAt(CallAtTag)

StateOK ==
    /\ sync.pc # "serving" => state = None
    /\ sync.pc = "serving" =>
        /\ state.block_number \in 1 .. Settled
        /\ state.root = BlockAt(state.block_number)
        /\ state.block_hash = state.root

\* The block that a request is answered from.
Expected(asked) ==
    IF asked.type = "hash" THEN asked.hash
    ELSE IF asked.type = "number" /\ asked.number < state.block_number
         THEN BlockAt(asked.number)
    ELSE state.root

\* What a request may be resolved to: the pending block is refused.
Resolvable == {id \in BlockIds : id.type # "pending"}

TaskOK(t) ==
    /\ t.pc # "idle" => sync.pc = "serving"
    /\ t.pc \in {"resolve", "storage", "proof", "done"} => t.asked \in BlockIds
    /\ t.pc \in {"storage", "proof", "done"} =>
        /\ t.root = Expected(t.asked)
        /\ t.root.number \in 1 .. state.block_number
        /\ t.root = BlockAt(t.root.number)
    /\ t.pc \in {"storage", "proof", "done"} => t.asked \in Resolvable
    /\ t.pc \in {"storage", "proof"} => t.block_id \in Resolvable
    /\ t.pc = "done" => t.value = Storage(t.root)

IInv ==
    /\ SettledOK
    /\ SyncOK
    /\ StateOK
    /\ task \in [Requests -> Task]
    /\ \A r \in Requests : TaskOK(task[r])
-----------------------------------------------------------------------------
LEMMA Bounds == MaxBlock \in Nat /\ MaxFork \in Nat
BY LightClientAssumption

LEMMA InitIInv == Init => IInv
<1>1. SUFFICES ASSUME Init PROVE IInv
  OBVIOUS
<1>2. SettledOK
  BY <1>1, LightClientAssumption DEF Init, SettledOK, ChainOK, Settled
<1>3. SyncOK /\ StateOK
  BY <1>1 DEF Init, SyncOK, StateOK
<1>4. task \in [Requests -> Task] /\ \A r \in Requests : task[r].pc = "idle"
  BY <1>1 DEF Init, Task, NoTask
<1> QED BY <1>2, <1>3, <1>4 DEF IInv, TaskOK

\* A step of the chains that leaves what is settled keeps the invariant.
LEMMA ChainsMove ==
    ASSUME IInv, SettledOK', UNCHANGED <<sync, state, task>>,
           Settled' \in Nat, Settled <= Settled',
           \A i \in 1 .. Settled : chain'[i] = chain[i],
           Len(l1) <= Len(l1'), \A i \in 1 .. Len(l1) : l1'[i] = l1[i]
    PROVE  IInv'
<1> USE Bounds
<1>1. Settled \in 1 .. MaxBlock /\ Settled <= Len(chain) /\ Len(l1) \in Nat
  BY DEF IInv, SettledOK, Settled
<1>2. \A i \in 1 .. Settled : i \in 1 .. Settled' /\ BlockAt(i)' = BlockAt(i)
  BY <1>1 DEF BlockAt
<1>3. \A i \in 1 .. Len(l1) : i \in 1 .. Len(l1') /\ l1'[i] = l1[i] /\ l1[i] \in 1 .. Settled
  <2>1. \A i \in 1 .. Len(l1) : l1[i] <= Settled /\ l1[i] \in 1 .. MaxBlock
    BY DEF IInv, SettledOK
  <2>2. Len(l1') \in Nat
    BY DEF SettledOK
  <2> QED BY <1>1, <2>1, <2>2
<1>4. SyncOK'
  BY <1>2, <1>3 DEF IInv, SyncOK, CallAtTag
<1>5. StateOK'
  BY <1>2 DEF IInv, StateOK
<1>6. ASSUME NEW r \in Requests
      PROVE  TaskOK(task[r])'
  <2> DEFINE t == task[r]
  <2>1. TaskOK(t) /\ t' = t
    BY DEF IInv
  <2>2. t.pc \in {"storage", "proof", "done"} => Expected(t.asked)' = Expected(t.asked)
    <3>1. SUFFICES ASSUME t.pc \in {"storage", "proof", "done"}
                   PROVE  Expected(t.asked)' = Expected(t.asked)
      OBVIOUS
    <3>2. sync.pc = "serving" /\ t.asked \in BlockIds
      BY <2>1, <3>1 DEF TaskOK
    <3>3. state.block_number \in 1 .. Settled
      BY <3>2 DEF IInv, StateOK
    <3>4. CASE t.asked.type = "number" /\ t.asked.number < state.block_number
      <4>1. t.asked.number \in 1 .. MaxBlock
        BY <3>2, <3>4 DEF BlockIds, BlockNumberId, BlockHashId, Latest, Pending
      <4>2. t.asked.number \in 1 .. Settled
        BY <1>1, <3>3, <3>4, <4>1
      <4> QED BY <1>2, <2>1, <4>2 DEF Expected
    <3>5. CASE ~(t.asked.type = "number" /\ t.asked.number < state.block_number)
      BY <2>1, <3>5 DEF Expected
    <3> QED BY <3>4, <3>5
  <2>3. t.pc \in {"storage", "proof", "done"} =>
          t.root.number \in 1 .. state.block_number /\ t.root = BlockAt(t.root.number)'
    <3>1. SUFFICES ASSUME t.pc \in {"storage", "proof", "done"}
                   PROVE  /\ t.root.number \in 1 .. state.block_number
                          /\ t.root = BlockAt(t.root.number)'
      OBVIOUS
    <3>2. /\ state.block_number \in 1 .. Settled
          /\ t.root.number \in 1 .. state.block_number /\ t.root = BlockAt(t.root.number)
      BY <2>1, <3>1 DEF TaskOK, IInv, StateOK
    <3>3. t.root.number \in 1 .. Settled
      BY <1>1, <3>2
    <3> QED BY <1>2, <3>2, <3>3
  <2> HIDE DEF t
  <2>4. TaskOK(t)'
    BY <2>1, <2>2, <2>3 DEF TaskOK
  <2> QED BY <2>4 DEF t
<1> QED BY <1>4, <1>5, <1>6 DEF IInv

LEMMA ChainsStep ==
    ASSUME IInv, Chains
    PROVE  IInv'
<1> USE Bounds
<1>1. /\ ChainOK /\ l1 \in Seq(1 .. MaxBlock) /\ l1 # <<>>
      /\ Settled \in 1 .. MaxBlock /\ Settled <= Len(chain)
      /\ Len(l1) \in Nat /\ Len(l1) >= 1
      /\ \A i \in 1 .. Len(l1) : l1[i] <= Settled
  BY DEF IInv, SettledOK, Settled
<1>2. CASE NewBlock
  <2>1. /\ ChainOK' /\ Len(chain') = Len(chain) + 1
        /\ \A i \in 1 .. Len(chain) : chain'[i] = chain[i]
    BY <1>1, <1>2, ExtendKeeps DEF NewBlock
  <2>2. l1' = l1 /\ Settled' = Settled /\ UNCHANGED <<sync, state, task>>
    BY <1>2 DEF NewBlock, Settled
  <2>3. Len(chain) \in Nat
    BY <1>1 DEF ChainOK
  <2>4. SettledOK'
    BY <1>1, <2>1, <2>2, <2>3 DEF SettledOK
  <2> QED BY <1>1, <2>1, <2>2, <2>3, <2>4, ChainsMove
<1>3. ASSUME NEW n \in 1 .. MaxBlock, Reorg(n)
      PROVE  IInv'
  <2>1. /\ ChainOK' /\ Len(chain') = n /\ n > Settled
        /\ \A i \in 1 .. (n - 1) : chain'[i] = chain[i]
    BY <1>1, <1>3, ReplaceKeeps DEF Reorg
  <2>2. l1' = l1 /\ Settled' = Settled /\ UNCHANGED <<sync, state, task>>
    BY <1>3 DEF Reorg, Settled
  <2>3. SettledOK'
    BY <1>1, <2>1, <2>2 DEF SettledOK
  <2> QED BY <1>1, <2>1, <2>2, <2>3, ChainsMove
<1>4. ASSUME NEW n \in 1 .. MaxBlock, NewEthBlock(n)
      PROVE  IInv'
  <2>1. /\ l1' = Append(l1, n) /\ UNCHANGED <<chain, sync, state, task>>
        /\ n \in Settled .. Len(chain)
    BY <1>4 DEF NewEthBlock
  <2>2. /\ l1' \in Seq(1 .. MaxBlock) /\ l1' # <<>>
        /\ Len(l1') = Len(l1) + 1 /\ l1'[Len(l1')] = n
        /\ \A i \in 1 .. Len(l1) : l1'[i] = l1[i]
    BY <1>1, <2>1
  <2>3. Settled' = n /\ Len(chain) \in Nat
    BY <1>1, <2>2 DEF Settled, ChainOK
  <2>4. \A i \in 1 .. Len(l1') : l1'[i] <= n
    <3>1. \A i \in 1 .. Len(l1) : l1[i] \in 1 .. MaxBlock
      BY <1>1
    <3> QED BY <1>1, <2>1, <2>2, <2>3, <3>1
  <2>5. SettledOK'
    BY <1>1, <2>1, <2>2, <2>3, <2>4 DEF SettledOK, ChainOK
  <2> QED BY <1>1, <2>1, <2>2, <2>3, <2>5, ChainsMove
<1> QED BY <1>2, <1>3, <1>4 DEF Chains
-----------------------------------------------------------------------------
LEMMA StartStep ==
    ASSUME IInv, Start
    PROVE  IInv'
<1> USE Bounds
<1>1. /\ UNCHANGED <<chain, l1, task>> /\ Settled' = Settled
      /\ \A n : BlockAt(n)' = BlockAt(n)
  BY DEF Start, latest, state_block_number, state_block_hash, state_root, SyncFails,
         Settled, BlockAt
<1>2. sync.pc # "serving" /\ state = None
  BY DEF IInv, StateOK, Start, latest, state_block_number, state_block_hash, state_root,
         SyncFails
<1>3. SettledOK' /\ \A i \in 1 .. Len(l1) : l1[i] \in 1 .. Settled
  <2>1. SettledOK'
    BY <1>1 DEF IInv, SettledOK, ChainOK
  <2>2. \A i \in 1 .. Len(l1) : l1[i] \in 1 .. MaxBlock /\ l1[i] <= Settled
    BY DEF IInv, SettledOK
  <2>3. Settled \in 1 .. MaxBlock
    BY DEF IInv, SettledOK, Settled
  <2> QED BY <2>1, <2>2, <2>3
<1>4. \A n \in 1 .. Settled : BlockAt(n) \in Block
  BY DEF IInv, SettledOK, ChainOK, BlockAt, Block, Settled
<1>5. SyncOK' /\ StateOK'
  <2>1. ASSUME NEW eth \in 1 .. Len(l1), latest(eth)
        PROVE  SyncOK' /\ StateOK'
    <3>1. eth \in Nat /\ Len(l1') = Len(l1)
      BY <1>1, <2>1 DEF IInv, SettledOK
    <3>2. /\ sync'.pc = "number" /\ sync'.tag = eth /\ state' = state
          /\ sync' \in [pc : {"latest", "number", "hash", "root", "serving", "failed"},
                       tag : Nat, block_number : Nat, block_hash : Block \cup {None}]
      BY <2>1, <3>1 DEF latest, IInv, SyncOK
    <3> QED BY <1>1, <1>2, <2>1, <3>1, <3>2 DEF SyncOK, StateOK
  <2>2. CASE state_block_number
    <3>1. CallAtTag \in Nat /\ CallAtTag' = CallAtTag
      BY <1>1, <1>3, <2>2 DEF state_block_number, IInv, SyncOK, CallAtTag
    <3> QED BY <1>1, <2>2, <3>1 DEF state_block_number, IInv, SyncOK, StateOK
  <2>3. CASE state_block_hash
    <3>1. /\ CallAtTag \in 1 .. Settled /\ CallAtTag' = CallAtTag
          /\ sync.block_number = CallAtTag
      BY <1>1, <1>3, <2>3 DEF state_block_hash, IInv, SyncOK, CallAtTag
    <3>2. BlockAt(CallAtTag) \in Block /\ BlockAt(CallAtTag)' = BlockAt(CallAtTag)
      BY <1>1, <1>4, <3>1 DEF BlockAt
    <3> QED BY <1>1, <2>3, <3>1, <3>2 DEF state_block_hash, IInv, SyncOK, StateOK
  <2>4. CASE state_root
    <3>1. /\ CallAtTag \in 1 .. Settled
          /\ sync.block_number = CallAtTag /\ sync.block_hash = BlockAt(CallAtTag)
      BY <1>3, <2>4 DEF state_root, IInv, SyncOK, CallAtTag
    <3> QED BY <1>1, <2>4, <3>1 DEF state_root, IInv, SyncOK, StateOK
  <2>5. CASE SyncFails
    BY <1>1, <2>5 DEF SyncFails, IInv, SyncOK, StateOK, CallAtTag
  <2> QED BY <2>1, <2>2, <2>3, <2>4, <2>5 DEF Start
<1>6. \A r \in Requests : TaskOK(task[r])'
  BY <1>1, <1>2 DEF IInv, TaskOK
<1> QED BY <1>1, <1>3, <1>5, <1>6 DEF IInv
-----------------------------------------------------------------------------
\* One request goes on, as a good task.
LEMMA TaskSteps ==
    ASSUME IInv, NEW r \in Requests, NEW t \in Task, TaskOK(t), Step(r, t)
    PROVE  IInv'
<1>1. /\ UNCHANGED <<chain, l1, sync, state>> /\ Settled' = Settled
      /\ \A n : BlockAt(n)' = BlockAt(n)
      /\ \A id : Expected(id)' = Expected(id)
  BY DEF Step, Settled, BlockAt, Expected
<1>2. SettledOK' /\ SyncOK' /\ StateOK'
  BY <1>1 DEF IInv, SettledOK, ChainOK, SyncOK, StateOK, CallAtTag
<1>3. \A u \in Task : TaskOK(u) => TaskOK(u)'
  BY <1>1 DEF TaskOK
<1>4. /\ task' \in [Requests -> Task]
      /\ \A q \in Requests : task'[q] = IF q = r THEN t ELSE task[q]
  BY DEF IInv, Step
<1>5. ASSUME NEW q \in Requests
      PROVE  TaskOK(task[q])'
  <2>1. PICK u \in Task : u = task'[q] /\ TaskOK(u)
    BY <1>4 DEF IInv
  <2>2. TaskOK(u)'
    BY <1>3, <2>1
  <2> QED BY <2>1, <2>2 DEF TaskOK, Expected, BlockAt, Settled
<1> QED BY <1>2, <1>4, <1>5 DEF IInv

LEMMA FailSteps ==
    ASSUME IInv, NEW r \in Requests, task[r].pc # "idle", Fail(r)
    PROVE  IInv'
<1> DEFINE t == [task[r] EXCEPT !.pc = "error"]
<1>1. t \in Task /\ t.pc = "error" /\ sync.pc = "serving"
  BY DEF IInv, Task, TaskOK
<1>2. Step(r, t)
  BY DEF Fail
<1> HIDE DEF t
<1>3. TaskOK(t)
  BY <1>1 DEF TaskOK
<1> QED BY <1>1, <1>2, <1>3, TaskSteps

\* A request is resolved to a settled block, the one that is expected.
LEMMA ResolvedSteps ==
    ASSUME IInv, NEW r \in Requests, NEW id \in Resolvable, NEW n \in 1 .. state.block_number,
           task[r].pc = "resolve", task[r].asked \in Resolvable,
           BlockAt(n) = Expected(task[r].asked),
           Resolved(r, id, BlockAt(n))
    PROVE  IInv'
<1> USE Bounds
<1> DEFINE t == [task[r] EXCEPT !.pc = "storage", !.block_id = id, !.root = BlockAt(n)]
<1>1. BlockAt(n) \in Block /\ BlockAt(n).number = n
  <2>1. state.block_number \in 1 .. Settled
    BY DEF IInv, TaskOK, StateOK
  <2>2. n \in 1 .. Settled /\ Settled \in 1 .. MaxBlock
    BY <2>1 DEF IInv, SettledOK, Settled
  <2> QED BY <2>2 DEF IInv, SettledOK, ChainOK, BlockAt, Block
<1>2. task[r] \in Task /\ TaskOK(task[r])
  BY DEF IInv
<1>3. /\ t \in Task /\ t.pc = "storage" /\ t.asked = task[r].asked /\ t.root = BlockAt(n)
      /\ sync.pc = "serving" /\ t.asked \in BlockIds
  BY <1>1, <1>2 DEF Task, TaskOK, Resolvable
<1>4. Step(r, t) /\ t.block_id = id
  BY <1>2 DEF Resolved, Task
<1> HIDE DEF t
<1>5. TaskOK(t)
  BY <1>1, <1>3, <1>4 DEF TaskOK
<1> QED BY <1>3, <1>4, <1>5, TaskSteps

\* What a replica finds for an id is a block.
LEMMA LookupIsBlock ==
    ASSUME NEW v \in 1 .. Len(chain), NEW id \in Resolvable, Lookup(v, id) # None,
           Len(chain) \in Nat, \A n \in 1 .. Len(chain) : BlockAt(n) \in Block
    PROVE  Lookup(v, id) \in Block
<1>1. id.type \in {"latest", "number", "hash"}
  BY DEF Resolvable, BlockIds, BlockNumberId, BlockHashId, Latest, Pending
<1>2. CASE id.type = "latest"
  BY <1>2 DEF Lookup
<1>3. CASE id.type = "number"
  <2>1. id.number \in 1 .. v => id.number \in 1 .. Len(chain)
    OBVIOUS
  <2> QED BY <1>3, <2>1 DEF Lookup
<1>4. CASE id.type = "hash"
  BY <1>4 DEF Lookup, Canonical
<1> QED BY <1>1, <1>2, <1>3, <1>4

LEMMA ServeStep ==
    ASSUME IInv, NEW r \in Requests, Serve(r)
    PROVE  IInv'
<1> USE Bounds
<1>1. task[r] \in Task /\ TaskOK(task[r])
  BY DEF IInv
<1>2. /\ Settled \in Nat /\ Settled <= Len(chain) /\ Len(chain) <= MaxBlock
      /\ \A n \in 1 .. Len(chain) : BlockAt(n) \in Block /\ BlockAt(n).number = n
  BY DEF IInv, SettledOK, Settled, ChainOK, BlockAt, Block
<1>3. task[r].pc # "idle" /\ Fail(r) => IInv'
  BY FailSteps
<1>4. task[r].pc # "idle" =>
        /\ sync.pc = "serving" /\ state.block_number \in 1 .. Settled
        /\ state.root = BlockAt(state.block_number) /\ state.block_hash = state.root
  BY <1>1 DEF IInv, TaskOK, StateOK
<1>5. ASSUME NEW id \in BlockIds, getStorageAt(r, id)
      PROVE  IInv'
  <2> DEFINE t == [NoTask EXCEPT !.pc = "resolve", !.asked = id]
  <2>1. t \in Task /\ t.pc = "resolve" /\ t.asked = id
    BY DEF NoTask, Task
  <2>2. Step(r, t) /\ sync.pc = "serving"
    BY <1>5 DEF getStorageAt
  <2> HIDE DEF t
  <2>3. TaskOK(t)
    BY <2>1, <2>2 DEF TaskOK
  <2> QED BY <2>1, <2>2, <2>3, TaskSteps
<1>6. CASE resolve_current(r)
  <2> DEFINE n == state.block_number
  <2>1. /\ task[r].pc = "resolve" /\ n \in 1 .. state.block_number
        /\ Resolved(r, BlockNumberId(n), BlockAt(n))
    BY <1>4, <1>6 DEF resolve_current
  <2>2. BlockNumberId(n) \in Resolvable
    <3>1. n \in 1 .. MaxBlock
      BY <1>2, <1>4, <2>1
    <3> QED BY <3>1 DEF BlockIds, BlockNumberId, Resolvable
  <2>3. BlockAt(n) = Expected(task[r].asked) /\ task[r].asked \in Resolvable
    <3>1. /\ task[r].asked \in BlockIds
          /\ \/ task[r].asked.type = "latest"
             \/ task[r].asked.type = "number" /\ ~(task[r].asked.number < n)
      BY <1>1, <1>2, <1>6, <2>1 DEF resolve_current, TaskOK, BlockIds, BlockNumberId,
         BlockHashId, Latest, Pending
    <3> QED BY <1>4, <2>1, <3>1 DEF Expected, Resolvable
  <2> QED BY <2>1, <2>2, <2>3, ResolvedSteps
<1>7. CASE resolve_current_hash(r)
  <2> DEFINE n == state.block_number
  <2>1. /\ task[r].pc = "resolve" /\ n \in 1 .. state.block_number
        /\ Resolved(r, task[r].asked, BlockAt(n)) /\ task[r].asked \in Resolvable
    BY <1>1, <1>4, <1>7 DEF resolve_current_hash, TaskOK, Resolvable
  <2>2. BlockAt(n) = Expected(task[r].asked)
    BY <1>4, <1>7, <2>1 DEF resolve_current_hash, Expected
  <2> QED BY <2>1, <2>2, ResolvedSteps
<1>8. CASE resolve_pending(r)
  BY <1>3, <1>8 DEF resolve_pending
<1>9. ASSUME NEW v \in Views, resolve_block_by_number(r, v)
      PROVE  IInv'
  <2> DEFINE asked == task[r].asked
             b == Lookup(v, asked)
  <2>1. /\ task[r].pc = "resolve" /\ asked \in Resolvable /\ asked.type = "number"
        /\ asked.number < state.block_number
    BY <1>1, <1>9 DEF resolve_block_by_number, TaskOK, Resolvable
  <2>2. asked.number \in 1 .. state.block_number
    <3>1. asked.number \in 1 .. MaxBlock
      BY <2>1 DEF BlockIds, BlockNumberId, BlockHashId, Latest, Pending, Resolvable
    <3> QED BY <1>2, <1>4, <2>1, <3>1
  <2>3. CASE b # None /\ b.number = asked.number
    <3>1. b = BlockAt(asked.number)
      BY <2>1, <2>3 DEF Lookup
    <3>2. Resolved(r, asked, BlockAt(asked.number))
      BY <1>9, <2>3, <3>1 DEF resolve_block_by_number
    <3>3. BlockAt(asked.number) = Expected(asked)
      BY <2>1 DEF Expected
    <3> HIDE DEF b
    <3> QED BY <2>1, <2>2, <3>2, <3>3, ResolvedSteps
  <2>4. CASE ~(b # None /\ b.number = asked.number)
    BY <1>3, <1>9, <2>1, <2>4 DEF resolve_block_by_number
  <2> QED BY <2>3, <2>4
<1>10. ASSUME NEW v \in Views, resolve_block_by_hash(r, v)
       PROVE  IInv'
  <2> DEFINE asked == task[r].asked
             b == Lookup(v, asked)
  <2>1. /\ task[r].pc = "resolve" /\ asked \in Resolvable /\ asked.type = "hash"
    BY <1>1, <1>10 DEF resolve_block_by_hash, TaskOK, Resolvable
  <2>2. CASE IsEarlierBlock(b, r)
    <3>1. b # None /\ b = asked.hash /\ b.number < state.block_number
      BY <2>2 DEF IsEarlierBlock
    <3>2. Canonical(b)
      BY <2>1, <3>1 DEF Lookup
    <3>3. b.number \in 1 .. state.block_number /\ b = BlockAt(b.number)
      BY <1>2, <1>4, <2>1, <3>1, <3>2 DEF Canonical
    <3>4. Resolved(r, asked, b) /\ b = Expected(asked)
      BY <1>10, <2>1, <2>2, <3>1 DEF resolve_block_by_hash, Expected
    <3> HIDE DEF b
    <3> QED BY <2>1, <3>3, <3>4, ResolvedSteps
  <2>3. CASE ~IsEarlierBlock(b, r)
    BY <1>3, <1>10, <2>1, <2>3 DEF resolve_block_by_hash
  <2> QED BY <2>2, <2>3
<1>11. ASSUME NEW v \in Views, storage_value(r, v)
       PROVE  IInv'
  <2> DEFINE b == Lookup(v, task[r].block_id)
             t == [task[r] EXCEPT !.pc = "proof", !.value = Storage(b)]
  <2>1. task[r].pc = "storage"
    BY <1>11 DEF storage_value
  <2>2. CASE b = None
    BY <1>3, <1>11, <2>1, <2>2 DEF storage_value
  <2>3. CASE b # None
    <3>1. b \in Block
      <4>1. v \in 1 .. Len(chain)
        BY ViewsAreBlocks DEF IInv, SettledOK
      <4>2. task[r].block_id \in Resolvable /\ Len(chain) \in Nat
        BY <1>1, <2>1 DEF TaskOK, IInv, SettledOK, ChainOK
      <4> QED BY <1>2, <2>3, <4>1, <4>2, LookupIsBlock
    <3>2. /\ t \in Task /\ t.pc = "proof" /\ t.asked = task[r].asked
          /\ t.root = task[r].root /\ t.block_id = task[r].block_id
      BY <1>1, <3>1 DEF Task, Answers
    <3>3. Step(r, t)
      BY <1>11, <2>3 DEF storage_value
    <3> HIDE DEF t
    <3>4. TaskOK(t)
      BY <1>1, <2>1, <3>2 DEF TaskOK
    <3> QED BY <3>2, <3>3, <3>4, TaskSteps
  <2> QED BY <2>2, <2>3
<1>12. ASSUME NEW v \in Views, storage_proof(r, v)
       PROVE  IInv'
  <2> DEFINE b == Lookup(v, task[r].block_id)
             t == [task[r] EXCEPT !.pc = "done"]
  <2>1. task[r].pc = "proof"
    BY <1>12 DEF storage_proof
  <2>2. CASE b # None /\ verify(task[r].root, b, task[r].value)
    <3>1. task[r].value = Storage(task[r].root)
      BY <2>2 DEF verify
    <3>2. /\ t \in Task /\ t.pc = "done" /\ t.asked = task[r].asked
          /\ t.root = task[r].root /\ t.value = task[r].value
      BY <1>1 DEF Task
    <3>3. Step(r, t)
      BY <1>12, <2>2 DEF storage_proof
    <3> HIDE DEF t
    <3>4. TaskOK(t)
      BY <1>1, <2>1, <3>1, <3>2 DEF TaskOK
    <3> QED BY <3>2, <3>3, <3>4, TaskSteps
  <2>3. CASE ~(b # None /\ verify(task[r].root, b, task[r].value))
    BY <1>3, <1>12, <2>1, <2>3 DEF storage_proof
  <2> QED BY <2>2, <2>3
<1>13. CASE RemoteFails(r)
  BY <1>3, <1>13 DEF RemoteFails
<1>14. CASE Answered(r)
  <2>1. NoTask \in Task /\ TaskOK(NoTask) /\ Step(r, NoTask)
    BY <1>14 DEF Answered, NoTask, Task, TaskOK
  <2> QED BY <2>1, TaskSteps
<1> QED BY <1>5, <1>6, <1>7, <1>8, <1>9, <1>10, <1>11, <1>12, <1>13, <1>14 DEF Serve
-----------------------------------------------------------------------------
LEMMA Invariant == Spec => []IInv
<1>1. IInv /\ [Next]_vars => IInv'
  <2>1. SUFFICES ASSUME IInv, [Next]_vars PROVE IInv'
    OBVIOUS
  <2>2. CASE UNCHANGED vars
    BY <2>1, <2>2 DEF vars, IInv, SettledOK, ChainOK, Settled, SyncOK, CallAtTag, BlockAt,
       StateOK, TaskOK, Expected
  <2> QED BY <2>1, <2>2, ChainsStep, StartStep, ServeStep DEF Next
<1> QED BY InitIInv, <1>1, PTL DEF Spec

(* The state that the server verifies against is one settled block, however   *)
(* the two chains move between the calls that read it.                        *)
THEOREM OneSettledBlock == Spec => []StateIsOneSettledBlock
<1>1. IInv => StateIsOneSettledBlock
  <2>1. SUFFICES ASSUME IInv, state # None PROVE StateIsOneSettledBlock
    BY DEF StateIsOneSettledBlock
  <2>2. /\ state.block_number \in 1 .. Settled
        /\ state.root = BlockAt(state.block_number) /\ state.block_hash = state.root
    BY <2>1 DEF IInv, StateOK
  <2>3. Settled \in Nat /\ Settled <= Len(chain) /\ Len(chain) \in Nat
    BY <2>1, Bounds DEF IInv, SettledOK, Settled, ChainOK
  <2> QED BY <2>2, <2>3 DEF StateIsOneSettledBlock, SettledBlock, Canonical, BlockAt
<1> QED BY <1>1, Invariant, PTL

(* Every answer of getStorageAt is the storage of a settled block, the one    *)
(* asked for or the current one, whichever replicas have answered.            *)
THEOREM AnswersAreSettled == Spec => []AnswerIsOfSettledBlock
<1>1. IInv => AnswerIsOfSettledBlock
  <2>1. SUFFICES ASSUME IInv, NEW r \in Requests, task[r].pc = "done"
                 PROVE  /\ SettledBlock(Expected(task[r].asked))
                        /\ task[r].value = Storage(Expected(task[r].asked))
    <3>1. \A asked \in BlockIds :
            Expected(asked) = CASE asked.type = "hash" -> asked.hash
                                [] asked.type = "number" /\ asked.number < state.block_number ->
                                     BlockAt(asked.number)
                                [] OTHER -> state.root
      BY DEF Expected
    <3> QED BY <2>1, <3>1 DEF AnswerIsOfSettledBlock, IInv, TaskOK
  <2>2. /\ task[r].root = Expected(task[r].asked) /\ task[r].value = Storage(task[r].root)
        /\ task[r].root.number \in 1 .. state.block_number
        /\ task[r].root = BlockAt(task[r].root.number)
        /\ state.block_number \in 1 .. Settled
    BY <2>1 DEF IInv, TaskOK, StateOK
  <2>3. Settled \in Nat /\ Settled <= Len(chain) /\ Len(chain) \in Nat
    BY <2>1, Bounds DEF IInv, SettledOK, Settled, ChainOK
  <2> QED BY <2>2, <2>3 DEF SettledBlock, Canonical
<1> QED BY <1>1, Invariant, PTL
-----------------------------------------------------------------------------
(* The caller's view (VerifiedReads).                                      *)

LEMMA InitRefines == Init => VR!Init
<1>1. SUFFICES ASSUME Init PROVE VR!Init
  OBVIOUS
<1>2. Settled = 1 /\ sync.pc # "serving"
  BY <1>1 DEF Init, Settled
<1>3. \A r \in Requests : Request(task[r]) = VR!NoRequest
  BY <1>1 DEF Init, NoTask, Request, Seen, VR!NoRequest
<1> QED BY <1>2, <1>3 DEF VR!Init

\* However the chains move, what is settled stays, and the server with it.
LEMMA ChainsSettle ==
    ASSUME IInv, IInv', Chains
    PROVE  VR!Settle
<1> USE Bounds
<1>1. /\ Settled \in 1 .. MaxBlock /\ Settled <= Len(chain)
      /\ l1 \in Seq(1 .. MaxBlock) /\ l1 # <<>> /\ ChainOK /\ Len(chain) \in Nat
  BY DEF IInv, SettledOK, Settled, ChainOK
<1>2. UNCHANGED <<sync, state, task>>
  BY DEF Chains, NewBlock, Reorg, NewEthBlock
<1> DEFINE Keeps == /\ Settled' \in Nat /\ Settled <= Settled'
                    /\ \A n \in 1 .. Settled : chain'[n] = chain[n]
<1>3. Keeps
  <2>1. CASE NewBlock
    BY <1>1, <2>1, ExtendKeeps DEF NewBlock, Settled
  <2>2. ASSUME NEW n \in 1 .. MaxBlock, Reorg(n)
        PROVE  Keeps
    <3>1. n > Settled /\ l1' = l1 /\ \A i \in 1 .. (n - 1) : chain'[i] = chain[i]
      BY <1>1, <2>2, ReplaceKeeps DEF Reorg
    <3> QED BY <1>1, <3>1 DEF Settled
  <2>3. ASSUME NEW n \in 1 .. MaxBlock, NewEthBlock(n)
        PROVE  Keeps
    <3>1. l1' = Append(l1, n) /\ chain' = chain /\ n \in Settled .. Len(chain)
      BY <2>3 DEF NewEthBlock
    <3>2. Settled' = n
      BY <1>1, <3>1 DEF Settled
    <3> QED BY <1>1, <3>1, <3>2
  <2> QED BY <2>1, <2>2, <2>3 DEF Chains
<1>4. \A n \in 1 .. Settled : n \in 1 .. Settled' /\ BlockAt(n)' = BlockAt(n)
  BY <1>1, <1>3 DEF BlockAt
<1> QED BY <1>2, <1>4 DEF VR!Settle, Request

\* Of the start only its last step shows: the server has its block.
LEMMA StartBegins ==
    ASSUME IInv, IInv', Start
    PROVE  VR!Begin \/ UNCHANGED VR!vars
<1>1. /\ UNCHANGED <<chain, l1, task>> /\ Settled' = Settled
      /\ \A n : BlockAt(n)' = BlockAt(n)
  BY DEF Start, latest, state_block_number, state_block_hash, state_root, SyncFails,
         Settled, BlockAt
<1>2. UNCHANGED [n \in 1 .. Settled |-> BlockAt(n)]
  BY <1>1
<1>3. UNCHANGED [r \in Requests |-> Request(task[r])]
  BY <1>1 DEF Request
<1>4. CASE state_root
  <2>1. sync.pc # "serving" /\ sync'.pc = "serving"
    BY <1>4 DEF state_root, IInv, SyncOK
  <2>2. state'.block_number \in 1 .. Settled
    BY <1>1, <2>1 DEF IInv, StateOK
  <2> QED BY <1>2, <1>3, <2>1, <2>2 DEF VR!Begin
<1>5. CASE ~state_root
  <2>1. sync.pc # "serving" /\ sync'.pc # "serving"
    BY <1>5 DEF IInv, SyncOK, Start, latest, state_block_number, state_block_hash, SyncFails
  <2> QED BY <1>2, <1>3, <2>1 DEF VR!vars
<1> QED BY <1>4, <1>5

\* What a step of one request shows: the request becomes what the task shows.
LEMMA StepSeen ==
    ASSUME IInv, NEW r \in Requests, NEW t, Step(r, t)
    PROVE  VR!Becomes(r, Request(t))
<1>1. /\ UNCHANGED <<chain, l1, sync, state>> /\ Settled' = Settled
      /\ \A n : BlockAt(n)' = BlockAt(n)
      /\ task \in [Requests -> Task] /\ task' = [task EXCEPT ![r] = t]
  BY DEF IInv, Step, Settled, BlockAt
<1> DEFINE Shown(q) == Request(task[q])
<1>2. \A q \in Requests : Shown(q)' = IF q = r THEN Request(t) ELSE Shown(q)
  BY <1>1 DEF Request
<1> HIDE DEF Shown
<1>3. [q \in Requests |-> Shown(q)]' = [[q \in Requests |-> Shown(q)] EXCEPT ![r] = Request(t)]
  BY <1>2
<1>4. UNCHANGED [n \in 1 .. Settled |-> BlockAt(n)]
  BY <1>1
<1> QED BY <1>1, <1>3, <1>4 DEF VR!Becomes, Shown

\* A call in between does not show.
LEMMA HiddenStep ==
    ASSUME IInv, NEW r \in Requests, NEW t, Step(r, t), Request(t) = Request(task[r])
    PROVE  UNCHANGED VR!vars
<1> DEFINE shown == [q \in Requests |-> Request(task[q])]
<1>1. VR!Becomes(r, Request(t)) /\ shown[r] = Request(t)
  BY StepSeen
<1>2. shown' = [shown EXCEPT ![r] = Request(t)]
  BY <1>1 DEF VR!Becomes
<1>3. shown' = shown
  BY <1>1, <1>2
<1> QED BY <1>1, <1>3 DEF VR!Becomes, VR!vars

LEMMA FailRefuses ==
    ASSUME IInv, NEW r \in Requests, task[r].pc \in {"resolve", "storage", "proof"}, Fail(r)
    PROVE  VR!Refuse(r)
<1> DEFINE t == [task[r] EXCEPT !.pc = "error"]
<1>1. task[r] \in Task
  BY DEF IInv
<1>2. /\ Request(task[r]) = [status |-> "open", asked |-> task[r].asked, value |-> None]
      /\ Request(t) = [status |-> "refused", asked |-> task[r].asked, value |-> None]
  BY <1>1 DEF Task, Request, Seen
<1>3. Request(t) = [Request(task[r]) EXCEPT !.status = "refused"]
  BY <1>2
<1>4. VR!Becomes(r, Request(t))
  BY StepSeen DEF Fail
<1> HIDE DEF t
<1> QED BY <1>2, <1>3, <1>4 DEF VR!Refuse

\* A proof that is verified gives the caller the storage of the block it means.
LEMMA ProofAnswers ==
    ASSUME IInv, NEW r \in Requests, NEW v \in Views, storage_proof(r, v)
    PROVE  VR!Answer(r) \/ VR!Refuse(r)
<1> USE Bounds
<1> DEFINE b == Lookup(v, task[r].block_id)
           t == [task[r] EXCEPT !.pc = "done"]
           asked == task[r].asked
           n == task[r].root.number
<1>1. task[r].pc = "proof" /\ task[r] \in Task /\ TaskOK(task[r])
  BY DEF storage_proof, IInv
<1>2. /\ sync.pc = "serving" /\ state.block_number \in 1 .. Settled
      /\ state.root = BlockAt(state.block_number)
      /\ asked \in Resolvable /\ n \in 1 .. state.block_number
      /\ task[r].root = Expected(asked) /\ task[r].root = BlockAt(n)
  BY <1>1 DEF IInv, TaskOK, StateOK
<1>3. Settled \in Nat
  BY DEF IInv, SettledOK, Settled
<1>4. CASE b # None /\ verify(task[r].root, b, task[r].value)
  <2>1. Step(r, t) /\ task[r].value = Storage(BlockAt(n))
    BY <1>2, <1>4 DEF storage_proof, verify
  <2>2. /\ Request(task[r]) = [status |-> "open", asked |-> asked, value |-> None]
        /\ Request(t) = [status |-> "answered", asked |-> asked, value |-> Storage(BlockAt(n))]
    BY <1>1, <2>1 DEF Task, Request, Seen
  <2>3. VR!Means(asked, n)
    <3>1. BlockAt(state.block_number).number = state.block_number /\ BlockAt(n).number = n
      BY DEF BlockAt
    <3>2. /\ n \in 1 .. Settled
          /\ asked.type \in {"latest", "number", "hash"}
          /\ asked.type = "number" => asked.number \in Nat
      BY <1>2, <1>3 DEF Resolvable, BlockIds, BlockNumberId, BlockHashId, Latest, Pending
    <3>3. CASE asked.type = "hash"
      <4>1. BlockAt(n) = asked.hash
        BY <1>2, <3>3 DEF Expected
      <4> QED BY <3>2, <3>3, <4>1 DEF VR!Means
    <3>4. CASE asked.type = "number" /\ asked.number < state.block_number
      <4>1. n = asked.number
        BY <1>2, <3>1, <3>4 DEF Expected, BlockAt
      <4> QED BY <1>2, <3>4, <4>1 DEF VR!Means
    <3>5. CASE \/ asked.type = "latest"
               \/ asked.type = "number" /\ ~(asked.number < state.block_number)
      <4>1. n = state.block_number
        BY <1>2, <3>1, <3>5 DEF Expected
      <4> QED BY <1>2, <1>3, <3>2, <3>5, <4>1 DEF VR!Means
    <3> QED BY <3>2, <3>3, <3>4, <3>5
  <2>4. VR!Becomes(r, Request(t))
    BY <2>1, StepSeen
  <2> DEFINE shown == [q \in Requests |-> Request(task[q])]
             blocks == [i \in 1 .. Settled |-> BlockAt(i)]
  <2>5. /\ shown[r] = [status |-> "open", asked |-> asked, value |-> None]
        /\ blocks[n] = BlockAt(n)
    BY <1>2, <1>3, <2>2
  <2>6. Request(t) = [status |-> "answered", asked |-> shown[r].asked,
                      value |-> Storage(blocks[n])]
    BY <2>2, <2>5
  <2>7. shown[r].status = "open" /\ shown[r].asked = asked
    BY <2>5
  <2> QED BY <1>2, <2>3, <2>4, <2>6, <2>7 DEF VR!Answer
<1>5. CASE ~(b # None /\ verify(task[r].root, b, task[r].value))
  BY <1>1, <1>5, FailRefuses DEF storage_proof
<1> QED BY <1>4, <1>5

LEMMA ServeShows ==
    ASSUME IInv, NEW r \in Requests, Serve(r)
    PROVE  VR!Next \/ UNCHANGED VR!vars
<1>1. task[r] \in Task /\ TaskOK(task[r])
  BY DEF IInv
<1>2. ASSUME task[r].pc \in {"resolve", "storage", "proof"}, Fail(r)
      PROVE  VR!Next
  BY <1>2, FailRefuses DEF VR!Next
<1>3. ASSUME NEW id, NEW b, task[r].pc = "resolve", Resolved(r, id, b)
      PROVE  UNCHANGED VR!vars
  <2> DEFINE t == [task[r] EXCEPT !.pc = "storage", !.block_id = id, !.root = b]
  <2>1. Request(t) = Request(task[r])
    BY <1>1, <1>3 DEF Task, Request, Seen
  <2> QED BY <1>3, <2>1, HiddenStep DEF Resolved
<1>4. ASSUME NEW id \in BlockIds, getStorageAt(r, id)
      PROVE  VR!Next
  <2> DEFINE t == [NoTask EXCEPT !.pc = "resolve", !.asked = id]
  <2>1. /\ Request(task[r]).status = "none"
        /\ Request(t) = [status |-> "open", asked |-> id, value |-> None]
    BY <1>4 DEF getStorageAt, NoTask, Request, Seen
  <2>2. VR!Becomes(r, Request(t)) /\ sync.pc = "serving"
    BY <1>4, StepSeen DEF getStorageAt
  <2>3. state.block_number # 0
    BY <2>2 DEF IInv, StateOK
  <2> QED BY <2>1, <2>2, <2>3 DEF VR!Next, VR!Ask
<1>5. CASE resolve_current(r) \/ resolve_current_hash(r)
  BY <1>3, <1>5 DEF resolve_current, resolve_current_hash
<1>6. CASE resolve_pending(r) \/ RemoteFails(r)
  BY <1>2, <1>6 DEF resolve_pending, RemoteFails
<1>7. ASSUME NEW v \in Views,
             resolve_block_by_number(r, v) \/ resolve_block_by_hash(r, v)
      PROVE  VR!Next \/ UNCHANGED VR!vars
  BY <1>2, <1>3, <1>7 DEF resolve_block_by_number, resolve_block_by_hash
<1>8. ASSUME NEW v \in Views, storage_value(r, v)
      PROVE  VR!Next \/ UNCHANGED VR!vars
  <2> DEFINE b == Lookup(v, task[r].block_id)
             t == [task[r] EXCEPT !.pc = "proof", !.value = Storage(b)]
  <2>1. CASE b = None
    BY <1>2, <1>8, <2>1 DEF storage_value
  <2>2. CASE b # None
    <3>1. Step(r, t) /\ task[r].pc = "storage"
      BY <1>8, <2>2 DEF storage_value
    <3>2. Request(t) = Request(task[r])
      BY <1>1, <3>1 DEF Task, Request, Seen
    <3> QED BY <3>1, <3>2, HiddenStep
  <2> QED BY <2>1, <2>2
<1>9. ASSUME NEW v \in Views, storage_proof(r, v)
      PROVE  VR!Next
  BY <1>9, ProofAnswers DEF VR!Next
<1>10. CASE Answered(r)
  <2>1. Request(NoTask) = VR!NoRequest /\ VR!Becomes(r, Request(NoTask))
    BY <1>10, StepSeen DEF Answered, NoTask, Request, Seen, VR!NoRequest
  <2>2. Request(task[r]).status \in {"answered", "refused"}
    BY <1>10 DEF Answered, Request, Seen
  <2> QED BY <2>1, <2>2 DEF VR!Next, VR!Finish
<1> QED BY <1>4, <1>5, <1>6, <1>7, <1>8, <1>9, <1>10 DEF Serve

(* A caller cannot tell the server from one that has the settled blocks up to *)
(* its own and looks the storage up there, or refuses: whatever the replicas   *)
(* answer, however the two chains move, and however many requests there are.   *)
THEOREM Implements == Spec => ImplementsVerifiedReads
<1>1. Init => VR!Init
  BY InitRefines
<1>2. IInv /\ IInv' /\ [Next]_vars => [VR!Next]_VR!vars
  <2> SUFFICES ASSUME IInv, IInv', [Next]_vars
               PROVE  [VR!Next]_VR!vars
    OBVIOUS
  <2>1. CASE Chains
    BY <2>1, ChainsSettle DEF VR!Next
  <2>2. CASE Start
    BY <2>2, StartBegins DEF VR!Next
  <2>3. CASE \E r \in Requests : Serve(r)
    BY <2>3, ServeShows
  <2>4. CASE UNCHANGED vars
    BY <2>4 DEF vars, VR!vars, Settled, BlockAt, Request
  <2> QED BY <2>1, <2>2, <2>3, <2>4 DEF Next
<1> QED BY <1>1, <1>2, Invariant, PTL DEF Spec, ImplementsVerifiedReads, VR!Spec
-----------------------------------------------------------------------------
(* The reads of an execution (Executor).                                   *)

Read == [slot : Slot, value : Values]

\* The root is fetched before anything is read, and never again.
ExecutorIInv ==
    /\ ChainOK
    /\ pc \in {"idle", "latest_state", "class_hash", "contract_class", "run",
              "storage", "proof", "returned", "error"}
    /\ frames \in Seq(Contracts)
    /\ pc \notin {"idle", "error"} => frames # <<>>
    /\ pc \in {"storage", "proof"} => slot \in Slot
    /\ pc = "proof" => value \in Values
    /\ reads \in Seq(Read)
    /\ pc \in {"idle", "latest_state"} => reads = <<>>
    /\ \A i \in 1 .. Len(reads) :
        reads[i].value = StorageAt(root, reads[i].slot[1], reads[i].slot[2])

LEMMA ExecutorInitIInv == ExecutorInit => ExecutorIInv
BY ExecutorAssumption DEF ExecutorInit, ExecutorIInv, ChainOK

LEMMA ChainStep ==
    ASSUME ExecutorIInv, Chain
    PROVE  ExecutorIInv'
<1>1. MaxBlock \in Nat /\ MaxFork \in Nat
  BY ExecutorAssumption
<1>2. ChainOK'
  BY <1>1, ExtendKeeps, ReplaceKeeps DEF Chain, ExecutorIInv
<1> QED BY <1>2 DEF Chain, ExecutorIInv

LEMMA FailsStep ==
    ASSUME ExecutorIInv, Fails
    PROVE  ExecutorIInv'
BY DEF ExecutorIInv, Fails, ChainOK

\* A read that is verified is of the block of the root.
LEMMA ProofStep ==
    ASSUME ExecutorIInv, NEW v \in Views, get_storage_proof(v)
    PROVE  ExecutorIInv'
<1>1. CASE verify_read(BlockAt(v))
  <2> DEFINE read == [slot |-> slot, value |-> value]
  <2>1. /\ pc = "proof" /\ pc' = "run" /\ reads' = Append(reads, read)
        /\ UNCHANGED <<chain, root, frames, class, slot, value, diff>>
    BY <1>1 DEF get_storage_proof
  <2>2. read \in Read /\ read.value = StorageAt(root, read.slot[1], read.slot[2])
    BY <1>1, <2>1 DEF ExecutorIInv, verify_read, Read
  <2> HIDE DEF read
  <2>3. /\ reads' \in Seq(Read)
        /\ \A i \in 1 .. Len(reads') :
            reads'[i].value = StorageAt(root, reads'[i].slot[1], reads'[i].slot[2])
    BY <2>1, <2>2 DEF ExecutorIInv
  <2> QED BY <2>1, <2>3 DEF ExecutorIInv, ChainOK
<1>2. CASE ~verify_read(BlockAt(v))
  BY <1>2, FailsStep DEF get_storage_proof
<1> QED BY <1>1, <1>2

LEMMA ExecuteStep ==
    ASSUME ExecutorIInv, Execute
    PROVE  ExecutorIInv'
<1>1. MaxBlock \in Nat /\ MaxFork \in Nat
  BY ExecutorAssumption
<1>2. ASSUME NEW contract \in Contracts, call(contract) \/ CallContract(contract)
      PROVE  ExecutorIInv'
  <2>1. CASE call(contract)
    <3>1. frames' \in Seq(Contracts) /\ frames' # <<>>
      BY <2>1 DEF call
    <3> QED BY <2>1, <3>1 DEF call, ExecutorIInv, ChainOK
  <2>2. CASE CallContract(contract)
    <3>1. frames \in Seq(Contracts)
      BY DEF ExecutorIInv
    <3>2. frames' \in Seq(Contracts) /\ frames' # <<>>
      BY <2>2, <3>1 DEF CallContract
    <3> QED BY <2>2, <3>2 DEF CallContract, ExecutorIInv, ChainOK
  <2> QED BY <1>2, <2>1, <2>2
<1>3. ASSUME NEW key \in Keys, ReadStorage(key)
      PROVE  ExecutorIInv'
  <2>1. target \in Contracts
    BY <1>3 DEF ReadStorage, ExecutorIInv, target
  <2> QED BY <1>3, <2>1 DEF ReadStorage, ExecutorIInv, ChainOK, Slot
<1>4. ASSUME NEW key \in Keys, NEW v \in Values, set_storage_at(key, v)
      PROVE  ExecutorIInv'
  BY <1>4 DEF set_storage_at, ExecutorIInv, ChainOK
<1>5. ASSUME NEW v \in Views
      PROVE  /\ get_latest_state(v) => ExecutorIInv'
             /\ get_class_hash_at(v) => ExecutorIInv'
             /\ get_compiled_contract_class(v) => ExecutorIInv'
             /\ get_storage_at(v) => ExecutorIInv'
             /\ get_storage_proof(v) => ExecutorIInv'
             /\ \A new \in Classes : set_class_hash_at(new, v) => ExecutorIInv'
  <2>1. get_latest_state(v) => ExecutorIInv'
    BY DEF get_latest_state, ExecutorIInv, ChainOK
  <2>2. get_class_hash_at(v) => ExecutorIInv'
    BY FailsStep DEF get_class_hash_at, ExecutorIInv, ChainOK
  <2>3. get_compiled_contract_class(v) => ExecutorIInv'
    BY FailsStep DEF get_compiled_contract_class, ExecutorIInv, ChainOK
  <2>4. get_storage_at(v) => ExecutorIInv'
    <3>1. SUFFICES ASSUME get_storage_at(v) PROVE ExecutorIInv'
      OBVIOUS
    <3>2. StorageAt(BlockAt(v), slot[1], slot[2]) \in Values
      BY <1>1, <3>1, ViewsAreBlocks, ExecutorAssumption DEF get_storage_at, ExecutorIInv, Slot
    <3> QED BY <3>1, <3>2 DEF get_storage_at, ExecutorIInv, ChainOK
  <2>5. get_storage_proof(v) => ExecutorIInv'
    BY ProofStep
  <2>6. \A new \in Classes : set_class_hash_at(new, v) => ExecutorIInv'
    BY FailsStep DEF set_class_hash_at, ExecutorIInv, ChainOK
  <2> QED BY <2>1, <2>2, <2>3, <2>4, <2>5, <2>6
<1>6. GoBack => ExecutorIInv'
  <2>1. SUFFICES ASSUME GoBack PROVE ExecutorIInv'
    OBVIOUS
  <2>2. frames \in Seq(Contracts) /\ Len(frames) > 1
    BY <2>1 DEF GoBack, ExecutorIInv
  <2>3. /\ frames' = SubSeq(frames, 1, Len(frames) - 1)
        /\ Len(frames) - 1 \in 1 .. Len(frames)
    BY <2>1, <2>2 DEF GoBack
  <2>4. frames' \in Seq(Contracts) /\ Len(frames') = Len(frames) - 1
    BY <2>2, <2>3
  <2>5. frames' # <<>>
    BY <2>2, <2>4
  <2> QED BY <2>1, <2>4, <2>5 DEF GoBack, ExecutorIInv, ChainOK
<1>7. Return => ExecutorIInv'
  BY DEF Return, ExecutorIInv, ChainOK
<1>8. Error => ExecutorIInv'
  BY FailsStep DEF Error
<1> QED BY <1>2, <1>3, <1>4, <1>5, <1>6, <1>7, <1>8 DEF Execute

(* Whatever contracts a call enters, whatever they read and write, and        *)
(* however the chain grows and is replaced meanwhile, a call that returns has *)
(* been given the storage of one block.                                       *)
THEOREM ReadsOneBlock == ExecutorSpec => []CallReadsOneBlock
<1>1. ExecutorIInv /\ [ExecutorNext]_executor_vars => ExecutorIInv'
  <2>1. SUFFICES ASSUME ExecutorIInv, [ExecutorNext]_executor_vars PROVE ExecutorIInv'
    OBVIOUS
  <2>2. CASE UNCHANGED executor_vars
    BY <2>1, <2>2 DEF executor_vars, ExecutorIInv, ChainOK
  <2> QED BY <2>1, <2>2, ChainStep, ExecuteStep DEF ExecutorNext
<1>2. ExecutorIInv => CallReadsOneBlock
  BY DEF ExecutorIInv, CallReadsOneBlock
<1> QED BY ExecutorInitIInv, <1>1, <1>2, PTL DEF ExecutorSpec
=============================================================================
