------------------------------- MODULE JsonRpc -------------------------------
(***************************************************************************)
(* The JSON-RPC server of the light client (lightclientservice/src/rpc.rs) *)
(* with the handlers and the client that are generated for it (gen.rs):    *)
(* a caller sends a request or a batch over its connection, each request   *)
(* becomes a call of a method, and most calls are posted to the Starknet   *)
(* node as a request of the server's own.                                  *)
(*                                                                         *)
(* The value of an argument is the argument it was given for: what the     *)
(* properties tell apart is where each argument ends up.  What is verified *)
(* about getStorageAt and call is in LightClient, the documents that       *)
(* arguments and results are in RpcWire; here a value is of the type it is *)
(* read as, or it is not.                                                  *)
(***************************************************************************)
EXTENDS Integers, Sequences, FiniteSets, Functions

CONSTANTS
    Conns,          \* the connections of callers
    Bodies(_),      \* what the caller of a connection may send
    MaxBatch,       \* the longest batch that Bodies has
    Replies,        \* how the node may answer
    None            \* no id

VARIABLES
    server,  \* Server: "serving", "stopping" after the signal, "stopped"
    conn,    \* handle_request, by connection
    posts,   \* what the server has sent to the node, in that order
    ran      \* what the node has run of it, in that order

vars == <<server, conn, posts, ran>>

Arg(name, type) == [name |-> name, type |-> type]
-----------------------------------------------------------------------------
(* The arguments of the methods (trait Rpc): their names and types. *)
block_id == Arg("block_id", "BlockId")
contract_address == Arg("contract_address", "Felt")
keys == Arg("keys", "StorageKeys")
transaction_hash == Arg("transaction_hash", "Felt")
declare_transaction == Arg("declare_transaction", "BroadcastedDeclareTxn")
deploy_account_transaction == Arg("deploy_account_transaction", "BroadcastedDeployAccountTxn")
invoke_transaction == Arg("invoke_transaction", "BroadcastedInvokeTxn")
request == Arg("request", "FunctionCall")
requests == Arg("request", "BroadcastedTxns")
estimate_flags == Arg("simulation_flags", "SimulationFlagForEstimateFees")
message == Arg("message", "MsgFromL1")
class_hash == Arg("class_hash", "Felt")
filter == Arg("filter", "GetEventsFilter")
key == Arg("key", "StorageKey")
index == Arg("index", "GetTransactionByBlockIdAndIndexIndex")
transactions == Arg("transactions", "BroadcastedTxns")
simulation_flags == Arg("simulation_flags", "SimulationFlags")

Parameters == [pathfinder_getProof |-> <<block_id, contract_address, keys>>,
    pathfinder_getTxStatus |-> <<transaction_hash>>, pathfinder_version |-> <<>>,
    starknet_addDeclareTransaction |-> <<declare_transaction>>,
    starknet_addDeployAccountTransaction |-> <<deploy_account_transaction>>,
    starknet_addInvokeTransaction |-> <<invoke_transaction>>,
    starknet_blockHashAndNumber |-> <<>>, starknet_blockNumber |-> <<>>, starknet_call |-> <<request,
    block_id>>, starknet_chainId |-> <<>>, starknet_estimateFee |-> <<requests, estimate_flags,
    block_id>>, starknet_estimateMessageFee |-> <<message, block_id>>,
    starknet_getBlockTransactionCount |-> <<block_id>>,
    starknet_getBlockWithTxHashes |-> <<block_id>>, starknet_getBlockWithTxs |-> <<block_id>>,
    starknet_getClass |-> <<block_id, class_hash>>, starknet_getClassAt |-> <<block_id,
    contract_address>>, starknet_getClassHashAt |-> <<block_id, contract_address>>,
    starknet_getEvents |-> <<filter>>, starknet_getNonce |-> <<block_id, contract_address>>,
    starknet_getStateUpdate |-> <<block_id>>, starknet_getStorageAt |-> <<contract_address, key,
    block_id>>, starknet_getTransactionByBlockIdAndIndex |-> <<block_id, index>>,
    starknet_getTransactionByHash |-> <<transaction_hash>>,
    starknet_getTransactionReceipt |-> <<transaction_hash>>,
    starknet_getTransactionStatus |-> <<transaction_hash>>,
    starknet_simulateTransactions |-> <<block_id, transactions, simulation_flags>>,
    starknet_specVersion |-> <<>>, starknet_syncing |-> <<>>,
    starknet_traceBlockTransactions |-> <<block_id>>,
    starknet_traceTransaction |-> <<transaction_hash>>]
-----------------------------------------------------------------------------
(* Params, and what reads them. *)

Named(ps) == [form |-> "object", fields |-> [n \in {p.name : p \in Range(ps)} |->
                CHOOSE p \in Range(ps) : p.name = n]]
Positional(ps) == [form |-> "array", items |-> ps]
Bare(p) == [form |-> "value", value |-> p]
Absent == [form |-> "null"]

Refuse(code) == [refused |-> code]
CallWithout(method) == [method |-> method, args |-> <<>>]

SameTypes(values, ps) ==
    /\ Len(values) = Len(ps)
    /\ \A i \in DOMAIN ps : values[i].type = ps[i].type

\* The values given for ps: ArgByName reads an object or an array, ArgByPos,
\* where it has a single field, what is neither.
Given(params, ps) ==
    CASE params.form = "object" /\ \A i \in DOMAIN ps : ps[i].name \in DOMAIN params.fields
            -> [i \in DOMAIN ps |-> params.fields[ps[i].name]]
      [] params.form = "array" -> params.items
      [] params.form = "value" /\ Len(ps) = 1 -> <<params.value>>
      [] OTHER -> <<>>

Call(method, params, ps) ==
    LET values == Given(params, ps) IN
    IF SameTypes(values, ps)
    THEN [method |-> method,
          args |-> [n \in {p.name : p \in Range(ps)} |->
                        values[CHOOSE i \in DOMAIN ps : ps[i].name = n]]]
    ELSE Refuse(-32602)
-----------------------------------------------------------------------------
(* Handlers: the call that a request asks for. *)
handle_getProof(params) == Call("getProof", params, <<block_id, contract_address, keys>>)
handle_getTxStatus(params) == Call("getTxStatus", params, <<transaction_hash>>)
handle_version(params) == CallWithout("version")
handle_addDeclareTransaction(params) == Call("addDeclareTransaction", params,
    <<declare_transaction>>)
handle_addDeployAccountTransaction(params) == Call("addDeployAccountTransaction", params,
    <<deploy_account_transaction>>)
handle_addInvokeTransaction(params) == Call("addInvokeTransaction", params,
    <<invoke_transaction>>)
handle_blockHashAndNumber(params) == CallWithout("blockHashAndNumber")
handle_blockNumber(params) == CallWithout("blockNumber")
handle_call(params) == Call("call", params, <<request, block_id>>)
handle_chainId(params) == CallWithout("chainId")
handle_estimateFee(params) == Call("estimateFee", params, <<requests, estimate_flags,
    block_id>>)
handle_estimateMessageFee(params) == Call("estimateMessageFee", params, <<message,
    block_id>>)
handle_getBlockTransactionCount(params) == Call("getBlockTransactionCount", params,
    <<block_id>>)
handle_getBlockWithTxHashes(params) == Call("getBlockWithTxHashes", params, <<block_id>>)
handle_getBlockWithTxs(params) == Call("getBlockWithTxs", params, <<block_id>>)
handle_getClass(params) == Call("getClass", params, <<block_id, class_hash>>)
handle_getClassAt(params) == Call("getClassAt", params, <<block_id, contract_address>>)
handle_getClassHashAt(params) == Call("getClassHashAt", params, <<block_id,
    contract_address>>)
handle_getEvents(params) == Call("getEvents", params, <<filter>>)
handle_getNonce(params) == Call("getNonce", params, <<block_id, contract_address>>)
handle_getStateUpdate(params) == Call("getStateUpdate", params, <<block_id>>)
handle_getStorageAt(params) == Call("getStorageAt", params, <<contract_address, key,
    block_id>>)
handle_getTransactionByBlockIdAndIndex(params) == Call("getTransactionByBlockIdAndIndex",
    params, <<block_id, index>>)
handle_getTransactionByHash(params) == Call("getTransactionByHash", params,
    <<transaction_hash>>)
handle_getTransactionReceipt(params) == Call("getTransactionReceipt", params,
    <<transaction_hash>>)
handle_getTransactionStatus(params) == Call("getTransactionStatus", params,
    <<transaction_hash>>)
handle_simulateTransactions(params) == Call("simulateTransactions", params, <<block_id,
    transactions, simulation_flags>>)
handle_specVersion(params) == CallWithout("specVersion")
handle_syncing(params) == CallWithout("syncing")
handle_traceBlockTransactions(params) == Call("traceBlockTransactions", params,
    <<block_id>>)
handle_traceTransaction(params) == Call("traceTransaction", params, <<transaction_hash>>)

handle(method, params) ==
    CASE method = "pathfinder_getProof" -> handle_getProof(params)
      [] method = "pathfinder_getTxStatus" -> handle_getTxStatus(params)
      [] method = "pathfinder_version" -> handle_version(params)
      [] method = "starknet_addDeclareTransaction" -> handle_addDeclareTransaction(params)
      [] method = "starknet_addDeployAccountTransaction" -> handle_addDeployAccountTransaction(params)
      [] method = "starknet_addInvokeTransaction" -> handle_addInvokeTransaction(params)
      [] method = "starknet_blockHashAndNumber" -> handle_blockHashAndNumber(params)
      [] method = "starknet_blockNumber" -> handle_blockNumber(params)
      [] method = "starknet_call" -> handle_call(params)
      [] method = "starknet_chainId" -> handle_chainId(params)
      [] method = "starknet_estimateFee" -> handle_estimateFee(params)
      [] method = "starknet_estimateMessageFee" -> handle_estimateMessageFee(params)
      [] method = "starknet_getBlockTransactionCount" -> handle_getBlockTransactionCount(params)
      [] method = "starknet_getBlockWithTxHashes" -> handle_getBlockWithTxHashes(params)
      [] method = "starknet_getBlockWithTxs" -> handle_getBlockWithTxs(params)
      [] method = "starknet_getClass" -> handle_getClass(params)
      [] method = "starknet_getClassAt" -> handle_getClassAt(params)
      [] method = "starknet_getClassHashAt" -> handle_getClassHashAt(params)
      [] method = "starknet_getEvents" -> handle_getEvents(params)
      [] method = "starknet_getNonce" -> handle_getNonce(params)
      [] method = "starknet_getStateUpdate" -> handle_getStateUpdate(params)
      [] method = "starknet_getStorageAt" -> handle_getStorageAt(params)
      [] method = "starknet_getTransactionByBlockIdAndIndex" -> handle_getTransactionByBlockIdAndIndex(params)
      [] method = "starknet_getTransactionByHash" -> handle_getTransactionByHash(params)
      [] method = "starknet_getTransactionReceipt" -> handle_getTransactionReceipt(params)
      [] method = "starknet_getTransactionStatus" -> handle_getTransactionStatus(params)
      [] method = "starknet_simulateTransactions" -> handle_simulateTransactions(params)
      [] method = "starknet_specVersion" -> handle_specVersion(params)
      [] method = "starknet_syncing" -> handle_syncing(params)
      [] method = "starknet_traceBlockTransactions" -> handle_traceBlockTransactions(params)
      [] method = "starknet_traceTransaction" -> handle_traceTransaction(params)
      [] OTHER -> Refuse(-32601)
-----------------------------------------------------------------------------
(* Client: the request that a call sends to the node. *)
Post(method, params) == [method |-> method, params |-> params]

getProof(args) == Post("pathfinder_getProof", <<args.block_id, args.contract_address,
    args.keys>>)
getTxStatus(args) == Post("pathfinder_getTxStatus", <<args.transaction_hash>>)
version(args) == Post("pathfinder_version", <<>>)
addDeclareTransaction(args) == Post("starknet_addDeclareTransaction",
    <<args.declare_transaction>>)
addDeployAccountTransaction(args) == Post("starknet_addDeployAccountTransaction",
    <<args.deploy_account_transaction>>)
addInvokeTransaction(args) == Post("starknet_addInvokeTransaction",
    <<args.invoke_transaction>>)
blockHashAndNumber(args) == Post("starknet_blockHashAndNumber", <<>>)
blockNumber(args) == Post("starknet_blockNumber", <<>>)
chainId(args) == Post("starknet_chainId", <<>>)
estimateFee(args) == Post("starknet_estimateFee", <<args.request, args.simulation_flags,
    args.block_id>>)
estimateMessageFee(args) == Post("starknet_estimateMessageFee", <<args.message,
    args.block_id>>)
getBlockTransactionCount(args) == Post("starknet_getBlockTransactionCount",
    <<args.block_id>>)
getBlockWithTxHashes(args) == Post("starknet_getBlockWithTxHashes", <<args.block_id>>)
getBlockWithTxs(args) == Post("starknet_getBlockWithTxs", <<args.block_id>>)
\* Mutant: the arguments are swapped.
getClassSwapped(args) == Post("starknet_getClass", <<args.class_hash, args.block_id>>)
getClass(args) == Post("starknet_getClass", <<args.block_id, args.class_hash>>)
getClassAt(args) == Post("starknet_getClassAt", <<args.block_id, args.contract_address>>)
getClassHashAt(args) == Post("starknet_getClassHashAt", <<args.block_id,
    args.contract_address>>)
getEvents(args) == Post("starknet_getEvents", <<args.filter>>)
getNonce(args) == Post("starknet_getNonce", <<args.block_id, args.contract_address>>)
getStateUpdate(args) == Post("starknet_getStateUpdate", <<args.block_id>>)
getStorageAt(args) == Post("starknet_getStorageAt", <<args.contract_address, args.key,
    args.block_id>>)
getTransactionByBlockIdAndIndex(args) == Post("starknet_getTransactionByBlockIdAndIndex",
    <<args.block_id, args.index>>)
getTransactionByHash(args) == Post("starknet_getTransactionByHash",
    <<args.transaction_hash>>)
getTransactionReceipt(args) == Post("starknet_getTransactionReceipt",
    <<args.transaction_hash>>)
getTransactionStatus(args) == Post("starknet_getTransactionStatus",
    <<args.transaction_hash>>)
simulateTransactions(args) == Post("starknet_simulateTransactions", <<args.block_id,
    args.transactions, args.simulation_flags>>)
specVersion(args) == Post("starknet_specVersion", <<>>)
syncing(args) == Post("starknet_syncing", <<>>)
traceBlockTransactions(args) == Post("starknet_traceBlockTransactions", <<args.block_id>>)
traceTransaction(args) == Post("starknet_traceTransaction", <<args.transaction_hash>>)

Forward(method, args) ==
    CASE method = "getProof" -> getProof(args)
      [] method = "getTxStatus" -> getTxStatus(args)
      [] method = "version" -> version(args)
      [] method = "addDeclareTransaction" -> addDeclareTransaction(args)
      [] method = "addDeployAccountTransaction" -> addDeployAccountTransaction(args)
      [] method = "addInvokeTransaction" -> addInvokeTransaction(args)
      [] method = "blockHashAndNumber" -> blockHashAndNumber(args)
      [] method = "blockNumber" -> blockNumber(args)
      [] method = "chainId" -> chainId(args)
      [] method = "estimateFee" -> estimateFee(args)
      [] method = "estimateMessageFee" -> estimateMessageFee(args)
      [] method = "getBlockTransactionCount" -> getBlockTransactionCount(args)
      [] method = "getBlockWithTxHashes" -> getBlockWithTxHashes(args)
      [] method = "getBlockWithTxs" -> getBlockWithTxs(args)
      [] method = "getClass" -> getClass(args)
      [] method = "getClassAt" -> getClassAt(args)
      [] method = "getClassHashAt" -> getClassHashAt(args)
      [] method = "getEvents" -> getEvents(args)
      [] method = "getNonce" -> getNonce(args)
      [] method = "getStateUpdate" -> getStateUpdate(args)
      [] method = "getTransactionByBlockIdAndIndex" -> getTransactionByBlockIdAndIndex(args)
      [] method = "getTransactionByHash" -> getTransactionByHash(args)
      [] method = "getTransactionReceipt" -> getTransactionReceipt(args)
      [] method = "getTransactionStatus" -> getTransactionStatus(args)
      [] method = "simulateTransactions" -> simulateTransactions(args)
      [] method = "specVersion" -> specVersion(args)
      [] method = "syncing" -> syncing(args)
      [] method = "traceBlockTransactions" -> traceBlockTransactions(args)
      [] method = "traceTransaction" -> traceTransaction(args)
-----------------------------------------------------------------------------
(* What a call does: the posts it makes one after the other, and which of    *)
(* them brings its result.  "execute" is what call does in a blocking task.  *)

Latest == Arg("latest", "BlockId")
Resolved == Arg("resolved", "BlockId")  \* of the block that is verified

Plan(steps, result) == [steps |-> steps, result |-> result]

\* resolve_block_id asks the node for a block only if it is an earlier one.
StorageReads(args) ==
    LET of == [block_id |-> Resolved, contract_address |-> args.contract_address,
               keys |-> args.key, key |-> args.key]
        reads == <<getStorageAt(of), getProof(of)>>
    IN  {Plan(reads, 1), Plan(<<getBlockWithTxHashes([block_id |-> args.block_id])>> \o reads, 2)}

Execute == [method |-> "execute", params |-> <<>>]
Execution == Plan(<<getBlockWithTxHashes([block_id |-> Latest]), Execute>>, 2)

Plans(method, args) ==
    CASE method = "getStorageAt" -> StorageReads(args)
      [] method = "call" -> {Execution}
      [] OTHER -> {Plan(<<Forward(method, args)>>, 1)}

Verified == {"getStorageAt", "call"}
-----------------------------------------------------------------------------
(* Connections. *)

NoPlan == Plan(<<>>, 0)
Idle == [pc |-> "idle", body |-> <<>>, next |-> 1, method |-> "", plan |-> NoPlan,
         step |-> 1, answers |-> <<>>]

Init ==
    /\ server = "serving"
    /\ conn = [c \in Conns |-> Idle]
    /\ posts = <<>>
    /\ ran = <<>>

Current(c) == conn[c].body[conn[c].next]

\* Mutant: notifications are answered as well.
AnswerAll(c, what) ==
    Append(conn[c].answers, [id |-> Current(c).id, to |-> conn[c].next, what |-> what])

\* The answer to a request: to a notification there is none.
Answer(c, what) ==
    IF Current(c).id = None THEN conn[c].answers
    ELSE Append(conn[c].answers, [id |-> Current(c).id, to |-> conn[c].next, what |-> what])

\* The response of handle; a batch goes on with its next request.
Finished(c, what) ==
    [conn[c] EXCEPT !.pc = "handling", !.next = @ + 1, !.plan = NoPlan, !.step = 1,
                    !.method = "", !.answers = Answer(c, what)]

Accept(c, body) ==
    /\ server = "serving"
    /\ conn[c].pc = "idle"
    /\ conn' = [conn EXCEPT ![c] = [Idle EXCEPT !.pc = "handling", !.body = body]]
    /\ UNCHANGED <<server, posts, ran>>

Start(c) ==
    /\ conn[c].pc = "handling"
    /\ conn[c].next \in DOMAIN conn[c].body
    /\ LET called == handle(Current(c).method, Current(c).params) IN
        \/ /\ "refused" \in DOMAIN called
           /\ conn' = [conn EXCEPT ![c] = Finished(c, called)]
        \/ /\ "method" \in DOMAIN called
           /\ \E plan \in Plans(called.method, called.args) :
                conn' = [conn EXCEPT ![c].pc = "calling", ![c].method = called.method,
                                     ![c].plan = plan]
    /\ UNCHANGED <<server, posts, ran>>

\* resolve_block_id refuses the pending block.
RefuseBlock(c) ==
    /\ conn[c].pc = "calling"
    /\ conn[c].method = "getStorageAt"
    /\ conn[c].step = 1
    /\ conn' = [conn EXCEPT ![c] = Finished(c, [failed |-> -1])]
    /\ UNCHANGED <<server, posts, ran>>

\* Mutant: the server does not wait for the node.
SendAndGoOn(c) ==
    /\ conn[c].pc = "calling"
    /\ conn[c].plan.steps[conn[c].step] # Execute
    /\ posts' = Append(posts, [from |-> c, to |-> conn[c].next, step |-> conn[c].step,
                               request |-> conn[c].plan.steps[conn[c].step], failed |-> FALSE])
    /\ conn' = [conn EXCEPT ![c] = Finished(c, [result |-> conn[c].plan.steps[conn[c].step]])]
    /\ UNCHANGED <<server, ran>>

Send(c) ==
    /\ conn[c].pc = "calling"
    /\ conn[c].plan.steps[conn[c].step] # Execute
    /\ posts' = Append(posts, [from |-> c, to |-> conn[c].next, step |-> conn[c].step,
                               request |-> conn[c].plan.steps[conn[c].step], failed |-> FALSE])
    /\ conn' = [conn EXCEPT ![c].pc = "waiting"]
    /\ UNCHANGED <<server, ran>>

PostOf(c) ==
    CHOOSE i \in DOMAIN posts :
        /\ posts[i].from = c /\ posts[i].to = conn[c].next
        /\ posts[i].step = conn[c].step /\ ~posts[i].failed

\* The node runs a request: in whatever order it gets them, and however long
\* after the server gave up waiting.
NodeRuns(i) ==
    /\ i \in DOMAIN posts \ Range(ran)
    /\ ran' = Append(ran, i)
    /\ UNCHANGED <<server, conn, posts>>

\* The result of a call is one post's result, or the return data of an
\* execution; the last step done, the call is.
Advance(c) ==
    IF conn[c].step < Len(conn[c].plan.steps)
    THEN [conn[c] EXCEPT !.pc = "calling", !.step = @ + 1]
    ELSE Finished(c, [result |-> conn[c].plan.steps[conn[c].plan.result]])

\* How a client method reads the node's answer: an error first, then a result
\* that must be of the type the method returns.
Read(reply) ==
    CASE reply \in {"error", "both"} -> [failed |-> 24]
      [] reply = "not_json" -> [failed |-> 5001]
      [] reply = "other" -> [failed |-> 5002]
      [] reply = "neither" -> [failed |-> 5003]
      [] reply = "result" -> [read |-> TRUE]

NodeReplies(c, reply) ==
    /\ conn[c].pc = "waiting"
    /\ PostOf(c) \in Range(ran)
    /\ conn' = [conn EXCEPT ![c] =
            IF "failed" \in DOMAIN Read(reply) THEN Finished(c, Read(reply)) ELSE Advance(c)]
    /\ UNCHANGED <<server, posts, ran>>

\* Mutant: a client without timeouts.
NeverTimesOut(c) == FALSE

\* Mutant: the client tries once more.
TimesOutOnce(c) ==
    /\ conn[c].pc = "waiting"
    /\ posts' = [posts EXCEPT ![PostOf(c)].failed = TRUE]
    /\ conn' = [conn EXCEPT ![c] =
            IF \E i \in DOMAIN posts : posts[i].from = c /\ posts[i].to = conn[c].next /\ posts[i].failed
            THEN Finished(c, [failed |-> 4002]) ELSE [conn[c] EXCEPT !.pc = "calling"]]
    /\ UNCHANGED <<server, ran>>

\* The request cannot be sent, or 30 seconds are over.
TimesOut(c) ==
    /\ conn[c].pc = "waiting"
    /\ posts' = [posts EXCEPT ![PostOf(c)].failed = TRUE]
    /\ conn' = [conn EXCEPT ![c] = Finished(c, [failed |-> 4002])]
    /\ UNCHANGED <<server, ran>>

\* The block is pending or another one, or the proof does not verify.
Reject(c) ==
    /\ conn[c].pc = "waiting"
    /\ conn[c].method \in Verified
    /\ conn[c].step # conn[c].plan.result
    /\ PostOf(c) \in Range(ran)
    /\ conn' = [conn EXCEPT ![c] = Finished(c, [failed |-> -32700])]
    /\ UNCHANGED <<server, posts, ran>>

\* The blocking task ends.  Its client has no timeout: it may never end.
ExecutionEnds(c) ==
    /\ conn[c].pc = "calling"
    /\ conn[c].plan.steps[conn[c].step] = Execute
    /\ \/ conn' = [conn EXCEPT ![c] = Advance(c)]
       \/ conn' = [conn EXCEPT ![c] = Finished(c, [failed |-> 500])]
    /\ UNCHANGED <<server, posts, ran>>

Respond(c) ==
    /\ conn[c].pc = "handling"
    /\ conn[c].next > Len(conn[c].body)
    /\ conn' = [conn EXCEPT ![c].pc = "responded"]
    /\ UNCHANGED <<server, posts, ran>>

\* The caller goes away, and its handler is dropped where it awaits.
Disconnect(c) ==
    /\ conn[c].pc \in {"calling", "waiting"}
    /\ conn' = [conn EXCEPT ![c].pc = "gone"]
    /\ UNCHANGED <<server, posts, ran>>

\* Server::stop: no connection is accepted any more, and those in progress end.
Stop ==
    /\ server = "serving"
    /\ server' = "stopping"
    /\ UNCHANGED <<conn, posts, ran>>

\* Mutant: connections that are idle are waited for as well.
StoppedAfterAll ==
    /\ server = "stopping"
    /\ \A c \in Conns : conn[c].pc \in {"responded", "gone"}
    /\ server' = "stopped"
    /\ UNCHANGED <<conn, posts, ran>>

Stopped ==
    /\ server = "stopping"
    /\ \A c \in Conns : conn[c].pc \in {"idle", "responded", "gone"}
    /\ server' = "stopped"
    /\ UNCHANGED <<conn, posts, ran>>

ServerSteps(c) ==
    Start(c) \/ Send(c) \/ TimesOut(c) \/ RefuseBlock(c) \/ Reject(c) \/ Respond(c)

Next ==
    \/ \E c \in Conns :
        \/ \E body \in Bodies(c) : Accept(c, body)
        \/ ServerSteps(c)
        \/ \E reply \in Replies : NodeReplies(c, reply)
        \/ ExecutionEnds(c)
        \/ Disconnect(c)
    \/ \E i \in DOMAIN posts : NodeRuns(i)
    \/ Stop
    \/ Stopped

\* The runtime goes on with what is ready, timers expire, and the signal to
\* stop is obeyed.  Nothing is assumed of the node, the callers and the
\* executions.
Fairness ==
    /\ \A c \in Conns : WF_vars(Start(c)) /\ WF_vars(Send(c)) /\ WF_vars(TimesOut(c)) /\ WF_vars(Respond(c))
    /\ WF_vars(Stopped)

Spec == Init /\ [][Next]_vars /\ Fairness
-----------------------------------------------------------------------------
(* What callers send.  A sound request gives every argument, by name, by     *)
(* position, or as the params themselves if it is the only one.              *)

Unknown == Arg("unknown", "Unknown")
SoundParams(ps) ==
    {Named(ps), Named(Append(ps, Unknown)), Positional(ps)}
    \cup (IF Len(ps) = 1 THEN {Bare(ps[1])} ELSE {})
    \cup (IF ps = <<>> THEN {Absent, Positional(<<Unknown>>)} ELSE {})
UnsoundParams(ps) ==
    IF ps = <<>> THEN {}
    ELSE {Absent, Bare(Unknown), Named(Tail(ps)), Positional(Tail(ps)), Positional(Append(ps, Unknown)),
          Positional([ps EXCEPT ![1] = Unknown])}

Sound(r) == r.method \in DOMAIN Parameters /\ r.params \in SoundParams(Parameters[r.method])
Asked(r) == Post(r.method, Parameters[r.method])

RequestsOf(method, ids) ==
    [method : {method}, id : ids,
     params : SoundParams(Parameters[method]) \cup UnsoundParams(Parameters[method])]
NoSuchMethod == [method |-> "starknet_unknown", params |-> Absent, id |-> 1]

ASSUME JsonRpcAssumption ==
    /\ MaxBatch \in Nat
    /\ Replies \subseteq {"result", "error", "both", "not_json", "other", "neither"}
    /\ \A c \in Conns : \A body \in Bodies(c) :
        /\ body \in Seq(Range(body)) /\ Len(body) <= MaxBatch
        /\ \A r \in Range(body) : r.method \in DOMAIN Parameters =>
                r.params \in SoundParams(Parameters[r.method])
                                \cup UnsoundParams(Parameters[r.method])
-----------------------------------------------------------------------------
(* Properties. *)

RequestOf(post) == conn[post.from].body[post.to]

\* What reaches the node is the call that was asked for: the same method with
\* every argument in its place, whether the caller gave them by name or by
\* position.  The call that verifies asks for the same contract and key.  Of
\* starknet_call it says only that the latest block is asked for: the call itself
\* runs in the executor, and its block id is dropped (Context::call).
SameCallForwarded ==
    \A i \in DOMAIN posts :
        LET r == RequestOf(posts[i])  p == posts[i].request IN
        CASE r.method = "starknet_getStorageAt" ->
                /\ p.method = "starknet_getStorageAt" =>
                        p.params[1] = contract_address /\ p.params[2] = key
                /\ p.method = "pathfinder_getProof" =>
                        p.params[2] = contract_address /\ p.params[3] = key
          [] r.method = "starknet_call" -> p = getBlockWithTxHashes([block_id |-> Latest])
          [] OTHER -> Sound(r) /\ p = Asked(r)

\* The response has one answer for every request with an id and none for a
\* notification, in the order of the requests, and a result is the result of
\* the call that its request asked for.
AnswersMatchRequests ==
    \A c \in Conns : conn[c].pc = "responded" =>
        LET body == conn[c].body  answers == conn[c].answers IN
        /\ {answers[i].to : i \in DOMAIN answers} = {k \in DOMAIN body : body[k].id # None}
        /\ \A i, j \in DOMAIN answers : i < j => answers[i].to < answers[j].to
        /\ \A i \in DOMAIN answers :
            LET a == answers[i]  r == body[a.to] IN
            /\ a.id = r.id
            /\ "result" \in DOMAIN a.what /\ r.method \notin {"starknet_call", "starknet_getStorageAt"} =>
                    a.what.result = Asked(r)

PostsFor(c, k) == {i \in DOMAIN posts : posts[i].from = c /\ posts[i].to = k}

\* The calls that are forwarded, and what has become of them.
ForwardedCalls == {<<c, k>> : c \in Conns, k \in 1 .. MaxBatch}
IsForwarded(c, k) ==
    /\ k \in DOMAIN conn[c].body
    /\ conn[c].body[k].method \notin {"starknet_call", "starknet_getStorageAt"}
\* What the answer says, or for a notification what the client was told.
WhatIsSaid(c, k) ==
    LET said == {conn[c].answers[i].what : i \in {j \in DOMAIN conn[c].answers : conn[c].answers[j].to = k}}
        unsaid == said = {}
    IN  IF (\E what \in said : "refused" \in DOMAIN what) \/ (unsaid /\ PostsFor(c, k) = {}) THEN "refused"
        ELSE IF [failed |-> 4002] \in said \/ (unsaid /\ \E i \in PostsFor(c, k) : posts[i].failed) THEN "failed"
        ELSE "answered"
StateOf(c, k) ==
    IF ~IsForwarded(c, k) \/ conn[c].next < k THEN "none"
    ELSE IF conn[c].next > k THEN WhatIsSaid(c, k)
    ELSE CASE conn[c].pc \in {"calling", "waiting"} -> "open"
           [] conn[c].pc = "gone" -> "dropped"
           [] OTHER -> "none"

RC == INSTANCE RemoteCall WITH
    Calls <- ForwardedCalls,
    state <- [x \in ForwardedCalls |-> StateOf(x[1], x[2])],
    runs <- [x \in ForwardedCalls |->
                IF IsForwarded(x[1], x[2]) THEN Cardinality(PostsFor(x[1], x[2]) \cap Range(ran)) ELSE 0]

\* The server is a remote call of the node's methods: a transaction that is
\* forwarded runs at most once, also in a batch, when the node is late and
\* when the caller goes away; and the answer tells what has become of it: if
\* it was refused the node never runs it, with any other answer it has, unless
\* the answer is that the request failed (4002), after which it still may.
ImplementsRemoteCall == RC!Spec

Position(i) == CHOOSE n \in DOMAIN ran : ran[n] = i

\* The node runs the requests of a batch in the order of the batch: a later one
\* is ahead of an earlier one only if the earlier one had timed out.
BatchRunsInOrder ==
    \A i, j \in DOMAIN posts :
        /\ i < j /\ posts[i].from = posts[j].from /\ j \in Range(ran)
        /\ ~posts[i].failed
        => i \in Range(ran) /\ Position(i) < Position(j)

Executes(c) == \E i \in DOMAIN conn[c].body : conn[c].body[i].method = "starknet_call"
Ended(c) == conn[c].pc \in {"idle", "responded", "gone"}

\* Whatever the node does, a caller is answered, unless its batch executes a
\* call: the executor's client waits for the node without a limit.
EveryBodyIsAnswered == \A c \in Conns : conn[c].pc = "handling" /\ ~Executes(c) ~> Ended(c)

\* A server told to stop does, unless a call is being executed.
StopEnds == server = "stopping" ~> server = "stopped" \/ \E c \in Conns : Executes(c)
=============================================================================
