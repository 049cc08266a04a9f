----------------------------- MODULE JsonRpc_proofs -----------------------------
(***************************************************************************)
(* What the server promises its callers and its node, for any batches,     *)
(* connections and interleavings: the node gets the call that was asked    *)
(* for, each answer goes to a request of its body, in order and once, and  *)
(* the requests of a batch run in its order.  And it implements RemoteCall.*)
(***************************************************************************)
EXTENDS JsonRpc, SequenceTheorems, FiniteSetTheorems, TLAPS

(* Calls: what a handler makes of the params, and the client of a call.    *)

Args == {block_id, contract_address, keys, transaction_hash, declare_transaction,
         deploy_account_transaction, invoke_transaction, request, requests, estimate_flags,
         message, class_hash, filter, key, index, transactions, simulation_flags,
         Unknown, Latest, Resolved}

\* The parameters of a method can be told apart by name.
Distinct(ps) ==
    /\ \A i, j \in DOMAIN ps : ps[i].name = ps[j].name => i = j
    /\ \A i \in DOMAIN ps : ps[i].name # "unknown" /\ ps[i].type # "Unknown"

\* The arguments of a call that was given all of them.
ArgsOf(ps) ==
    [n \in {p.name : p \in Range(ps)} |-> ps[CHOOSE i \in DOMAIN ps : ps[i].name = n]]

\* An object with the fields of ps, and others, gives them.
LEMMA GivenByName ==
    ASSUME NEW ps \in Seq(Args), Distinct(ps), NEW params,
           params \in {Named(ps), Named(Append(ps, Unknown))}
    PROVE  Given(params, ps) = ps
<1> DEFINE qs == IF params = Named(ps) THEN ps ELSE Append(ps, Unknown)
<1>1. params = Named(qs)
  OBVIOUS
<1>2. qs \in Seq(Args) /\ \A i \in DOMAIN ps : i \in DOMAIN qs /\ qs[i] = ps[i]
  <2>1. Unknown \in Args
    BY DEF Args
  <2>2. Append(ps, Unknown) \in Seq(Args) /\ \A i \in 1 .. Len(ps) : Append(ps, Unknown)[i] = ps[i]
    BY <2>1, AppendProperties
  <2>3. Len(Append(ps, Unknown)) = Len(ps) + 1
    BY <2>1, AppendProperties
  <2> HIDE DEF Unknown
  <2> QED BY <2>2, <2>3
<1>3. \A i \in DOMAIN ps : \A j \in DOMAIN qs : qs[j].name = ps[i].name => j = i
  <2> TAKE i \in DOMAIN ps
  <2> TAKE j \in DOMAIN qs
  <2>1. CASE j \in DOMAIN ps
    BY <2>1, <1>2 DEF Distinct
  <2>2. CASE j \notin DOMAIN ps
    <3>1. qs[j] = Unknown
      BY <2>2
    <3> QED BY <3>1 DEF Unknown, Arg, Distinct
  <2> QED BY <2>1, <2>2
<1> HIDE DEF qs
<1>4. ASSUME NEW i \in DOMAIN ps
      PROVE  ps[i].name \in DOMAIN params.fields /\ params.fields[ps[i].name] = ps[i]
  <2> DEFINE n == ps[i].name
             names == {p.name : p \in Range(qs)}
  <2>1. ps[i] \in Range(qs)
    BY <1>2 DEF Range
  <2>2. \A p \in Range(qs) : p.name = n => p = ps[i]
    BY <1>2, <1>3 DEF Range
  <2>3. (CHOOSE p \in Range(qs) : p.name = n) = ps[i]
    BY <2>1, <2>2
  <2>4. n \in names
    BY <2>1
  <2>5. params.fields = [m \in names |-> CHOOSE p \in Range(qs) : p.name = m]
    BY <1>1 DEF Named
  <2> QED BY <2>3, <2>4, <2>5
<1>5. params.form = "object"
  BY <1>1 DEF Named
<1>6. Given(params, ps) = [i \in DOMAIN ps |-> params.fields[ps[i].name]]
  BY <1>4, <1>5 DEF Given
<1>7. \A i \in DOMAIN ps : Given(params, ps)[i] = ps[i]
  BY <1>4, <1>6
<1> QED BY <1>6, <1>7

\* A handler makes the call with every argument in its place, or refuses it.
LEMMA CallOf ==
    ASSUME NEW ps \in Seq(Args), ps # <<>>, Distinct(ps), NEW method, NEW params,
           params \in SoundParams(ps) \cup UnsoundParams(ps)
    PROVE  \/ Call(method, params, ps) = Refuse(-32602)
           \/ /\ params \in SoundParams(ps)
              /\ Call(method, params, ps) = [method |-> method, args |-> ArgsOf(ps)]
<1>0. Len(ps) \in Nat /\ Len(ps) > 0 /\ DOMAIN ps = 1 .. Len(ps) /\ ps[1] \in Args
  <2>1. Len(ps) # 0
    BY EmptySeq
  <2> QED BY <2>1
<1>1. CASE params \in SoundParams(ps)
  <2>1. Given(params, ps) = ps
    <3>1. CASE params \in {Named(ps), Named(Append(ps, Unknown))}
      BY <3>1, GivenByName
    <3>2. CASE params = Positional(ps)
      BY <3>2 DEF Positional, Given
    <3>3. CASE Len(ps) = 1 /\ params = Bare(ps[1])
      BY <3>3, <1>0 DEF Bare, Given
    <3> QED BY <3>1, <3>2, <3>3, <1>1 DEF SoundParams
  <2>2. SameTypes(Given(params, ps), ps)
    BY <2>1 DEF SameTypes
  <2> QED BY <2>1, <2>2, <1>1 DEF Call, ArgsOf
<1>2. CASE params \in UnsoundParams(ps)
  <2>1. ~SameTypes(Given(params, ps), ps)
    <3>0. ~SameTypes(<<>>, ps)
      BY <1>0 DEF SameTypes
    <3>1. CASE params = Absent
      BY <3>0, <3>1 DEF Absent, Given
    <3>2. CASE params = Bare(Unknown)
      <4>1. CASE Len(ps) = 1
        <5>1. Given(params, ps) = <<Unknown>>
          BY <3>2, <4>1 DEF Bare, Given
        <5>2. 1 \in DOMAIN ps /\ <<Unknown>>[1].type = "Unknown"
          BY <1>0 DEF Unknown, Arg
        <5> QED BY <5>1, <5>2 DEF SameTypes, Distinct
      <4>2. CASE Len(ps) # 1
        BY <3>0, <3>2, <4>2 DEF Bare, Given
      <4> QED BY <4>1, <4>2
    <3>3. CASE params = Named(Tail(ps))
      <4>1. ps[1].name \notin {p.name : p \in Range(Tail(ps))}
        <5>1. ASSUME NEW p \in Range(Tail(ps)), p.name = ps[1].name
              PROVE  FALSE
          <6>1. PICK i \in DOMAIN Tail(ps) : p = Tail(ps)[i]
            BY DEF Range
          <6>2. i + 1 \in DOMAIN ps /\ p = ps[i + 1] /\ i # 0 /\ i \in Nat
            BY <6>1, <3>0, <1>0
          <6> QED BY <5>1, <6>2, <1>0 DEF Distinct
        <5> QED BY <5>1
      <4>2. DOMAIN params.fields = {p.name : p \in Range(Tail(ps))} /\ params.form = "object"
        BY <3>3 DEF Named
      <4>3. Given(params, ps) = <<>>
        BY <4>1, <4>2, <1>0 DEF Given
      <4> QED BY <3>0, <4>3
    <3>4. CASE params = Positional(Tail(ps))
      <4>1. Given(params, ps) = Tail(ps)
        BY <3>4 DEF Positional, Given
      <4>2. Len(Tail(ps)) = Len(ps) - 1
        BY <1>0, HeadTailProperties
      <4>3. Len(Given(params, ps)) # Len(ps)
        <5> DEFINE n == Len(ps)
        <5>1. Len(Given(params, ps)) = n - 1 /\ n \in Nat
          BY <4>1, <4>2, <1>0
        <5> HIDE DEF n
        <5>2. Len(Given(params, ps)) # n
          BY <5>1
        <5> QED BY <5>2 DEF n
      <4> QED BY <4>3 DEF SameTypes
    <3>5. CASE params = Positional(Append(ps, Unknown))
      <4>1. Given(params, ps) = Append(ps, Unknown)
        BY <3>5 DEF Positional, Given
      <4>2. Len(Append(ps, Unknown)) = Len(ps) + 1
        <5>1. Unknown \in Args
          BY DEF Args
        <5> QED BY <5>1, AppendProperties
      <4>3. Len(Given(params, ps)) # Len(ps)
        <5> DEFINE n == Len(ps)
        <5>1. Len(Given(params, ps)) = n + 1 /\ n \in Nat
          BY <4>1, <4>2, <1>0
        <5> HIDE DEF n
        <5>2. Len(Given(params, ps)) # n
          BY <5>1
        <5> QED BY <5>2 DEF n
      <4> QED BY <4>3 DEF SameTypes
    <3>6. CASE params = Positional([ps EXCEPT ![1] = Unknown])
      <4>1. Given(params, ps) = [ps EXCEPT ![1] = Unknown]
        BY <3>6 DEF Positional, Given
      <4>2. 1 \in DOMAIN ps /\ [ps EXCEPT ![1] = Unknown][1].type = "Unknown"
        BY <1>0 DEF Unknown, Arg
      <4> QED BY <4>1, <4>2 DEF SameTypes, Distinct
    <3> QED BY <1>2, <3>1, <3>2, <3>3, <3>4, <3>5, <3>6 DEF UnsoundParams
  <2> QED BY <2>1 DEF Call
<1> QED BY <1>1, <1>2

\* The methods have parameters that can be told apart.
LEMMA ParametersAre ==
    ASSUME NEW m \in DOMAIN Parameters
    PROVE  Parameters[m] \in Seq(Args) /\ Distinct(Parameters[m])
<1> USE DEF Parameters, Args, Distinct, Arg
<1>1. CASE m = "pathfinder_getProof"
  BY <1>1 DEF block_id, contract_address, keys
<1>2. CASE m = "pathfinder_getTxStatus"
  BY <1>2 DEF transaction_hash
<1>3. CASE m = "pathfinder_version"
  BY <1>3
<1>4. CASE m = "starknet_addDeclareTransaction"
  BY <1>4 DEF declare_transaction
<1>5. CASE m = "starknet_addDeployAccountTransaction"
  BY <1>5 DEF deploy_account_transaction
<1>6. CASE m = "starknet_addInvokeTransaction"
  BY <1>6 DEF invoke_transaction
<1>7. CASE m = "starknet_blockHashAndNumber"
  BY <1>7
<1>8. CASE m = "starknet_blockNumber"
  BY <1>8
<1>9. CASE m = "starknet_call"
  BY <1>9 DEF request, block_id
<1>10. CASE m = "starknet_chainId"
  BY <1>10
<1>11. CASE m = "starknet_estimateFee"
  BY <1>11 DEF requests, estimate_flags, block_id
<1>12. CASE m = "starknet_estimateMessageFee"
  BY <1>12 DEF message, block_id
<1>13. CASE m = "starknet_getBlockTransactionCount"
  BY <1>13 DEF block_id
<1>14. CASE m = "starknet_getBlockWithTxHashes"
  BY <1>14 DEF block_id
<1>15. CASE m = "starknet_getBlockWithTxs"
  BY <1>15 DEF block_id
<1>16. CASE m = "starknet_getClass"
  BY <1>16 DEF block_id, class_hash
<1>17. CASE m = "starknet_getClassAt"
  BY <1>17 DEF block_id, contract_address
<1>18. CASE m = "starknet_getClassHashAt"
  BY <1>18 DEF block_id, contract_address
<1>19. CASE m = "starknet_getEvents"
  BY <1>19 DEF filter
<1>20. CASE m = "starknet_getNonce"
  BY <1>20 DEF block_id, contract_address
<1>21. CASE m = "starknet_getStateUpdate"
  BY <1>21 DEF block_id
<1>22. CASE m = "starknet_getStorageAt"
  BY <1>22 DEF contract_address, key, block_id
<1>23. CASE m = "starknet_getTransactionByBlockIdAndIndex"
  BY <1>23 DEF block_id, index
<1>24. CASE m = "starknet_getTransactionByHash"
  BY <1>24 DEF transaction_hash
<1>25. CASE m = "starknet_getTransactionReceipt"
  BY <1>25 DEF transaction_hash
<1>26. CASE m = "starknet_getTransactionStatus"
  BY <1>26 DEF transaction_hash
<1>27. CASE m = "starknet_simulateTransactions"
  BY <1>27 DEF block_id, transactions, simulation_flags
<1>28. CASE m = "starknet_specVersion"
  BY <1>28
<1>29. CASE m = "starknet_syncing"
  BY <1>29
<1>30. CASE m = "starknet_traceBlockTransactions"
  BY <1>30 DEF block_id
<1>31. CASE m = "starknet_traceTransaction"
  BY <1>31 DEF transaction_hash
<1> QED BY <1>1, <1>2, <1>3, <1>4, <1>5, <1>6, <1>7, <1>8, <1>9, <1>10, <1>11, <1>12, <1>13, <1>14, <1>15, <1>16, <1>17, <1>18, <1>19, <1>20, <1>21, <1>22, <1>23, <1>24, <1>25, <1>26, <1>27, <1>28, <1>29, <1>30, <1>31

\* What a handler makes of the params of method m, and the client of the call.
Relays(m, called, ps) ==
    /\ \A params :
        handle(m, params) = IF ps = <<>> THEN CallWithout(called) ELSE Call(called, params, ps)
    /\ \A args :
        (\A i \in DOMAIN ps : args[ps[i].name] = ps[i]) => Forward(called, args) = Post(m, ps)

\* The methods that are forwarded.
Forwarded == DOMAIN Parameters \ {"starknet_getStorageAt", "starknet_call"}

LEMMA Relayed ==
    ASSUME NEW m \in Forwarded
    PROVE  \E called : called \notin Verified /\ Relays(m, called, Parameters[m])
<1>1. CASE m = "pathfinder_getProof"
  <2>1. Relays(m, "getProof", <<block_id, contract_address, keys>>) /\ Parameters[m] = <<block_id, contract_address, keys>>
    BY <1>1 DEF Relays, handle, Forward, Parameters, Arg,
       handle_getProof, getProof, block_id, contract_address, keys
  <2> QED BY <2>1 DEF Verified
<1>2. CASE m = "pathfinder_getTxStatus"
  <2>1. Relays(m, "getTxStatus", <<transaction_hash>>) /\ Parameters[m] = <<transaction_hash>>
    BY <1>2 DEF Relays, handle, Forward, Parameters, Arg,
       handle_getTxStatus, getTxStatus, transaction_hash
  <2> QED BY <2>1 DEF Verified
<1>3. CASE m = "pathfinder_version"
  <2>1. Relays(m, "version", <<>>) /\ Parameters[m] = <<>>
    BY <1>3 DEF Relays, handle, Forward, Parameters, Arg,
       handle_version, version
  <2> QED BY <2>1 DEF Verified
<1>4. CASE m = "starknet_addDeclareTransaction"
  <2>1. Relays(m, "addDeclareTransaction", <<declare_transaction>>) /\ Parameters[m] = <<declare_transaction>>
    BY <1>4 DEF Relays, handle, Forward, Parameters, Arg,
       handle_addDeclareTransaction, addDeclareTransaction, declare_transaction
  <2> QED BY <2>1 DEF Verified
<1>5. CASE m = "starknet_addDeployAccountTransaction"
  <2>1. Relays(m, "addDeployAccountTransaction", <<deploy_account_transaction>>) /\ Parameters[m] = <<deploy_account_transaction>>
    BY <1>5 DEF Relays, handle, Forward, Parameters, Arg,
       handle_addDeployAccountTransaction, addDeployAccountTransaction, deploy_account_transaction
  <2> QED BY <2>1 DEF Verified
<1>6. CASE m = "starknet_addInvokeTransaction"
  <2>1. Relays(m, "addInvokeTransaction", <<invoke_transaction>>) /\ Parameters[m] = <<invoke_transaction>>
    BY <1>6 DEF Relays, handle, Forward, Parameters, Arg,
       handle_addInvokeTransaction, addInvokeTransaction, invoke_transaction
  <2> QED BY <2>1 DEF Verified
<1>7. CASE m = "starknet_blockHashAndNumber"
  <2>1. Relays(m, "blockHashAndNumber", <<>>) /\ Parameters[m] = <<>>
    BY <1>7 DEF Relays, handle, Forward, Parameters, Arg,
       handle_blockHashAndNumber, blockHashAndNumber
  <2> QED BY <2>1 DEF Verified
<1>8. CASE m = "starknet_blockNumber"
  <2>1. Relays(m, "blockNumber", <<>>) /\ Parameters[m] = <<>>
    BY <1>8 DEF Relays, handle, Forward, Parameters, Arg,
       handle_blockNumber, blockNumber
  <2> QED BY <2>1 DEF Verified
<1>9. CASE m = "starknet_chainId"
  <2>1. Relays(m, "chainId", <<>>) /\ Parameters[m] = <<>>
    BY <1>9 DEF Relays, handle, Forward, Parameters, Arg,
       handle_chainId, chainId
  <2> QED BY <2>1 DEF Verified
<1>10. CASE m = "starknet_estimateFee"
  <2>1. Relays(m, "estimateFee", <<requests, estimate_flags, block_id>>) /\ Parameters[m] = <<requests, estimate_flags, block_id>>
    BY <1>10 DEF Relays, handle, Forward, Parameters, Arg,
       handle_estimateFee, estimateFee, requests, estimate_flags, block_id
  <2> QED BY <2>1 DEF Verified
<1>11. CASE m = "starknet_estimateMessageFee"
  <2>1. Relays(m, "estimateMessageFee", <<message, block_id>>) /\ Parameters[m] = <<message, block_id>>
    BY <1>11 DEF Relays, handle, Forward, Parameters, Arg,
       handle_estimateMessageFee, estimateMessageFee, message, block_id
  <2> QED BY <2>1 DEF Verified
<1>12. CASE m = "starknet_getBlockTransactionCount"
  <2>1. Relays(m, "getBlockTransactionCount", <<block_id>>) /\ Parameters[m] = <<block_id>>
    BY <1>12 DEF Relays, handle, Forward, Parameters, Arg,
       handle_getBlockTransactionCount, getBlockTransactionCount, block_id
  <2> QED BY <2>1 DEF Verified
<1>13. CASE m = "starknet_getBlockWithTxHashes"
  <2>1. Relays(m, "getBlockWithTxHashes", <<block_id>>) /\ Parameters[m] = <<block_id>>
    BY <1>13 DEF Relays, handle, Forward, Parameters, Arg,
       handle_getBlockWithTxHashes, getBlockWithTxHashes, block_id
  <2> QED BY <2>1 DEF Verified
<1>14. CASE m = "starknet_getBlockWithTxs"
  <2>1. Relays(m, "getBlockWithTxs", <<block_id>>) /\ Parameters[m] = <<block_id>>
    BY <1>14 DEF Relays, handle, Forward, Parameters, Arg,
       handle_getBlockWithTxs, getBlockWithTxs, block_id
  <2> QED BY <2>1 DEF Verified
<1>15. CASE m = "starknet_getClass"
  <2>1. Relays(m, "getClass", <<block_id, class_hash>>) /\ Parameters[m] = <<block_id, class_hash>>
    BY <1>15 DEF Relays, handle, Forward, Parameters, Arg,
       handle_getClass, getClass, block_id, class_hash
  <2> QED BY <2>1 DEF Verified
<1>16. CASE m = "starknet_getClassAt"
  <2>1. Relays(m, "getClassAt", <<block_id, contract_address>>) /\ Parameters[m] = <<block_id, contract_address>>
    BY <1>16 DEF Relays, handle, Forward, Parameters, Arg,
       handle_getClassAt, getClassAt, block_id, contract_address
  <2> QED BY <2>1 DEF Verified
<1>17. CASE m = "starknet_getClassHashAt"
  <2>1. Relays(m, "getClassHashAt", <<block_id, contract_address>>) /\ Parameters[m] = <<block_id, contract_address>>
    BY <1>17 DEF Relays, handle, Forward, Parameters, Arg,
       handle_getClassHashAt, getClassHashAt, block_id, contract_address
  <2> QED BY <2>1 DEF Verified
<1>18. CASE m = "starknet_getEvents"
  <2>1. Relays(m, "getEvents", <<filter>>) /\ Parameters[m] = <<filter>>
    BY <1>18 DEF Relays, handle, Forward, Parameters, Arg,
       handle_getEvents, getEvents, filter
  <2> QED BY <2>1 DEF Verified
<1>19. CASE m = "starknet_getNonce"
  <2>1. Relays(m, "getNonce", <<block_id, contract_address>>) /\ Parameters[m] = <<block_id, contract_address>>
    BY <1>19 DEF Relays, handle, Forward, Parameters, Arg,
       handle_getNonce, getNonce, block_id, contract_address
  <2> QED BY <2>1 DEF Verified
<1>20. CASE m = "starknet_getStateUpdate"
  <2>1. Relays(m, "getStateUpdate", <<block_id>>) /\ Parameters[m] = <<block_id>>
    BY <1>20 DEF Relays, handle, Forward, Parameters, Arg,
       handle_getStateUpdate, getStateUpdate, block_id
  <2> QED BY <2>1 DEF Verified
<1>21. CASE m = "starknet_getTransactionByBlockIdAndIndex"
  <2>1. Relays(m, "getTransactionByBlockIdAndIndex", <<block_id, index>>) /\ Parameters[m] = <<block_id, index>>
    BY <1>21 DEF Relays, handle, Forward, Parameters, Arg,
       handle_getTransactionByBlockIdAndIndex, getTransactionByBlockIdAndIndex, block_id, index
  <2> QED BY <2>1 DEF Verified
<1>22. CASE m = "starknet_getTransactionByHash"
  <2>1. Relays(m, "getTransactionByHash", <<transaction_hash>>) /\ Parameters[m] = <<transaction_hash>>
    BY <1>22 DEF Relays, handle, Forward, Parameters, Arg,
       handle_getTransactionByHash, getTransactionByHash, transaction_hash
  <2> QED BY <2>1 DEF Verified
<1>23. CASE m = "starknet_getTransactionReceipt"
  <2>1. Relays(m, "getTransactionReceipt", <<transaction_hash>>) /\ Parameters[m] = <<transaction_hash>>
    BY <1>23 DEF Relays, handle, Forward, Parameters, Arg,
       handle_getTransactionReceipt, getTransactionReceipt, transaction_hash
  <2> QED BY <2>1 DEF Verified
<1>24. CASE m = "starknet_getTransactionStatus"
  <2>1. Relays(m, "getTransactionStatus", <<transaction_hash>>) /\ Parameters[m] = <<transaction_hash>>
    BY <1>24 DEF Relays, handle, Forward, Parameters, Arg,
       handle_getTransactionStatus, getTransactionStatus, transaction_hash
  <2> QED BY <2>1 DEF Verified
<1>25. CASE m = "starknet_simulateTransactions"
  <2>1. Relays(m, "simulateTransactions", <<block_id, transactions, simulation_flags>>) /\ Parameters[m] = <<block_id, transactions, simulation_flags>>
    BY <1>25 DEF Relays, handle, Forward, Parameters, Arg,
       handle_simulateTransactions, simulateTransactions, block_id, transactions, simulation_flags
  <2> QED BY <2>1 DEF Verified
<1>26. CASE m = "starknet_specVersion"
  <2>1. Relays(m, "specVersion", <<>>) /\ Parameters[m] = <<>>
    BY <1>26 DEF Relays, handle, Forward, Parameters, Arg,
       handle_specVersion, specVersion
  <2> QED BY <2>1 DEF Verified
<1>27. CASE m = "starknet_syncing"
  <2>1. Relays(m, "syncing", <<>>) /\ Parameters[m] = <<>>
    BY <1>27 DEF Relays, handle, Forward, Parameters, Arg,
       handle_syncing, syncing
  <2> QED BY <2>1 DEF Verified
<1>28. CASE m = "starknet_traceBlockTransactions"
  <2>1. Relays(m, "traceBlockTransactions", <<block_id>>) /\ Parameters[m] = <<block_id>>
    BY <1>28 DEF Relays, handle, Forward, Parameters, Arg,
       handle_traceBlockTransactions, traceBlockTransactions, block_id
  <2> QED BY <2>1 DEF Verified
<1>29. CASE m = "starknet_traceTransaction"
  <2>1. Relays(m, "traceTransaction", <<transaction_hash>>) /\ Parameters[m] = <<transaction_hash>>
    BY <1>29 DEF Relays, handle, Forward, Parameters, Arg,
       handle_traceTransaction, traceTransaction, transaction_hash
  <2> QED BY <2>1 DEF Verified
<1> m \in {"pathfinder_getProof",
        "pathfinder_getTxStatus",
        "pathfinder_version",
        "starknet_addDeclareTransaction",
        "starknet_addDeployAccountTransaction",
        "starknet_addInvokeTransaction",
        "starknet_blockHashAndNumber",
        "starknet_blockNumber",
        "starknet_chainId",
        "starknet_estimateFee",
        "starknet_estimateMessageFee",
        "starknet_getBlockTransactionCount",
        "starknet_getBlockWithTxHashes",
        "starknet_getBlockWithTxs",
        "starknet_getClass",
        "starknet_getClassAt",
        "starknet_getClassHashAt",
        "starknet_getEvents",
        "starknet_getNonce",
        "starknet_getStateUpdate",
        "starknet_getTransactionByBlockIdAndIndex",
        "starknet_getTransactionByHash",
        "starknet_getTransactionReceipt",
        "starknet_getTransactionStatus",
        "starknet_simulateTransactions",
        "starknet_specVersion",
        "starknet_syncing",
        "starknet_traceBlockTransactions",
        "starknet_traceTransaction"}
  BY DEF Forwarded, Parameters
<1> QED BY <1>1, <1>2, <1>3, <1>4, <1>5, <1>6, <1>7, <1>8, <1>9, <1>10, <1>11, <1>12, <1>13, <1>14, <1>15, <1>16, <1>17, <1>18, <1>19, <1>20, <1>21, <1>22, <1>23, <1>24, <1>25, <1>26, <1>27, <1>28, <1>29

LEMMA ArgsInPlace ==
    ASSUME NEW ps \in Seq(Args), Distinct(ps), NEW i \in DOMAIN ps
    PROVE  ArgsOf(ps)[ps[i].name] = ps[i]
<1>1. ps[i] \in Range(ps)
  BY DEF Range
<1>2. (CHOOSE j \in DOMAIN ps : ps[j].name = ps[i].name) = i
  BY DEF Distinct
<1> QED BY <1>1, <1>2 DEF ArgsOf

\* The methods that verify what they answer.
Special == {"starknet_getStorageAt", "starknet_call"}

Steps == [method : DOMAIN Parameters \cup {"execute"}, params : Seq(Args)]

\* A post p for request r is the call asked for, or reads what it names.
Serves(p, r) ==
    CASE r.method = "starknet_getStorageAt" ->
            /\ p.method = "starknet_getStorageAt" =>
                    p.params[1] = contract_address /\ p.params[2] = key
            /\ p.method = "pathfinder_getProof" =>
                    p.params[2] = contract_address /\ p.params[3] = key
      [] r.method = "starknet_call" -> p = getBlockWithTxHashes([block_id |-> Latest])
      [] OTHER -> Sound(r) /\ p = Asked(r)

\* A plan for request r makes posts that serve it; only call executes, and a call
\* that is forwarded is a single post.
PlanFor(plan, r) ==
    /\ r.method \in DOMAIN Parameters
    /\ plan.steps \in Seq(Steps)
    /\ plan.result \in DOMAIN plan.steps
    /\ \A i \in DOMAIN plan.steps :
        IF plan.steps[i] = Execute THEN r.method = "starknet_call"
        ELSE Serves(plan.steps[i], r)
    /\ r.method \notin Special => plan.steps = <<Asked(r)>> /\ plan.result = 1

LEMMA StepsAre ==
    /\ \A m \in DOMAIN Parameters : Post(m, Parameters[m]) \in Steps
    /\ \A m \in DOMAIN Parameters : Post(m, Parameters[m]) # Execute
    /\ Execute \in Steps
<1>1. ASSUME NEW m \in DOMAIN Parameters
      PROVE  Post(m, Parameters[m]) \in Steps /\ Post(m, Parameters[m]) # Execute
  <2>1. Parameters[m] \in Seq(Args)
    BY ParametersAre
  <2>2. m # "execute"
    BY DEF Parameters
  <2> QED BY <2>1, <2>2 DEF Post, Steps, Execute
<1>2. Execute \in Steps
  BY DEF Execute, Steps
<1> QED BY <1>1, <1>2

LEMMA Ahead ==
    ASSUME NEW S, NEW x \in S, NEW y \in S, NEW z \in S
    PROVE  <<x>> \o <<y, z>> = <<x, y, z>>
<1>1. <<x>> \in Seq(S) /\ <<y, z>> \in Seq(S)
  OBVIOUS
<1> DEFINE xyz == <<x>> \o <<y, z>>
<1>2. xyz \in Seq(S) /\ Len(xyz) = 3
  BY <1>1, ConcatProperties
<1>3. xyz[1] = x /\ xyz[2] = y /\ xyz[3] = z
  BY <1>1
<1> HIDE DEF xyz
<1>4. xyz = <<x, y, z>>
  BY <1>2, <1>3
<1> QED BY <1>4 DEF xyz

\* What the handler of a call with a plan of its own returns.
LEMMA CallsOf ==
    ASSUME NEW r, r.method \in DOMAIN Parameters,
           r.params \in SoundParams(Parameters[r.method])
                            \cup UnsoundParams(Parameters[r.method]),
           NEW called, Parameters[r.method] # <<>>,
           handle(r.method, r.params) = Call(called, r.params, Parameters[r.method])
    PROVE  \/ handle(r.method, r.params) = Refuse(-32602)
           \/ /\ Sound(r)
              /\ handle(r.method, r.params)
                    = [method |-> called, args |-> ArgsOf(Parameters[r.method])]
<1>1. Parameters[r.method] \in Seq(Args) /\ Distinct(Parameters[r.method])
  BY ParametersAre
<1> QED BY <1>1, CallOf DEF Sound

\* A request is refused, or it is sound and every plan of the call serves it.
LEMMA HandledWell ==
    ASSUME NEW r,
           r.method \in DOMAIN Parameters =>
                r.params \in SoundParams(Parameters[r.method])
                                \cup UnsoundParams(Parameters[r.method]),
           NEW called, called = handle(r.method, r.params)
    PROVE  \/ \E code \in Int : called = Refuse(code)
           \/ /\ called = [method |-> called.method, args |-> called.args]
              /\ Sound(r)
              /\ called.method \in Verified <=> r.method \in Special
              /\ \A plan \in Plans(called.method, called.args) : PlanFor(plan, r)
<1>1. CASE r.method \notin DOMAIN Parameters
  <2>1. called = Refuse(-32601)
    BY <1>1 DEF handle, Parameters
  <2> QED BY <2>1
<1>2. CASE r.method \in Forwarded
  <2> DEFINE ps == Parameters[r.method]
  <2>1. PICK to : to \notin Verified /\ Relays(r.method, to, ps)
    BY <1>2, Relayed
  <2>2. ps \in Seq(Args) /\ Distinct(ps)
    BY <1>2, ParametersAre DEF Forwarded
  <2>3. ASSUME NEW args, \A i \in DOMAIN ps : args[ps[i].name] = ps[i],
               Sound(r), called = [method |-> to, args |-> args]
        PROVE  /\ called.method \in Verified <=> r.method \in Special
               /\ \A plan \in Plans(called.method, called.args) : PlanFor(plan, r)
    <3>1. Forward(to, args) = Asked(r)
      BY <2>1, <2>3 DEF Relays, Asked
    <3>2. Plans(to, args) = {Plan(<<Asked(r)>>, 1)}
      BY <2>1, <3>1 DEF Plans, Verified
    <3>3. r.method \notin Special
      BY <1>2 DEF Forwarded, Special
    <3>4. Asked(r) \in Steps /\ Asked(r) # Execute
      BY <1>2, StepsAre DEF Forwarded, Asked
    <3>5. Serves(Asked(r), r)
      BY <2>3, <3>3 DEF Serves, Special
    <3>6. PlanFor(Plan(<<Asked(r)>>, 1), r)
      BY <1>2, <3>4, <3>5 DEF PlanFor, Plan, Forwarded
    <3> QED BY <2>1, <2>3, <3>2, <3>3, <3>6
  <2>4. CASE ps = <<>>
    <3>1. called = CallWithout(to)
      BY <2>1, <2>4 DEF Relays
    <3>2. Sound(r)
      BY <1>2, <2>4 DEF Sound, Forwarded, UnsoundParams
    <3>3. called = [method |-> to, args |-> <<>>]
      BY <3>1 DEF CallWithout
    <3>4. \A i \in DOMAIN ps : <<>>[ps[i].name] = ps[i]
      BY <2>4
    <3> HIDE DEF ps
    <3> QED BY <2>3, <3>2, <3>3, <3>4
  <2>5. CASE ps # <<>>
    <3>1. called = Call(to, r.params, ps)
      BY <2>1, <2>5 DEF Relays
    <3>2. \A i \in DOMAIN ps : ArgsOf(ps)[ps[i].name] = ps[i]
      BY <2>2, ArgsInPlace
    <3>3. \/ called = Refuse(-32602)
          \/ Sound(r) /\ called = [method |-> to, args |-> ArgsOf(ps)]
      <4>1. handle(r.method, r.params) = Call(to, r.params, Parameters[r.method])
        BY <3>1
      <4>2. r.method \in DOMAIN Parameters /\ Parameters[r.method] # <<>>
        BY <1>2, <2>5 DEF Forwarded
      <4> QED BY <4>1, <4>2, CallsOf
    <3> HIDE DEF ps
    <3> QED BY <2>3, <3>2, <3>3
  <2> QED BY <2>4, <2>5
<1>3. CASE r.method = "starknet_getStorageAt"
  <2> DEFINE ps == <<contract_address, key, block_id>>
  <2>1. handle(r.method, r.params) = Call("getStorageAt", r.params, ps)
    BY <1>3 DEF handle, handle_getStorageAt
  <2>2. Parameters[r.method] = ps /\ r.method \in DOMAIN Parameters
    BY <1>3 DEF Parameters
  <2>3. \/ called = Refuse(-32602)
        \/ Sound(r) /\ called = [method |-> "getStorageAt", args |-> ArgsOf(ps)]
    BY <2>1, <2>2, CallsOf
  <2> DEFINE args == ArgsOf(ps)
  <2>4. args.contract_address = contract_address /\ args.key = key /\ args.block_id = block_id
    <3>1. ps \in Seq(Args) /\ Distinct(ps)
      BY <2>2, ParametersAre
    <3>2. \A i \in {1, 2, 3} : i \in DOMAIN ps
      OBVIOUS
    <3>3. \A i \in {1, 2, 3} : ArgsOf(ps)[ps[i].name] = ps[i]
      BY <3>1, <3>2, ArgsInPlace
    <3> QED BY <3>3 DEF contract_address, key, block_id, Arg
  <2> HIDE DEF args
  <2>5. ASSUME NEW plan \in StorageReads(args), Sound(r)
        PROVE  PlanFor(plan, r)
    <3> DEFINE storage == Post("starknet_getStorageAt", <<contract_address, key, Resolved>>)
               proof == Post("pathfinder_getProof", <<Resolved, contract_address, key>>)
               block == Post("starknet_getBlockWithTxHashes", <<block_id>>)
    <3>1. \/ plan = Plan(<<storage, proof>>, 1)
          \/ plan = Plan(<<block>> \o <<storage, proof>>, 2)
      BY <2>4 DEF StorageReads, getStorageAt, getProof, getBlockWithTxHashes
    <3>2. storage \in Steps /\ proof \in Steps /\ block \in Steps
      BY DEF Post, Steps, Args, Parameters
    <3>3. storage # Execute /\ proof # Execute /\ block # Execute
      BY DEF Post, Execute
    <3>4. Serves(storage, r) /\ Serves(proof, r) /\ Serves(block, r)
      BY <1>3 DEF Serves, Post
    <3> HIDE DEF storage, proof, block
    <3>5. <<block>> \o <<storage, proof>> = <<block, storage, proof>>
      BY <3>2, Ahead
    <3>6. plan.steps \in {<<storage, proof>>, <<block, storage, proof>>}
            /\ plan.result \in DOMAIN plan.steps
      BY <3>1, <3>5 DEF Plan
    <3>7. plan.steps \in Seq(Steps)
      <4>1. <<storage, proof>> \in Seq(Steps) /\ <<block, storage, proof>> \in Seq(Steps)
        BY <3>2
      <4> QED BY <3>6, <4>1
    <3>8. \A i \in DOMAIN plan.steps : plan.steps[i] \in {storage, proof, block}
      BY <3>6
    <3> QED BY <1>3, <2>2, <3>3, <3>4, <3>6, <3>7, <3>8 DEF PlanFor, Special
  <2> QED BY <1>3, <2>3, <2>5 DEF Plans, Verified, Special, args
<1>4. CASE r.method = "starknet_call"
  <2>1. handle(r.method, r.params) = Call("call", r.params, <<request, block_id>>)
    BY <1>4 DEF handle, handle_call
  <2>2. Parameters[r.method] = <<request, block_id>> /\ r.method \in DOMAIN Parameters
    BY <1>4 DEF Parameters
  <2>3. \/ called = Refuse(-32602)
        \/ Sound(r) /\ called = [method |-> "call", args |-> ArgsOf(<<request, block_id>>)]
    BY <2>1, <2>2, CallsOf
  <2>4. PlanFor(Execution, r)
    <3> DEFINE block == getBlockWithTxHashes([block_id |-> Latest])
    <3>1. block \in Steps
      BY DEF getBlockWithTxHashes, Post, Steps, Args, Parameters
    <3>2. Serves(block, r)
      BY <1>4 DEF Serves
    <3> HIDE DEF block
    <3>3. Execution = Plan(<<block, Execute>>, 2)
      BY DEF Execution, block
    <3> QED BY <1>4, <2>2, <3>1, <3>2, <3>3, StepsAre DEF PlanFor, Plan, Special
  <2> QED BY <1>4, <2>3, <2>4 DEF Plans, Verified, Special
<1> QED BY <1>1, <1>2, <1>3, <1>4 DEF Forwarded

(* The inductive invariant.                                                *)

Ids == {r.id : r \in UNION {Range(body) : body \in UNION {Bodies(c) : c \in Conns}}}
Whats == [refused : Int] \cup [failed : Int] \cup [result : Steps]
AnswerTo == [id : Ids, to : Nat, what : Whats]
PostSet == [from : Conns, to : Nat, step : Nat, request : Steps, failed : BOOLEAN]

\* A call is made, or was when the caller went away.
InCall == {"calling", "waiting", "gone"}

IsSession(s) ==
    s = [pc |-> s.pc, body |-> s.body, next |-> s.next, method |-> s.method,
         plan |-> s.plan, step |-> s.step, answers |-> s.answers]

\* Session s of c is with a request of its body, and has a plan for that request
\* while it makes the call.
SessionOK(c, s) ==
    /\ IsSession(s)
    /\ s.pc \in {"idle", "handling", "responded"} \cup InCall
    /\ s.body \in Bodies(c) \cup {<<>>}
    /\ s.next \in 1 .. Len(s.body) + 1
    /\ s.pc = "idle" => s = Idle
    /\ s.pc = "handling" => s.step = 1
    /\ s.pc = "responded" => s.next = Len(s.body) + 1
    /\ s.pc \in InCall =>
        /\ s.next \in DOMAIN s.body
        /\ PlanFor(s.plan, s.body[s.next])
        /\ s.step \in DOMAIN s.plan.steps
        /\ s.method \in Verified <=> s.body[s.next].method \in Special
    /\ s.pc = "waiting" => s.plan.steps[s.step] # Execute

IsResultFor(what, r) ==
    "result" \in DOMAIN what /\ r.method \notin Special => what.result = Asked(r)

\* The requests before the next one are answered, those that have an id.
AnsweredOK(s) ==
    /\ s.answers \in Seq(AnswerTo)
    /\ \A i \in DOMAIN s.answers :
        LET a == s.answers[i] IN
        /\ a.to \in 1 .. s.next - 1
        /\ s.body[a.to].id # None
        /\ a.id = s.body[a.to].id
        /\ IsResultFor(a.what, s.body[a.to])
    /\ \A i, j \in DOMAIN s.answers : i < j => s.answers[i].to < s.answers[j].to
    /\ \A k \in 1 .. s.next - 1 :
        s.body[k].id # None => \E i \in DOMAIN s.answers : s.answers[i].to = k

SessionsOK ==
    /\ conn = [c \in Conns |-> conn[c]]
    /\ \A c \in Conns : SessionOK(c, conn[c]) /\ AnsweredOK(conn[c])

\* Post p was made for a request that session s has come to, by a step of the plan
\* that s has come to.
PostOK(p, s) ==
    /\ p.to \in DOMAIN s.body
    /\ p.to <= s.next
    /\ p.to = s.next => /\ s.pc \in InCall
                        /\ p.step <= s.step
                        /\ s.pc = "calling" => p.step < s.step
    /\ p.failed => p.to < s.next
    /\ Serves(p.request, s.body[p.to])
    /\ s.body[p.to].method \notin Special => p.step = 1

\* Post p is the one that session s waits for, or waited for.
IsCurrent(p, s) == p.to = s.next /\ p.step = s.step /\ s.pc \in {"waiting", "gone"}

Before(p, q) == p.to < q.to \/ (p.to = q.to /\ p.step < q.step)

\* The posts of a connection are made in the order of its batch and of the plans;
\* the node can only be behind with the current one and with those that failed.
PostsOK ==
    /\ posts \in Seq(PostSet)
    /\ \A i \in DOMAIN posts : PostOK(posts[i], conn[posts[i].from])
    /\ \A i, j \in DOMAIN posts :
        i < j /\ posts[i].from = posts[j].from => Before(posts[i], posts[j])
    /\ \A c \in Conns : conn[c].pc = "waiting" =>
        \E i \in DOMAIN posts : posts[i].from = c /\ IsCurrent(posts[i], conn[c])
    /\ \A i \in DOMAIN posts :
        i \in Range(ran) \/ posts[i].failed \/ IsCurrent(posts[i], conn[posts[i].from])

\* The node runs what was posted, once, and the posts of a connection in their
\* order unless they failed.
RanOK ==
    /\ ran \in Seq(Nat)
    /\ \A n \in DOMAIN ran : ran[n] \in DOMAIN posts
    /\ \A m, n \in DOMAIN ran : ran[m] = ran[n] => m = n
    /\ \A m, n \in DOMAIN ran :
        /\ posts[ran[m]].from = posts[ran[n]].from
        /\ ran[m] < ran[n]
        /\ ~posts[ran[m]].failed
        => m < n

\* Who is answered at all after a post failed is told that it failed.
ToldOK ==
    \A i \in DOMAIN posts :
        LET s == conn[posts[i].from] IN
        posts[i].failed =>
            \A k \in DOMAIN s.answers :
                s.answers[k].to = posts[i].to => s.answers[k].what = [failed |-> 4002]

IInv == SessionsOK /\ PostsOK /\ RanOK /\ ToldOK

LEMMA BodiesAre ==
    ASSUME NEW c \in Conns, NEW body \in Bodies(c) \cup {<<>>}
    PROVE  /\ Len(body) \in Nat /\ Len(body) <= MaxBatch /\ DOMAIN body = 1 .. Len(body)
           /\ \A k \in DOMAIN body :
                /\ body[k].id \in Ids
                /\ body[k].method \in DOMAIN Parameters =>
                    body[k].params \in SoundParams(Parameters[body[k].method])
                                        \cup UnsoundParams(Parameters[body[k].method])
<1>1. CASE body = <<>>
  BY <1>1, JsonRpcAssumption
<1>2. CASE body \in Bodies(c)
  <2>1. body \in Seq(Range(body)) /\ Len(body) <= MaxBatch
    BY <1>2, JsonRpcAssumption
  <2>2. Len(body) \in Nat /\ DOMAIN body = 1 .. Len(body)
    BY <2>1
  <2>3. ASSUME NEW k \in DOMAIN body
        PROVE  /\ body[k].id \in Ids
               /\ body[k].method \in DOMAIN Parameters =>
                    body[k].params \in SoundParams(Parameters[body[k].method])
                                        \cup UnsoundParams(Parameters[body[k].method])
    <3>1. body[k] \in Range(body)
      BY DEF Range
    <3>2. body[k].id \in Ids
      BY <1>2, <3>1 DEF Ids
    <3> QED BY <1>2, <3>1, <3>2, JsonRpcAssumption
  <2> QED BY <2>1, <2>2, <2>3
<1> QED BY <1>1, <1>2

\* A request is finished: its answer is noted, and the next one is up.
LEMMA FinishedSession ==
    ASSUME NEW c \in Conns, SessionOK(c, conn[c]), AnsweredOK(conn[c]),
           conn[c].next \in DOMAIN conn[c].body,
           NEW what \in Whats, IsResultFor(what, Current(c)),
           NEW t, t = Finished(c, what)
    PROVE  /\ SessionOK(c, t) /\ AnsweredOK(t)
           /\ t.pc = "handling" /\ t.body = conn[c].body /\ t.next = conn[c].next + 1
           /\ \A i \in DOMAIN t.answers :
                \/ i \in DOMAIN conn[c].answers /\ t.answers[i] = conn[c].answers[i]
                \/ t.answers[i].to = conn[c].next /\ t.answers[i].what = what
<1> DEFINE s == conn[c]
           a == [id |-> Current(c).id, to |-> s.next, what |-> what]
<1>0. /\ s = [pc |-> s.pc, body |-> s.body, next |-> s.next, method |-> s.method,
              plan |-> s.plan, step |-> s.step, answers |-> s.answers]
      /\ s.body \in Bodies(c) \cup {<<>>}
      /\ s.next \in 1 .. Len(s.body) + 1
  BY DEF SessionOK, IsSession
<1>1. Len(s.body) \in Nat /\ DOMAIN s.body = 1 .. Len(s.body) /\ Current(c).id \in Ids
  BY <1>0, BodiesAre DEF Current
<1>2. /\ t = [pc |-> "handling", body |-> s.body, next |-> s.next + 1, method |-> "",
              plan |-> NoPlan, step |-> 1, answers |-> Answer(c, what)]
  BY <1>0 DEF Finished
<1>3. /\ t.pc = "handling" /\ t.body = s.body /\ t.next = s.next + 1
      /\ t.answers = Answer(c, what)
  BY ONLY <1>2
<1>4. SessionOK(c, t)
  <2>1. IsSession(t)
    BY <1>2 DEF IsSession
  <2>2. t.next \in 1 .. Len(t.body) + 1
    BY <1>0, <1>1, <1>3
  <2>3. t.step = 1
    BY ONLY <1>2
  <2> QED BY <1>0, <1>3, <2>1, <2>2, <2>3 DEF SessionOK, InCall
<1>5. a \in AnswerTo
  BY <1>0, <1>1 DEF AnswerTo
<1>6. s.answers \in Seq(AnswerTo)
  BY DEF AnsweredOK
<1>7. CASE Current(c).id = None
  <2>1. t.answers = s.answers
    BY <1>3, <1>7 DEF Answer
  <2>2. AnsweredOK(t)
    <3>1. \A k \in 1 .. t.next - 1 : k \in 1 .. s.next - 1 \/ k = s.next
      BY <1>0, <1>3
    <3>2. \A k \in 1 .. s.next - 1 : k \in 1 .. t.next - 1
      BY <1>0, <1>3
    <3>3. s.body[s.next].id = None
      BY <1>7 DEF Current
    <3> HIDE DEF s
    <3> QED BY <1>3, <2>1, <3>1, <3>2, <3>3 DEF AnsweredOK, s
  <2> QED BY <1>3, <1>4, <2>1, <2>2
<1>8. CASE Current(c).id # None
  <2> DEFINE n == Len(s.answers)
  <2>0. n \in Nat
    BY <1>6
  <2>1. t.answers = Append(s.answers, a)
    BY <1>3, <1>8 DEF Answer
  <2>2. /\ t.answers \in Seq(AnswerTo)
        /\ DOMAIN t.answers = 1 .. n + 1
        /\ \A i \in 1 .. n : t.answers[i] = s.answers[i]
        /\ t.answers[n + 1] = a
    BY <1>5, <1>6, <2>1, AppendProperties
  <2>3. \A i \in DOMAIN t.answers : i \in DOMAIN s.answers \/ i = n + 1
    BY <1>6, <2>2
  <2>4. /\ \A i \in DOMAIN s.answers : i \in DOMAIN t.answers /\ t.answers[i] = s.answers[i]
        /\ n + 1 \in DOMAIN t.answers
    <3>1. DOMAIN s.answers = 1 .. n
      BY <1>6
    <3> HIDE DEF n
    <3> QED BY <2>0, <2>2, <3>1
  <2>5. /\ a.to = s.next /\ a.what = what /\ a.id = s.body[a.to].id
    BY DEF Current
  <2>6. AnsweredOK(t)
    <3>1. \A k \in 1 .. t.next - 1 : k \in 1 .. s.next - 1 \/ k = s.next
      BY <1>0, <1>3
    <3>2. s.next \in 1 .. t.next - 1 /\ \A k \in 1 .. s.next - 1 : k \in 1 .. t.next - 1
      BY <1>0, <1>1, <1>3
    <3>3. ASSUME NEW i \in DOMAIN t.answers
          PROVE  /\ t.answers[i].to \in 1 .. t.next - 1
                 /\ t.body[t.answers[i].to].id # None
                 /\ t.answers[i].id = t.body[t.answers[i].to].id
                 /\ IsResultFor(t.answers[i].what, t.body[t.answers[i].to])
      <4>1. CASE i \in DOMAIN s.answers
        BY <1>3, <2>4, <3>2, <4>1 DEF AnsweredOK
      <4>2. CASE i = n + 1
        BY <1>3, <1>8, <2>2, <2>5, <3>2, <4>2 DEF Current
      <4> QED BY <2>3, <4>1, <4>2
    <3>4. ASSUME NEW i \in DOMAIN t.answers, NEW j \in DOMAIN t.answers, i < j
          PROVE  t.answers[i].to < t.answers[j].to
      <4>1. i \in DOMAIN s.answers
        BY <1>6, <2>0, <2>2, <3>4
      <4>2. CASE j \in DOMAIN s.answers
        BY <2>4, <3>4, <4>1, <4>2 DEF AnsweredOK
      <4>3. CASE j = n + 1
        <5>1. s.answers[i].to \in 1 .. s.next - 1
          BY <4>1 DEF AnsweredOK
        <5> QED BY <1>0, <1>1, <2>2, <2>4, <2>5, <4>1, <4>3, <5>1
      <4> QED BY <2>3, <4>2, <4>3
    <3>5. ASSUME NEW k \in 1 .. t.next - 1, t.body[k].id # None
          PROVE  \E i \in DOMAIN t.answers : t.answers[i].to = k
      <4>1. CASE k \in 1 .. s.next - 1
        <5>1. PICK i \in DOMAIN s.answers : s.answers[i].to = k
          BY <1>3, <3>5, <4>1 DEF AnsweredOK
        <5> QED BY <2>4, <5>1
      <4>2. CASE k = s.next
        BY <2>2, <2>4, <2>5, <4>2
      <4> QED BY <3>1, <4>1, <4>2
    <3> QED BY <2>2, <3>3, <3>4, <3>5 DEF AnsweredOK
  <2>7. \A i \in DOMAIN t.answers :
            \/ i \in DOMAIN s.answers /\ t.answers[i] = s.answers[i]
            \/ t.answers[i].to = s.next /\ t.answers[i].what = what
    BY <2>2, <2>3, <2>4, <2>5
  <2> QED BY <1>3, <1>4, <2>6, <2>7
<1> QED BY <1>7, <1>8

LEMMA PostsAre ==
    ASSUME PostsOK, NEW i \in DOMAIN posts
    PROVE  /\ i \in Nat
           /\ posts[i].from \in Conns /\ posts[i].to \in Nat /\ posts[i].step \in Nat
           /\ posts[i].failed \in BOOLEAN /\ posts[i].request \in Steps
<1>1. posts \in Seq(PostSet)
  BY DEF PostsOK
<1>2. posts[i] \in PostSet /\ i \in Nat
  BY <1>1
<1> QED BY <1>2 DEF PostSet

\* While a session waits it waits for one post.
LEMMA WaitsForOne ==
    ASSUME PostsOK, NEW c \in Conns, conn[c].pc = "waiting"
    PROVE  /\ PostOf(c) \in DOMAIN posts
           /\ posts[PostOf(c)].from = c
           /\ posts[PostOf(c)].to = conn[c].next
           /\ posts[PostOf(c)].step = conn[c].step
           /\ posts[PostOf(c)].failed = FALSE
           /\ \A i \in DOMAIN posts :
                posts[i].from = c /\ IsCurrent(posts[i], conn[c]) => i = PostOf(c)
<1> DEFINE P(i) == /\ posts[i].from = c /\ posts[i].to = conn[c].next
                   /\ posts[i].step = conn[c].step /\ ~posts[i].failed
<1>1. \A i \in DOMAIN posts :
        /\ posts[i].to \in Nat /\ posts[i].step \in Nat /\ posts[i].failed \in BOOLEAN
        /\ i \in Nat
  BY PostsAre
<1>2. \E i \in DOMAIN posts : P(i)
  <2>1. PICK i \in DOMAIN posts : posts[i].from = c /\ IsCurrent(posts[i], conn[c])
    BY DEF PostsOK
  <2>2. PostOK(posts[i], conn[c])
    BY <2>1 DEF PostsOK
  <2>3. ~posts[i].failed
    BY <1>1, <2>1, <2>2 DEF PostOK, IsCurrent
  <2> QED BY <2>1, <2>3 DEF IsCurrent
<1>3. PostOf(c) \in DOMAIN posts /\ P(PostOf(c))
  BY <1>2 DEF PostOf
<1>4. ASSUME NEW i \in DOMAIN posts, posts[i].from = c, IsCurrent(posts[i], conn[c])
      PROVE  i = PostOf(c)
  <2> DEFINE j == PostOf(c)
  <2>1. j \in DOMAIN posts /\ P(j)
    BY <1>3
  <2>2. posts[i].to = posts[j].to /\ posts[i].step = posts[j].step
    BY <1>4, <2>1 DEF IsCurrent
  <2> HIDE DEF j
  <2>3. ~Before(posts[i], posts[j]) /\ ~Before(posts[j], posts[i])
    BY <1>1, <2>1, <2>2 DEF Before
  <2>4. ~(i < j) /\ ~(j < i)
    BY <1>4, <2>1, <2>3 DEF PostsOK
  <2>5. i = j
    BY <1>1, <2>1, <2>4
  <2> QED BY <2>5 DEF j
<1> QED BY <1>1, <1>3, <1>4

\* A step of one session that posts nothing.
LEMMA SessionStep ==
    ASSUME IInv, NEW c \in Conns, conn' = [conn EXCEPT ![c] = conn'[c]],
           UNCHANGED <<posts, ran>>,
           SessionOK(c, conn'[c]), AnsweredOK(conn'[c]), conn'[c].pc # "waiting",
           \A i \in DOMAIN posts : posts[i].from = c =>
                /\ PostOK(posts[i], conn'[c])
                /\ i \in Range(ran) \/ posts[i].failed \/ IsCurrent(posts[i], conn'[c])
                /\ posts[i].failed => \A k \in DOMAIN conn'[c].answers :
                        conn'[c].answers[k].to = posts[i].to => conn'[c].answers[k].what = [failed |-> 4002]
    PROVE  IInv'
<1>1. \A d \in Conns : d # c => conn'[d] = conn[d]
  BY DEF IInv, SessionsOK
<1>2. conn' = [d \in Conns |-> conn'[d]]
  BY DEF IInv, SessionsOK
<1>3. SessionsOK'
  <2>1. \A d \in Conns : SessionOK(d, conn'[d]) /\ AnsweredOK(conn'[d])
    BY <1>1 DEF IInv, SessionsOK
  <2> QED BY <1>2, <2>1 DEF SessionsOK
<1>4. \A i \in DOMAIN posts : posts[i].from \in Conns
  BY PostsAre DEF IInv
<1>5. PostsOK'
  <2>1. \A i \in DOMAIN posts : PostOK(posts[i], conn'[posts[i].from])
    BY <1>1, <1>4 DEF IInv, PostsOK
  <2>2. \A i \in DOMAIN posts :
            i \in Range(ran) \/ posts[i].failed \/ IsCurrent(posts[i], conn'[posts[i].from])
    BY <1>1, <1>4 DEF IInv, PostsOK
  <2>3. \A d \in Conns : conn'[d].pc = "waiting" =>
            \E i \in DOMAIN posts : posts[i].from = d /\ IsCurrent(posts[i], conn'[d])
    BY <1>1 DEF IInv, PostsOK
  <2> QED BY <2>1, <2>2, <2>3 DEF IInv, PostsOK
<1>6. RanOK'
  BY DEF IInv, RanOK
<1>7. ToldOK'
  BY <1>1, <1>4 DEF IInv, ToldOK
<1> QED BY <1>3, <1>5, <1>6, <1>7 DEF IInv

\* The posts of a session that finishes a request stay in order.
LEMMA FinishStep ==
    ASSUME IInv, NEW c \in Conns, conn[c].pc \in {"handling", "calling", "waiting"},
           conn[c].next \in DOMAIN conn[c].body,
           conn[c].pc = "waiting" => PostOf(c) \in Range(ran),
           NEW what \in Whats, IsResultFor(what, Current(c)),
           conn' = [conn EXCEPT ![c] = Finished(c, what)],
           UNCHANGED <<posts, ran>>
    PROVE  IInv'
<1> DEFINE s == conn[c]
           t == Finished(c, what)
<1>1. SessionOK(c, s) /\ AnsweredOK(s)
  BY DEF IInv, SessionsOK
<1>2. /\ SessionOK(c, t) /\ AnsweredOK(t)
      /\ t.pc = "handling" /\ t.body = s.body /\ t.next = s.next + 1
      /\ \A i \in DOMAIN t.answers :
            \/ i \in DOMAIN s.answers /\ t.answers[i] = s.answers[i]
            \/ t.answers[i].to = s.next /\ t.answers[i].what = what
  BY <1>1, FinishedSession
<1>3. s.next \in Nat
  <2>1. Len(s.body) \in Nat
    BY <1>1, BodiesAre DEF SessionOK
  <2> QED BY <1>1, <2>1 DEF SessionOK
<1>5. conn' = [conn EXCEPT ![c] = conn'[c]] /\ conn'[c] = t
  BY DEF IInv, SessionsOK
<1> HIDE DEF t
<1>4. ASSUME NEW i \in DOMAIN posts, posts[i].from = c
      PROVE  /\ PostOK(posts[i], t)
             /\ i \in Range(ran) \/ posts[i].failed \/ IsCurrent(posts[i], t)
             /\ posts[i].failed => \A k \in DOMAIN t.answers :
                    t.answers[k].to = posts[i].to => t.answers[k].what = [failed |-> 4002]
  <2>1. PostOK(posts[i], s) /\ posts[i].to \in Nat
    BY <1>4, PostsAre DEF IInv, PostsOK
  <2>2. posts[i].to < t.next
    BY <1>2, <1>3, <2>1 DEF PostOK
  <2>3. PostOK(posts[i], t)
    BY <1>2, <1>3, <2>1, <2>2 DEF PostOK
  <2>4. i \in Range(ran) \/ posts[i].failed
    BY <1>4, WaitsForOne DEF IInv, PostsOK, IsCurrent
  <2>5. ASSUME posts[i].failed, NEW k \in DOMAIN t.answers, t.answers[k].to = posts[i].to
        PROVE  t.answers[k].what = [failed |-> 4002]
    <3>1. posts[i].to # s.next
      BY <1>3, <2>1, <2>5 DEF PostOK
    <3> QED BY <1>2, <1>4, <2>5, <3>1 DEF IInv, ToldOK
  <2> QED BY <2>3, <2>4, <2>5
<1>6. /\ SessionOK(c, conn'[c]) /\ AnsweredOK(conn'[c]) /\ conn'[c].pc # "waiting"
      /\ UNCHANGED <<posts, ran>>
      /\ conn' = [conn EXCEPT ![c] = conn'[c]]
  BY <1>2, <1>5
<1>7. \A i \in DOMAIN posts : posts[i].from = c =>
        /\ PostOK(posts[i], conn'[c])
        /\ i \in Range(ran) \/ posts[i].failed \/ IsCurrent(posts[i], conn'[c])
        /\ posts[i].failed => \A k \in DOMAIN conn'[c].answers :
                conn'[c].answers[k].to = posts[i].to => conn'[c].answers[k].what = [failed |-> 4002]
  BY <1>4, <1>5
<1> QED BY ONLY IInv, c \in Conns, <1>6, <1>7, SessionStep

LEMMA SessionIs ==
    ASSUME IInv, NEW c \in Conns
    PROVE  /\ SessionOK(c, conn[c]) /\ AnsweredOK(conn[c])
           /\ conn[c] = [pc |-> conn[c].pc, body |-> conn[c].body, next |-> conn[c].next,
                         method |-> conn[c].method, plan |-> conn[c].plan,
                         step |-> conn[c].step, answers |-> conn[c].answers]
           /\ conn[c].body \in Bodies(c) \cup {<<>>}
           /\ Len(conn[c].body) \in Nat /\ DOMAIN conn[c].body = 1 .. Len(conn[c].body)
           /\ conn[c].next \in Nat
<1>1. SessionOK(c, conn[c]) /\ AnsweredOK(conn[c])
  BY DEF IInv, SessionsOK
<1>2. Len(conn[c].body) \in Nat /\ DOMAIN conn[c].body = 1 .. Len(conn[c].body)
  BY <1>1, BodiesAre DEF SessionOK
<1> QED BY <1>1, <1>2 DEF SessionOK, IsSession

\* The posts of a session are for the requests before the next one, or for that.
LEMMA PostsBehind ==
    ASSUME IInv, NEW i \in DOMAIN posts
    PROVE  LET s == conn[posts[i].from] IN
           /\ posts[i].from \in Conns
           /\ PostOK(posts[i], s)
           /\ posts[i].to \in Nat /\ posts[i].to \in 1 .. Len(s.body)
           /\ posts[i].to = s.next \/ posts[i].to < s.next
           /\ s.pc \notin InCall => posts[i].to < s.next
<1> DEFINE c == posts[i].from
<1>1. c \in Conns /\ posts[i].to \in Nat /\ PostOK(posts[i], conn[c])
  BY PostsAre DEF IInv, PostsOK
<1> HIDE DEF c
<1>2. conn[c].next \in Nat /\ DOMAIN conn[c].body = 1 .. Len(conn[c].body)
  BY <1>1, SessionIs
<1>3. posts[i].to = conn[c].next \/ posts[i].to < conn[c].next
  BY <1>1, <1>2 DEF PostOK
<1>4. conn[c].pc \notin InCall => posts[i].to < conn[c].next
  BY <1>1, <1>3 DEF PostOK
<1>5. posts[i].to \in 1 .. Len(conn[c].body)
  BY <1>1, <1>2 DEF PostOK
<1> QED BY <1>1, <1>3, <1>4, <1>5 DEF c

\* A session before its first request.
LEMMA FreshSession ==
    ASSUME NEW c \in Conns, NEW s, IsSession(s), s.body \in Bodies(c) \cup {<<>>},
           s.next = 1, s.step = 1, s.answers = <<>>,
           s.pc \in {"idle", "handling"}, s.pc = "idle" => s = Idle
    PROVE  SessionOK(c, s) /\ AnsweredOK(s)
<1>1. IsSession(s) /\ s.next = 1 /\ s.step = 1 /\ s.answers = <<>>
  OBVIOUS
<1>2. Len(s.body) \in Nat
  BY BodiesAre
<1>3. s.next \in 1 .. Len(s.body) + 1
  BY ONLY <1>1, <1>2
<1>4. SessionOK(c, s)
  BY ONLY <1>1, <1>3, s.pc \in {"idle", "handling"}, s.pc = "idle" => s = Idle,
          s.body \in Bodies(c) \cup {<<>>} DEF SessionOK, InCall
<1>5. AnsweredOK(s)
  <2>1. <<>> \in Seq(AnswerTo)
    BY ONLY EmptySeq
  <2>2. \A k \in 1 .. s.next - 1 : FALSE
    BY ONLY <1>1
  <2>3. DOMAIN s.answers = {}
    BY ONLY <1>1
  <2> QED BY ONLY <1>1, <2>1, <2>2, <2>3 DEF AnsweredOK
<1> QED BY <1>4, <1>5

LEMMA InitIInv == Init => IInv
<1> SUFFICES ASSUME Init PROVE IInv
  OBVIOUS
<1>1. conn = [c \in Conns |-> Idle] /\ posts = <<>> /\ ran = <<>>
  BY DEF Init
<1>2. ASSUME NEW c \in Conns
      PROVE  SessionOK(c, Idle) /\ AnsweredOK(Idle)
  <2>1. /\ IsSession(Idle) /\ Idle.pc = "idle" /\ Idle.body = <<>>
        /\ Idle.next = 1 /\ Idle.step = 1 /\ Idle.answers = <<>>
    BY DEF Idle, IsSession
  <2> QED BY <2>1, FreshSession
<1>3. SessionsOK
  BY <1>1, <1>2 DEF SessionsOK
<1>4. PostsOK
  <2>1. Idle.pc # "waiting"
    BY DEF Idle
  <2> QED BY <1>1, <2>1 DEF PostsOK
<1>5. RanOK /\ ToldOK
  BY <1>1 DEF RanOK, ToldOK
<1> QED BY <1>3, <1>4, <1>5 DEF IInv

LEMMA AcceptOK ==
    ASSUME IInv, NEW c \in Conns, NEW body \in Bodies(c), Accept(c, body)
    PROVE  IInv'
<1>1. conn[c].pc = "idle" /\ UNCHANGED <<posts, ran>>
  BY DEF Accept
<1>2. conn[c].body = <<>>
  <2>1. conn[c] = Idle
    BY <1>1, SessionIs DEF SessionOK
  <2>2. Idle.body = <<>>
    BY DEF Idle
  <2> QED BY <2>1, <2>2
<1>3. \A i \in DOMAIN posts : posts[i].from # c
  <2> SUFFICES ASSUME NEW i \in DOMAIN posts, posts[i].from = c PROVE FALSE
    OBVIOUS
  <2>1. posts[i].to \in DOMAIN <<>>
    BY <1>2, PostsBehind DEF PostOK
  <2> QED BY <2>1
<1>4. /\ conn' = [conn EXCEPT ![c] = conn'[c]]
      /\ conn'[c] = [pc |-> "handling", body |-> body, next |-> 1, method |-> "", plan |-> NoPlan,
                     step |-> 1, answers |-> <<>>]
  BY DEF Accept, Idle, IInv, SessionsOK
<1>5. SessionOK(c, conn'[c]) /\ AnsweredOK(conn'[c]) /\ conn'[c].pc = "handling"
  <2> DEFINE new == [pc |-> "handling", body |-> body, next |-> 1, method |-> "", plan |-> NoPlan,
                   step |-> 1, answers |-> <<>>]
  <2>1. conn'[c] = new
    BY <1>4
  <2>2. /\ new.pc = "handling" /\ new.body = body /\ new.next = 1 /\ new.step = 1 /\ new.answers = <<>>
        /\ IsSession(new)
    BY DEF IsSession
  <2> HIDE DEF new
  <2>3. new.body \in Bodies(c) \cup {<<>>}
    BY <2>2
  <2>4. /\ IsSession(conn'[c]) /\ conn'[c].body \in Bodies(c) \cup {<<>>}
        /\ conn'[c].next = 1 /\ conn'[c].step = 1 /\ conn'[c].answers = <<>>
        /\ conn'[c].pc \in {"idle", "handling"} /\ conn'[c].pc = "handling"
        /\ conn'[c].pc = "idle" => conn'[c] = Idle
    BY ONLY <2>1, <2>2, <2>3
  <2> QED BY ONLY c \in Conns, <2>4, FreshSession
<1>6. conn'[c].pc # "waiting"
  BY ONLY <1>5
<1>7. \A i \in DOMAIN posts : posts[i].from = c =>
        /\ PostOK(posts[i], conn'[c])
        /\ i \in Range(ran) \/ posts[i].failed \/ IsCurrent(posts[i], conn'[c])
        /\ posts[i].failed => \A k \in DOMAIN conn'[c].answers :
                conn'[c].answers[k].to = posts[i].to => conn'[c].answers[k].what = [failed |-> 4002]
  BY ONLY <1>3
<1>8. conn' = [conn EXCEPT ![c] = conn'[c]]
  BY <1>4
<1> QED BY ONLY IInv, c \in Conns, <1>1, <1>5, <1>6, <1>7, <1>8, SessionStep

LEMMA HandledIsWhat ==
    ASSUME NEW code \in Int
    PROVE  /\ Refuse(code) \in Whats
           /\ "refused" \in DOMAIN Refuse(code) /\ "method" \notin DOMAIN Refuse(code)
           /\ \A r : IsResultFor(Refuse(code), r)
BY DEF Refuse, Whats, IsResultFor

LEMMA FailedIsWhat ==
    ASSUME NEW code \in Int
    PROVE  [failed |-> code] \in Whats /\ \A r : IsResultFor([failed |-> code], r)
BY DEF Whats, IsResultFor

\* The call that a request asks for, or its refusal.
LEMMA StartsWell ==
    ASSUME IInv, NEW c \in Conns, conn[c].next \in DOMAIN conn[c].body
    PROVE  LET called == handle(Current(c).method, Current(c).params) IN
           \/ \E code \in Int : called = Refuse(code)
           \/ /\ called = [method |-> called.method, args |-> called.args]
              /\ called.method \in Verified <=> Current(c).method \in Special
              /\ \A plan \in Plans(called.method, called.args) : PlanFor(plan, Current(c))
<1>1. conn[c].body \in Bodies(c) \cup {<<>>}
  BY SessionIs
<1>2. Current(c).method \in DOMAIN Parameters =>
        Current(c).params \in SoundParams(Parameters[Current(c).method])
                                \cup UnsoundParams(Parameters[Current(c).method])
  BY <1>1, BodiesAre DEF Current
<1> QED BY <1>2, HandledWell

\* A session goes on with the request that it is with, or ends there.
LEMMA StayStep ==
    ASSUME IInv, NEW c \in Conns, conn' = [conn EXCEPT ![c] = conn'[c]],
           UNCHANGED <<posts, ran>>,
           SessionOK(c, conn'[c]), conn'[c].pc # "waiting",
           conn'[c].body = conn[c].body, conn'[c].next = conn[c].next,
           conn'[c].answers = conn[c].answers,
           \A i \in DOMAIN posts : posts[i].from = c /\ posts[i].to = conn[c].next =>
                /\ conn'[c].pc \in InCall /\ posts[i].step <= conn'[c].step
                /\ conn'[c].pc = "calling" => posts[i].step < conn'[c].step
                /\ i \in Range(ran) \/ IsCurrent(posts[i], conn'[c])
    PROVE  IInv'
<1>1. AnsweredOK(conn'[c])
  <2>1. AnsweredOK(conn[c])
    BY SessionIs
  <2> QED BY <2>1 DEF AnsweredOK
<1>2. ASSUME NEW i \in DOMAIN posts, posts[i].from = c
      PROVE  /\ PostOK(posts[i], conn'[c])
             /\ i \in Range(ran) \/ posts[i].failed \/ IsCurrent(posts[i], conn'[c])
             /\ posts[i].failed => \A k \in DOMAIN conn'[c].answers :
                 conn'[c].answers[k].to = posts[i].to => conn'[c].answers[k].what = [failed |-> 4002]
  <2>1. PostOK(posts[i], conn[c])
    BY <1>2, PostsBehind
  <2>2. PostOK(posts[i], conn'[c])
    BY <1>2, <2>1 DEF PostOK
  <2>3. i \in Range(ran) \/ posts[i].failed \/ IsCurrent(posts[i], conn'[c])
    BY <1>2 DEF IInv, PostsOK, IsCurrent
  <2>4. posts[i].failed => \A k \in DOMAIN conn[c].answers :
            conn[c].answers[k].to = posts[i].to => conn[c].answers[k].what = [failed |-> 4002]
    BY <1>2 DEF IInv, ToldOK
  <2> QED BY <2>2, <2>3, <2>4
<1> QED BY <1>1, <1>2, SessionStep

LEMMA StartOK ==
    ASSUME IInv, NEW c \in Conns, Start(c)
    PROVE  IInv'
<1> DEFINE called == handle(Current(c).method, Current(c).params)
<1>1. /\ conn[c].pc = "handling" /\ conn[c].next \in DOMAIN conn[c].body
      /\ UNCHANGED <<posts, ran>>
  BY DEF Start
<1>2. \/ \E code \in Int : called = Refuse(code)
      \/ /\ called = [method |-> called.method, args |-> called.args]
         /\ called.method \in Verified <=> Current(c).method \in Special
         /\ \A plan \in Plans(called.method, called.args) : PlanFor(plan, Current(c))
  BY <1>1, StartsWell
<1>3. \/ /\ "refused" \in DOMAIN called
         /\ conn' = [conn EXCEPT ![c] = Finished(c, called)]
      \/ /\ "method" \in DOMAIN called
         /\ \E plan \in Plans(called.method, called.args) :
                conn' = [conn EXCEPT ![c].pc = "calling", ![c].method = called.method,
                                     ![c].plan = plan]
  BY DEF Start
<1> HIDE DEF called
<1>4. CASE \E code \in Int : called = Refuse(code)
  <2>1. "method" \notin DOMAIN called /\ called \in Whats /\ IsResultFor(called, Current(c))
    BY <1>4, HandledIsWhat
  <2>2. conn' = [conn EXCEPT ![c] = Finished(c, called)]
    BY <1>3, <2>1
  <2> QED BY <1>1, <2>1, <2>2, FinishStep
<1>5. CASE ~\E code \in Int : called = Refuse(code)
  <2>1. /\ called = [method |-> called.method, args |-> called.args]
        /\ called.method \in Verified <=> Current(c).method \in Special
        /\ \A plan \in Plans(called.method, called.args) : PlanFor(plan, Current(c))
    BY <1>2, <1>5
  <2>2. "refused" \notin DOMAIN called
    BY ONLY <2>1
  <2>3. PICK plan \in Plans(called.method, called.args) :
            conn' = [conn EXCEPT ![c].pc = "calling", ![c].method = called.method,
                                 ![c].plan = plan]
    BY <1>3, <2>2
  <2>4. conn[c].step = 1
    BY <1>1, SessionIs DEF SessionOK
  <2>5. /\ conn' = [conn EXCEPT ![c] = conn'[c]]
        /\ conn'[c] = [pc |-> "calling", body |-> conn[c].body, next |-> conn[c].next,
                       method |-> called.method, plan |-> plan, step |-> 1,
                       answers |-> conn[c].answers]
    <3>1. /\ conn' = [conn EXCEPT ![c] = conn'[c]]
          /\ conn'[c] = [conn[c] EXCEPT !.pc = "calling", !.method = called.method,
                                        !.plan = plan]
      BY <2>3 DEF IInv, SessionsOK
    <3> QED BY <2>4, <3>1, SessionIs
  <2>6. PlanFor(plan, conn[c].body[conn[c].next])
    BY <2>1 DEF Current
  <2>7. 1 \in DOMAIN plan.steps
    BY <2>6 DEF PlanFor
  <2>8. SessionOK(c, conn[c])
    BY SessionIs
  <2>9. called.method \in Verified <=> conn[c].body[conn[c].next].method \in Special
    BY <2>1 DEF Current
  <2>10. SessionOK(c, conn'[c])
    BY ONLY <1>1, <2>5, <2>6, <2>7, <2>8, <2>9 DEF SessionOK, InCall, IsSession
  <2>11. /\ conn'[c].pc # "waiting" /\ conn'[c].body = conn[c].body
         /\ conn'[c].next = conn[c].next /\ conn'[c].answers = conn[c].answers
    BY ONLY <2>5
  <2>12. \A i \in DOMAIN posts : ~(posts[i].from = c /\ posts[i].to = conn[c].next)
    BY <1>1, PostsBehind, SessionIs DEF InCall
  <2> QED BY ONLY IInv, c \in Conns, <1>1, <2>5, <2>10, <2>11, <2>12, StayStep
<1> QED BY <1>4, <1>5

\* The last post's answer has come, or the execution's: the next step, or the end.
LEMMA AdvanceOK ==
    ASSUME IInv, NEW c \in Conns, conn[c].pc \in {"calling", "waiting"},
           conn[c].pc = "waiting" => PostOf(c) \in Range(ran),
           conn' = [conn EXCEPT ![c] = Advance(c)],
           UNCHANGED <<posts, ran>>
    PROVE  IInv'
<1> DEFINE s == conn[c]
<1>1. /\ SessionOK(c, s) /\ s.next \in DOMAIN s.body /\ PlanFor(s.plan, Current(c))
      /\ s.step \in DOMAIN s.plan.steps
  BY SessionIs DEF SessionOK, InCall, Current
<1>2. CASE s.step < Len(s.plan.steps)
  <2>1. s.plan.steps \in Seq(Steps)
    BY <1>1 DEF PlanFor
  <2>2. /\ conn' = [conn EXCEPT ![c] = conn'[c]]
        /\ conn'[c] = [pc |-> "calling", body |-> s.body, next |-> s.next, method |-> s.method,
                       plan |-> s.plan, step |-> s.step + 1, answers |-> s.answers]
    <3>1. /\ conn' = [conn EXCEPT ![c] = conn'[c]]
          /\ conn'[c] = [s EXCEPT !.pc = "calling", !.step = @ + 1]
      BY <1>2 DEF Advance, IInv, SessionsOK
    <3>2. s = [pc |-> s.pc, body |-> s.body, next |-> s.next, method |-> s.method,
               plan |-> s.plan, step |-> s.step, answers |-> s.answers]
      BY SessionIs
    <3> HIDE DEF s
    <3> QED BY ONLY <3>1, <3>2
  <2>3. s.step + 1 \in DOMAIN s.plan.steps /\ s.step \in Nat
    BY <1>1, <1>2, <2>1
  <2>4. SessionOK(c, conn'[c])
    BY ONLY <1>1, <2>2, <2>3, conn[c].pc \in {"calling", "waiting"}
       DEF SessionOK, InCall, IsSession
  <2>5. /\ conn'[c].pc = "calling" /\ conn'[c].body = s.body /\ conn'[c].step = s.step + 1
        /\ conn'[c].next = s.next /\ conn'[c].answers = s.answers
    BY ONLY <2>2
  <2>6. ASSUME NEW i \in DOMAIN posts, posts[i].from = c, posts[i].to = s.next
        PROVE  posts[i].step < s.step + 1 /\ i \in Range(ran)
    <3>1. PostOK(posts[i], s) /\ posts[i].step \in Nat /\ posts[i].to \in Nat
      BY <2>6, PostsBehind, PostsAre DEF IInv
    <3>2. posts[i].step <= s.step /\ ~posts[i].failed
      BY <2>6, <3>1 DEF PostOK
    <3>3. i \in Range(ran) \/ IsCurrent(posts[i], s)
      BY <2>6, <3>2 DEF IInv, PostsOK
    <3>4. IsCurrent(posts[i], s) => i \in Range(ran)
      BY <2>6, WaitsForOne DEF IInv, IsCurrent
    <3> QED BY <2>3, <3>1, <3>2, <3>3, <3>4
  <2>7. \A i \in DOMAIN posts : posts[i].from = c /\ posts[i].to = s.next =>
            /\ posts[i].step <= s.step + 1 /\ posts[i].step < s.step + 1
            /\ i \in Range(ran)
    BY <2>3, <2>6, PostsAre DEF IInv
  <2> QED BY ONLY IInv, c \in Conns, UNCHANGED <<posts, ran>>, <2>2, <2>4, <2>5, <2>7, StayStep
          DEF InCall
<1>3. CASE ~(s.step < Len(s.plan.steps))
  <2> DEFINE what == [result |-> s.plan.steps[s.plan.result]]
  <2>1. conn' = [conn EXCEPT ![c] = Finished(c, what)]
    BY <1>3 DEF Advance
  <2>2. s.plan.steps[s.plan.result] \in Steps
    BY <1>1 DEF PlanFor
  <2>3. what \in Whats
    BY <2>2 DEF Whats
  <2>4. IsResultFor(what, Current(c))
    BY <1>1 DEF IsResultFor, PlanFor
  <2> HIDE DEF what
  <2> QED BY <1>1, <2>1, <2>3, <2>4, FinishStep
<1> QED BY <1>2, <1>3

LEMMA FailOK ==
    ASSUME IInv, NEW c \in Conns, conn[c].pc \in {"calling", "waiting"},
           conn[c].pc = "waiting" => PostOf(c) \in Range(ran),
           NEW code \in Int, conn' = [conn EXCEPT ![c] = Finished(c, [failed |-> code])],
           UNCHANGED <<posts, ran>>
    PROVE  IInv'
<1> DEFINE what == [failed |-> code]
<1>1. conn[c].next \in DOMAIN conn[c].body
  BY SessionIs DEF SessionOK, InCall
<1>2. what \in Whats /\ IsResultFor(what, Current(c))
  BY FailedIsWhat
<1>3. conn' = [conn EXCEPT ![c] = Finished(c, what)]
  OBVIOUS
<1> HIDE DEF what
<1> QED BY <1>1, <1>2, <1>3, FinishStep

\* What the client reads of an answer: that it failed, or the result.
LEMMA ReadIs ==
    ASSUME NEW reply \in Replies
    PROVE  \/ "failed" \notin DOMAIN Read(reply)
           \/ \E code \in Int : Read(reply) = [failed |-> code] /\ code # 4002
<1>1. reply \in {"result", "error", "both", "not_json", "other", "neither"}
  BY JsonRpcAssumption
<1> QED BY <1>1 DEF Read

LEMMA NodeRepliesOK ==
    ASSUME IInv, NEW c \in Conns, NEW reply \in Replies, NodeReplies(c, reply)
    PROVE  IInv'
<1>1. conn[c].pc = "waiting" /\ PostOf(c) \in Range(ran) /\ UNCHANGED <<posts, ran>>
  BY DEF NodeReplies
<1>2. CASE "failed" \in DOMAIN Read(reply)
  <2>1. PICK code \in Int : Read(reply) = [failed |-> code]
    BY <1>2, ReadIs
  <2>2. conn' = [conn EXCEPT ![c] = Finished(c, [failed |-> code])]
    BY <1>2, <2>1 DEF NodeReplies
  <2> QED BY <1>1, <2>2, FailOK
<1>3. CASE "failed" \notin DOMAIN Read(reply)
  <2>1. conn' = [conn EXCEPT ![c] = Advance(c)]
    BY <1>3 DEF NodeReplies
  <2> QED BY <1>1, <2>1, AdvanceOK
<1> QED BY <1>2, <1>3

LEMMA RefuseBlockOK ==
    ASSUME IInv, NEW c \in Conns, RefuseBlock(c)
    PROVE  IInv'
<1>1. /\ conn[c].pc = "calling"
      /\ UNCHANGED <<posts, ran>>
      /\ conn' = [conn EXCEPT ![c] = Finished(c, [failed |-> -1])]
  BY DEF RefuseBlock
<1>2. -1 \in Int
  OBVIOUS
<1> QED BY ONLY IInv, c \in Conns, <1>1, <1>2, FailOK

LEMMA RejectOK ==
    ASSUME IInv, NEW c \in Conns, Reject(c)
    PROVE  IInv'
<1>1. /\ conn[c].pc = "waiting" /\ PostOf(c) \in Range(ran) /\ UNCHANGED <<posts, ran>>
      /\ conn' = [conn EXCEPT ![c] = Finished(c, [failed |-> -32700])]
  BY DEF Reject
<1> DEFINE code == -32700
<1>2. code \in Int /\ conn' = [conn EXCEPT ![c] = Finished(c, [failed |-> code])]
  BY <1>1
<1> HIDE DEF code
<1>3. conn[c].pc \in {"calling", "waiting"}
  BY <1>1
<1>4. UNCHANGED <<posts, ran>> /\ PostOf(c) \in Range(ran)
  BY <1>1
<1> QED BY <1>2, <1>3, <1>4, FailOK

LEMMA ExecutionEndsOK ==
    ASSUME IInv, NEW c \in Conns, ExecutionEnds(c)
    PROVE  IInv'
<1>1. conn[c].pc = "calling" /\ UNCHANGED <<posts, ran>>
  BY DEF ExecutionEnds
<1>2. \/ conn' = [conn EXCEPT ![c] = Advance(c)]
      \/ conn' = [conn EXCEPT ![c] = Finished(c, [failed |-> 500])]
  BY DEF ExecutionEnds
<1> QED BY <1>1, <1>2, AdvanceOK, FailOK

LEMMA RespondOK ==
    ASSUME IInv, NEW c \in Conns, Respond(c)
    PROVE  IInv'
<1> DEFINE s == conn[c]
<1>1. s.pc = "handling" /\ s.next > Len(s.body) /\ UNCHANGED <<posts, ran>>
  BY DEF Respond
<1>2. /\ conn' = [conn EXCEPT ![c] = conn'[c]]
      /\ conn'[c] = [s EXCEPT !.pc = "responded"]
  BY DEF Respond, IInv, SessionsOK
<1>3. s = [pc |-> s.pc, body |-> s.body, next |-> s.next, method |-> s.method,
           plan |-> s.plan, step |-> s.step, answers |-> s.answers]
  BY SessionIs
<1>4. SessionOK(c, s) /\ s.next = Len(s.body) + 1
  <2>1. SessionOK(c, s) /\ s.next \in Nat /\ Len(s.body) \in Nat
    BY SessionIs
  <2>2. s.next \in 1 .. Len(s.body) + 1
    BY <2>1 DEF SessionOK
  <2> HIDE DEF s
  <2> QED BY ONLY <1>1, <2>1, <2>2
<1>5. \A i \in DOMAIN posts : ~(posts[i].from = c /\ posts[i].to = s.next)
  BY <1>1, PostsBehind, SessionIs DEF InCall
<1> HIDE DEF s
<1>6. /\ conn'[c] = [pc |-> "responded", body |-> s.body, next |-> s.next, method |-> s.method,
                     plan |-> s.plan, step |-> s.step, answers |-> s.answers]
  BY ONLY <1>2, <1>3
<1>7. SessionOK(c, conn'[c])
  BY ONLY <1>4, <1>6 DEF SessionOK, InCall, IsSession
<1>8. /\ conn'[c].pc # "waiting" /\ conn'[c].body = s.body
      /\ conn'[c].next = s.next /\ conn'[c].answers = s.answers
  BY ONLY <1>6
<1> QED BY ONLY IInv, c \in Conns, <1>1, <1>2, <1>5, <1>7, <1>8, StayStep DEF s

LEMMA DisconnectOK ==
    ASSUME IInv, NEW c \in Conns, Disconnect(c)
    PROVE  IInv'
<1> DEFINE s == conn[c]
<1>1. s.pc \in {"calling", "waiting"} /\ UNCHANGED <<posts, ran>>
  BY DEF Disconnect
<1>2. /\ conn' = [conn EXCEPT ![c] = conn'[c]]
      /\ conn'[c] = [s EXCEPT !.pc = "gone"]
  BY DEF Disconnect, IInv, SessionsOK
<1>3. s = [pc |-> s.pc, body |-> s.body, next |-> s.next, method |-> s.method,
           plan |-> s.plan, step |-> s.step, answers |-> s.answers]
  BY SessionIs
<1>4. SessionOK(c, s)
  BY SessionIs
<1>5. \A i \in DOMAIN posts : posts[i].from = c /\ posts[i].to = s.next =>
        /\ posts[i].step <= s.step
        /\ i \notin Range(ran) => posts[i].step = s.step
  <2> TAKE i \in DOMAIN posts
  <2> HAVE posts[i].from = c /\ posts[i].to = s.next
  <2>1. PostOK(posts[i], s) /\ s.next \in Nat
    BY PostsBehind, SessionIs
  <2>2. posts[i].step <= s.step /\ ~posts[i].failed
    BY <2>1 DEF PostOK
  <2> QED BY <2>2 DEF IInv, PostsOK, IsCurrent
<1> HIDE DEF s
<1>6. /\ conn'[c] = [pc |-> "gone", body |-> s.body, next |-> s.next, method |-> s.method,
                     plan |-> s.plan, step |-> s.step, answers |-> s.answers]
  BY ONLY <1>2, <1>3
<1>7. SessionOK(c, conn'[c])
  BY ONLY <1>1, <1>4, <1>6 DEF SessionOK, InCall, IsSession
<1>8. /\ conn'[c].pc = "gone" /\ conn'[c].body = s.body /\ conn'[c].step = s.step
      /\ conn'[c].next = s.next /\ conn'[c].answers = s.answers
  BY ONLY <1>6
<1>9. \A i \in DOMAIN posts : posts[i].from = c /\ posts[i].to = s.next =>
        /\ conn'[c].pc \in InCall /\ posts[i].step <= conn'[c].step
        /\ conn'[c].pc = "calling" => posts[i].step < conn'[c].step
        /\ i \in Range(ran) \/ IsCurrent(posts[i], conn'[c])
  BY ONLY <1>5, <1>8 DEF InCall, IsCurrent
<1>10. conn'[c].pc # "waiting"
  BY ONLY <1>8
<1> QED BY ONLY IInv, c \in Conns, <1>1, <1>2, <1>7, <1>8, <1>9, <1>10, StayStep DEF s

LEMMA NodeRunsOK ==
    ASSUME IInv, NEW i \in DOMAIN posts, NodeRuns(i)
    PROVE  IInv'
<1> DEFINE n == Len(ran)
<1>1. /\ i \notin Range(ran) /\ ran' = Append(ran, i) /\ UNCHANGED <<conn, posts>>
      /\ ran \in Seq(Nat) /\ i \in Nat
  BY PostsAre DEF NodeRuns, IInv, RanOK
<1>2. /\ n \in Nat /\ DOMAIN ran = 1 .. n
      /\ ran' \in Seq(Nat) /\ DOMAIN ran' = 1 .. n + 1
      /\ \A m \in 1 .. n : ran'[m] = ran[m]
      /\ ran'[n + 1] = i
  BY <1>1, AppendProperties
<1> HIDE DEF n
<1>3. \A m \in DOMAIN ran' : m \in DOMAIN ran \/ m = n + 1
  BY <1>2
<1>4. \A m \in DOMAIN ran : m \in DOMAIN ran' /\ ran'[m] = ran[m]
  BY <1>2
<1>5. \A m \in DOMAIN ran : ran[m] # i
  BY <1>1 DEF Range
<1>6. SessionsOK' /\ ToldOK'
  <2>1. SessionsOK /\ ToldOK /\ conn' = conn /\ posts' = posts
    BY <1>1 DEF IInv
  <2>2. SessionsOK'
    BY ONLY <2>1 DEF SessionsOK
  <2>3. ToldOK'
    BY ONLY <2>1 DEF ToldOK
  <2> QED BY <2>2, <2>3
<1>7. PostsOK'
  <2>1. Range(ran) \subseteq Range(ran')
    BY <1>4 DEF Range
  <2> QED BY <1>1, <2>1 DEF IInv, PostsOK
<1>8. RanOK'
  <2>1. \A m \in DOMAIN ran' : ran'[m] \in DOMAIN posts
    BY <1>2, <1>3, <1>4 DEF IInv, RanOK
  <2>2. \A m, k \in DOMAIN ran' : ran'[m] = ran'[k] => m = k
    BY <1>2, <1>3, <1>4, <1>5 DEF IInv, RanOK
  <2>3. ASSUME NEW m \in DOMAIN ran', NEW k \in DOMAIN ran',
               posts[ran'[m]].from = posts[ran'[k]].from, ran'[m] < ran'[k],
               ~posts[ran'[m]].failed
        PROVE  m < k
    <3>1. CASE m = n + 1
      <4> DEFINE j == ran'[k]
                 s == conn[posts[i].from]
      <4>1. ran'[m] = i /\ j \in DOMAIN posts
        BY <1>2, <2>1, <3>1
      <4>2. Before(posts[i], posts[j])
        BY <2>3, <4>1 DEF IInv, PostsOK
      <4>3. IsCurrent(posts[i], s)
        BY <1>1, <2>3, <4>1 DEF IInv, PostsOK
      <4>4. PostOK(posts[j], s) /\ s.next \in Nat
        BY <2>3, <4>1, PostsBehind, SessionIs
      <4>5. posts[j].to <= s.next /\ (posts[j].to = s.next => posts[j].step <= s.step)
        BY <4>4 DEF PostOK
      <4>6. /\ posts[i].to \in Nat /\ posts[j].to \in Nat
            /\ posts[i].step \in Nat /\ posts[j].step \in Nat
        BY <4>1, PostsAre DEF IInv
      <4> HIDE DEF j, s
      <4>7. FALSE
        BY <4>2, <4>3, <4>5, <4>6 DEF Before, IsCurrent
      <4> QED BY <4>7
    <3>2. CASE m # n + 1 /\ k = n + 1
      <4>1. m \in 1 .. n
        BY <1>2, <1>3, <3>2
      <4> QED BY <1>2, <3>2, <4>1
    <3>3. CASE m # n + 1 /\ k # n + 1
      BY <1>3, <1>4, <2>3, <3>3 DEF IInv, RanOK
    <3> QED BY <3>1, <3>2, <3>3
  <2> QED BY <1>1, <1>2, <2>1, <2>2, <2>3 DEF RanOK
<1> QED BY <1>6, <1>7, <1>8 DEF IInv

LEMMA SendOK ==
    ASSUME IInv, NEW c \in Conns, Send(c)
    PROVE  IInv'
<1> DEFINE s == conn[c]
           n == Len(posts)
           p == [from |-> c, to |-> s.next, step |-> s.step,
                 request |-> s.plan.steps[s.step], failed |-> FALSE]
<1>1. /\ s.pc = "calling" /\ s.plan.steps[s.step] # Execute
      /\ posts' = Append(posts, p) /\ UNCHANGED ran
  BY DEF Send
<1>2. /\ conn' = [conn EXCEPT ![c] = conn'[c]]
      /\ conn'[c] = [s EXCEPT !.pc = "waiting"]
  BY DEF Send, IInv, SessionsOK
<1>3. /\ s = [pc |-> s.pc, body |-> s.body, next |-> s.next, method |-> s.method,
              plan |-> s.plan, step |-> s.step, answers |-> s.answers]
      /\ SessionOK(c, s) /\ AnsweredOK(s) /\ s.next \in Nat
  BY SessionIs
<1>4. /\ s.next \in DOMAIN s.body /\ PlanFor(s.plan, s.body[s.next])
      /\ s.step \in DOMAIN s.plan.steps /\ s.plan.steps \in Seq(Steps)
  BY <1>1, <1>3 DEF SessionOK, InCall, PlanFor
<1>5. s.step \in Nat /\ s.plan.steps[s.step] \in Steps
  BY <1>4
<1>6. p \in PostSet
  BY <1>3, <1>5 DEF PostSet
<1>7. /\ posts \in Seq(PostSet) /\ n \in Nat /\ DOMAIN posts = 1 .. n
      /\ posts' \in Seq(PostSet) /\ DOMAIN posts' = 1 .. n + 1
      /\ \A i \in 1 .. n : posts'[i] = posts[i]
      /\ posts'[n + 1] = p
  BY <1>1, <1>6, AppendProperties DEF IInv, PostsOK
<1>8. /\ p.from = c /\ p.to = s.next /\ p.step = s.step /\ p.failed = FALSE
      /\ p.request = s.plan.steps[s.step]
  OBVIOUS
<1> HIDE DEF n, p
<1>9. /\ \A i \in DOMAIN posts' : i \in DOMAIN posts \/ i = n + 1
      /\ \A i \in DOMAIN posts : i \in DOMAIN posts' /\ posts'[i] = posts[i]
      /\ n + 1 \in DOMAIN posts'
  BY <1>7
<1>10. /\ \A d \in Conns : d # c => conn'[d] = conn[d]
       /\ conn' = [d \in Conns |-> conn'[d]]
  BY <1>2 DEF IInv, SessionsOK
<1> HIDE DEF s
<1>11. conn'[c] = [pc |-> "waiting", body |-> s.body, next |-> s.next, method |-> s.method,
                   plan |-> s.plan, step |-> s.step, answers |-> s.answers]
  BY ONLY <1>2, <1>3
<1>12. /\ conn'[c].pc = "waiting" /\ conn'[c].body = s.body /\ conn'[c].next = s.next
       /\ conn'[c].step = s.step /\ conn'[c].answers = s.answers
  BY ONLY <1>11
<1>13. SessionsOK'
  <2>1. SessionOK(c, conn'[c])
    BY ONLY <1>1, <1>3, <1>4, <1>11 DEF SessionOK, InCall, IsSession
  <2>2. AnsweredOK(conn'[c])
    BY ONLY <1>3, <1>12 DEF AnsweredOK
  <2>3. \A d \in Conns : SessionOK(d, conn'[d]) /\ AnsweredOK(conn'[d])
    BY <1>10, <2>1, <2>2, SessionIs
  <2> QED BY <1>10, <2>3 DEF SessionsOK
<1>14. \A i \in DOMAIN posts :
        /\ posts[i].from \in Conns /\ posts[i].to \in Nat /\ posts[i].step \in Nat
        /\ PostOK(posts[i], conn[posts[i].from])
        /\ i \in Range(ran) \/ posts[i].failed \/ IsCurrent(posts[i], conn[posts[i].from])
  BY PostsAre DEF IInv, PostsOK
<1>15. PostsOK'
  <2>1. ASSUME NEW i \in DOMAIN posts', i \in DOMAIN posts
        PROVE  /\ PostOK(posts'[i], conn'[posts'[i].from])
               /\ i \in Range(ran) \/ posts'[i].failed \/ IsCurrent(posts'[i], conn'[posts'[i].from])
    <3>1. CASE posts[i].from # c
      BY <1>9, <1>10, <1>14, <2>1, <3>1
    <3>2. CASE posts[i].from = c
      <4>1. PostOK(posts[i], s) /\ (i \in Range(ran) \/ posts[i].failed \/ IsCurrent(posts[i], s))
        BY <1>14, <2>1, <3>2 DEF s
      <4>2. PostOK(posts[i], conn'[c])
        BY ONLY <1>1, <1>12, <4>1 DEF PostOK, InCall
      <4>3. i \in Range(ran) \/ posts[i].failed
        BY <1>1, <4>1 DEF IsCurrent
      <4> QED BY <1>9, <2>1, <3>2, <4>2, <4>3
    <3> QED BY <3>1, <3>2
  <2>2. /\ PostOK(p, conn'[c]) /\ IsCurrent(p, conn'[c])
    <3>1. Serves(p.request, s.body[s.next])
      BY <1>1, <1>4, <1>8 DEF PlanFor
    <3>2. s.body[s.next].method \notin Special => s.step = 1
      BY <1>4 DEF PlanFor
    <3> QED BY <1>3, <1>4, <1>5, <1>8, <1>12, <3>1, <3>2 DEF PostOK, IsCurrent, InCall
  <2>3. ASSUME NEW i \in DOMAIN posts', NEW j \in DOMAIN posts',
               i < j, posts'[i].from = posts'[j].from
        PROVE  Before(posts'[i], posts'[j])
    <3>1. i \in DOMAIN posts
      BY <1>7, <2>3
    <3>2. CASE j \in DOMAIN posts
      BY <1>9, <2>3, <3>1, <3>2 DEF IInv, PostsOK
    <3>3. CASE j = n + 1
      <4>1. posts[i].from = c
        BY <1>7, <1>8, <1>9, <2>3, <3>1, <3>3
      <4>2. PostOK(posts[i], s) /\ posts[i].to \in Nat
        BY <1>14, <3>1, <4>1 DEF s
      <4>3. posts[i].to < s.next \/ (posts[i].to = s.next /\ posts[i].step < s.step)
        BY <1>1, <1>3, <4>2 DEF PostOK
      <4> QED BY <1>7, <1>8, <1>9, <3>1, <3>3, <4>3 DEF Before
    <3> QED BY <1>9, <3>2, <3>3
  <2>4. ASSUME NEW d \in Conns, conn'[d].pc = "waiting"
        PROVE  \E i \in DOMAIN posts' : posts'[i].from = d /\ IsCurrent(posts'[i], conn'[d])
    <3>1. CASE d = c
      BY <1>7, <1>8, <1>9, <2>2, <3>1
    <3>2. CASE d # c
      <4>1. PICK i \in DOMAIN posts : posts[i].from = d /\ IsCurrent(posts[i], conn[d])
        BY <1>10, <2>4, <3>2 DEF IInv, PostsOK
      <4> QED BY <1>9, <1>10, <3>2, <4>1
    <3> QED BY <3>1, <3>2
  <2>5. \A i \in DOMAIN posts' :
            /\ PostOK(posts'[i], conn'[posts'[i].from])
            /\ i \in Range(ran) \/ posts'[i].failed \/ IsCurrent(posts'[i], conn'[posts'[i].from])
    BY <1>7, <1>8, <1>9, <2>1, <2>2
  <2> QED BY <1>1, <1>7, <2>3, <2>4, <2>5 DEF PostsOK
<1>16. RanOK'
  BY <1>1, <1>9 DEF IInv, RanOK
<1>17. ToldOK'
  <2> SUFFICES ASSUME NEW i \in DOMAIN posts', posts'[i].failed,
                      NEW k \in DOMAIN conn'[posts'[i].from].answers,
                      conn'[posts'[i].from].answers[k].to = posts'[i].to
               PROVE  conn'[posts'[i].from].answers[k].what = [failed |-> 4002]
    BY DEF ToldOK
  <2>1. i \in DOMAIN posts /\ posts'[i] = posts[i]
    BY <1>7, <1>8, <1>9
  <2>2. conn'[posts[i].from].answers = conn[posts[i].from].answers
    BY <1>10, <1>12, <1>14, <2>1 DEF s
  <2> QED BY <2>1, <2>2 DEF IInv, ToldOK
<1> QED BY <1>13, <1>15, <1>16, <1>17 DEF IInv

LEMMA TimesOutOK ==
    ASSUME IInv, NEW c \in Conns, TimesOut(c)
    PROVE  IInv'
<1> DEFINE s == conn[c]
           p == PostOf(c)
           what == [failed |-> 4002]
           t == Finished(c, what)
<1>1. /\ s.pc = "waiting" /\ UNCHANGED ran
      /\ posts' = [posts EXCEPT ![p].failed = TRUE]
      /\ conn' = [conn EXCEPT ![c] = t]
  BY DEF TimesOut
<1>2. SessionOK(c, s) /\ AnsweredOK(s) /\ s.next \in Nat /\ s.next \in DOMAIN s.body
  BY <1>1, SessionIs DEF SessionOK, InCall
<1>3. /\ SessionOK(c, t) /\ AnsweredOK(t)
      /\ t.pc = "handling" /\ t.body = s.body /\ t.next = s.next + 1
      /\ \A i \in DOMAIN t.answers :
            \/ i \in DOMAIN s.answers /\ t.answers[i] = s.answers[i]
            \/ t.answers[i].to = s.next /\ t.answers[i].what = what
  <2>1. what \in Whats /\ IsResultFor(what, Current(c))
    BY FailedIsWhat
  <2> HIDE DEF what
  <2> QED BY <1>2, <2>1, FinishedSession
<1>4. /\ conn'[c] = t
      /\ \A d \in Conns : d # c => conn'[d] = conn[d]
      /\ conn' = [d \in Conns |-> conn'[d]]
  BY <1>1 DEF IInv, SessionsOK
<1>5. /\ p \in DOMAIN posts /\ posts[p].from = c /\ posts[p].to = s.next
      /\ \A i \in DOMAIN posts : posts[i].from = c /\ IsCurrent(posts[i], s) => i = p
  BY <1>1, WaitsForOne DEF IInv
<1> HIDE DEF t, s, p
<1>6. /\ posts' \in Seq(PostSet) /\ DOMAIN posts' = DOMAIN posts
      /\ \A i \in DOMAIN posts : i # p => posts'[i] = posts[i]
      /\ posts'[p] = [posts[p] EXCEPT !.failed = TRUE]
  <2>1. posts \in Seq(PostSet)
    BY DEF IInv, PostsOK
  <2>2. [posts[p] EXCEPT !.failed = TRUE] \in PostSet
    <3>1. posts[p] \in PostSet
      BY <1>5, <2>1
    <3> QED BY <3>1 DEF PostSet
  <2> QED BY <1>1, <1>5, <2>1, <2>2
<1>7. ASSUME NEW i \in DOMAIN posts
      PROVE  /\ posts'[i].from = posts[i].from /\ posts'[i].to = posts[i].to
             /\ posts'[i].step = posts[i].step /\ posts'[i].request = posts[i].request
             /\ posts'[i].failed = IF i = p THEN TRUE ELSE posts[i].failed
  <2>1. posts[i] \in PostSet
    BY DEF IInv, PostsOK
  <2>2. DOMAIN posts[i] = {"from", "to", "step", "request", "failed"}
    BY <2>1 DEF PostSet
  <2> QED BY <1>6, <2>2
<1>8. SessionsOK'
  <2>1. ASSUME NEW d \in Conns
        PROVE  SessionOK(d, conn'[d]) /\ AnsweredOK(conn'[d])
    <3>1. CASE d = c
      BY ONLY <1>3, <1>4, <3>1
    <3>2. CASE d # c
      <4>1. conn'[d] = conn[d] /\ SessionOK(d, conn[d]) /\ AnsweredOK(conn[d])
        BY <1>4, <3>2, SessionIs
      <4> QED BY ONLY <4>1
    <3> QED BY <3>1, <3>2
  <2> QED BY <1>4, <2>1 DEF SessionsOK
<1>9. ASSUME NEW i \in DOMAIN posts, posts[i].from = c
      PROVE  /\ PostOK(posts[i], s)
             /\ posts[i].to \in Nat /\ posts[i].to <= s.next
             /\ posts[i].failed => posts[i].to < s.next
             /\ i \in Range(ran) \/ posts[i].failed \/ i = p
  <2>1. PostOK(posts[i], s) /\ posts[i].to \in Nat
    BY <1>9, PostsBehind DEF s
  <2>2. i \in Range(ran) \/ posts[i].failed \/ IsCurrent(posts[i], s)
    BY <1>9 DEF IInv, PostsOK, s
  <2> QED BY <1>5, <1>9, <2>1, <2>2 DEF PostOK
<1>10. PostsOK'
  <2>1. ASSUME NEW i \in DOMAIN posts
        PROVE  /\ PostOK(posts'[i], conn'[posts'[i].from])
               /\ i \in Range(ran) \/ posts'[i].failed \/ IsCurrent(posts'[i], conn'[posts'[i].from])
    <3>1. CASE posts[i].from # c
      <4>1. posts'[i] = posts[i] /\ posts[i].from \in Conns
        BY <1>5, <1>6, <3>1, PostsAre DEF IInv
      <4> QED BY <1>4, <3>1, <4>1 DEF IInv, PostsOK
    <3>2. CASE posts[i].from = c
      <4>1. posts[i].to < t.next
        BY <1>2, <1>3, <1>9, <3>2
      <4>2. PostOK(posts'[i], t)
        <5>1. t.next \in Nat /\ t.body = s.body /\ posts[i].to # t.next /\ posts[i].to <= t.next
          BY <1>2, <1>3, <1>9, <3>2, <4>1
        <5>2. PostOK(posts[i], s)
          BY <1>9, <3>2
        <5>3. /\ posts'[i].to = posts[i].to /\ posts'[i].step = posts[i].step
              /\ posts'[i].request = posts[i].request
          BY <1>7
        <5> QED BY ONLY <4>1, <5>1, <5>2, <5>3 DEF PostOK
      <4>3. i \in Range(ran) \/ posts'[i].failed
        BY <1>7, <1>9, <3>2
      <4> QED BY <1>4, <1>7, <3>2, <4>2, <4>3
    <3> QED BY <3>1, <3>2
  <2>2. \A i, j \in DOMAIN posts :
            i < j /\ posts'[i].from = posts'[j].from => Before(posts'[i], posts'[j])
    <3>1. \A i, j \in DOMAIN posts :
            i < j /\ posts[i].from = posts[j].from => Before(posts[i], posts[j])
      BY DEF IInv, PostsOK
    <3>2. SUFFICES ASSUME NEW i \in DOMAIN posts, NEW j \in DOMAIN posts,
                          i < j, posts'[i].from = posts'[j].from
                   PROVE  Before(posts'[i], posts'[j])
      OBVIOUS
    <3>3. /\ posts'[i].from = posts[i].from /\ posts'[i].to = posts[i].to
          /\ posts'[i].step = posts[i].step
      BY <1>7
    <3>4. /\ posts'[j].from = posts[j].from /\ posts'[j].to = posts[j].to
          /\ posts'[j].step = posts[j].step
      BY <1>7
    <3>5. Before(posts[i], posts[j])
      BY <3>1, <3>2, <3>3, <3>4
    <3> QED BY ONLY <3>3, <3>4, <3>5 DEF Before
  <2>3. ASSUME NEW d \in Conns, conn'[d].pc = "waiting"
        PROVE  \E i \in DOMAIN posts : posts'[i].from = d /\ IsCurrent(posts'[i], conn'[d])
    <3>1. d # c
      BY <1>3, <1>4, <2>3
    <3>2. PICK i \in DOMAIN posts : posts[i].from = d /\ IsCurrent(posts[i], conn[d])
      BY <1>4, <2>3, <3>1 DEF IInv, PostsOK
    <3>3. posts'[i] = posts[i]
      BY <1>5, <1>6, <3>1, <3>2
    <3> QED BY <1>4, <3>1, <3>2, <3>3
  <2> QED BY <1>1, <1>6, <2>1, <2>2, <2>3 DEF PostsOK
<1>11. RanOK'
  <2>1. \A m, n \in DOMAIN ran :
            /\ posts'[ran[m]].from = posts'[ran[n]].from
            /\ ran[m] < ran[n]
            /\ ~posts'[ran[m]].failed
            => m < n
    BY <1>7 DEF IInv, RanOK
  <2> QED BY <1>1, <1>6, <2>1 DEF IInv, RanOK
<1>12. ToldOK'
  <2> SUFFICES ASSUME NEW i \in DOMAIN posts, posts'[i].failed,
                      NEW k \in DOMAIN conn'[posts'[i].from].answers,
                      conn'[posts'[i].from].answers[k].to = posts'[i].to
               PROVE  conn'[posts'[i].from].answers[k].what = what
    BY <1>6 DEF ToldOK
  <2>1. CASE posts[i].from # c
    <3>1. posts'[i] = posts[i] /\ posts[i].from \in Conns
      BY <1>5, <1>6, <2>1, PostsAre DEF IInv
    <3>2. conn'[posts'[i].from] = conn[posts[i].from]
      BY <1>4, <2>1, <3>1
    <3>3. \A j \in DOMAIN conn[posts[i].from].answers :
            conn[posts[i].from].answers[j].to = posts[i].to =>
                conn[posts[i].from].answers[j].what = what
      BY <3>1 DEF IInv, ToldOK
    <3>4. k \in DOMAIN conn[posts[i].from].answers /\ conn[posts[i].from].answers[k].to = posts[i].to
      BY <3>1, <3>2
    <3> QED BY ONLY <3>2, <3>3, <3>4
  <2>2. CASE posts[i].from = c
    <3>1. k \in DOMAIN t.answers /\ t.answers[k].to = posts[i].to
      BY <1>4, <1>7, <2>2
    <3>0. conn'[posts'[i].from] = t
      BY <1>4, <1>7, <2>2
    <3>2. t.answers[k].what = what
      <4>1. CASE t.answers[k].to = s.next /\ t.answers[k].what = what
        BY <4>1
      <4>2. CASE k \in DOMAIN s.answers /\ t.answers[k] = s.answers[k]
        <5>1. s.answers[k].to \in 1 .. s.next - 1
          BY <1>2, <4>2 DEF AnsweredOK
        <5>2. s.answers[k].to # s.next
          BY <1>2, <5>1
        <5>3. i # p
          BY <1>5, <3>1, <4>2, <5>2
        <5>4. posts[i].failed
          BY <1>7, <5>3
        <5> QED BY <2>2, <3>1, <4>2, <5>4 DEF IInv, ToldOK, s
      <4> QED BY <1>3, <3>1, <4>1, <4>2
    <3> HIDE DEF t, what
    <3> QED BY ONLY <3>0, <3>2
  <2> QED BY <2>1, <2>2
<1> QED BY <1>8, <1>10, <1>11, <1>12 DEF IInv

LEMMA NextIInv == IInv /\ [Next]_vars => IInv'
<1> SUFFICES ASSUME IInv, [Next]_vars PROVE IInv'
  OBVIOUS
<1>1. ASSUME UNCHANGED <<conn, posts, ran>>
      PROVE  IInv'
  <2>1. conn' = conn /\ posts' = posts /\ ran' = ran
    BY <1>1
  <2>2. SessionsOK /\ PostsOK /\ RanOK /\ ToldOK
    BY DEF IInv
  <2>3. SessionsOK'
    BY ONLY <2>1, <2>2 DEF SessionsOK
  <2>4. PostsOK'
    BY ONLY <2>1, <2>2 DEF PostsOK
  <2>5. RanOK'
    BY ONLY <2>1, <2>2 DEF RanOK
  <2>6. ToldOK'
    BY ONLY <2>1, <2>2 DEF ToldOK
  <2> QED BY <2>3, <2>4, <2>5, <2>6 DEF IInv
<1>2. ASSUME NEW c \in Conns, \E body \in Bodies(c) : Accept(c, body)
      PROVE  IInv'
  BY <1>2, AcceptOK
<1>3. ASSUME NEW c \in Conns, ServerSteps(c)
      PROVE  IInv'
  BY <1>3, StartOK, SendOK, TimesOutOK, RefuseBlockOK, RejectOK, RespondOK DEF ServerSteps
<1>4. ASSUME NEW c \in Conns, \E reply \in Replies : NodeReplies(c, reply)
      PROVE  IInv'
  BY <1>4, NodeRepliesOK
<1>5. ASSUME NEW c \in Conns, ExecutionEnds(c) \/ Disconnect(c)
      PROVE  IInv'
  BY <1>5, ExecutionEndsOK, DisconnectOK
<1>6. ASSUME NEW i \in DOMAIN posts, NodeRuns(i)
      PROVE  IInv'
  BY <1>6, NodeRunsOK
<1>7. CASE Stop \/ Stopped \/ UNCHANGED vars
  BY <1>1, <1>7 DEF Stop, Stopped, vars
<1> QED BY <1>2, <1>3, <1>4, <1>5, <1>6, <1>7 DEF Next

LEMMA InductiveInvariant == Spec => []IInv
<1> QED BY InitIInv, NextIInv, PTL DEF Spec

(* The properties.                                                         *)

\* Whatever is posted to the node for a request is the call that the request asks
\* for, with every argument in its place: for all 31 methods, however the caller
\* wrote the params.
THEOREM SameCall == Spec => []SameCallForwarded
<1>1. ASSUME IInv
      PROVE  SameCallForwarded
  <2>1. \A i \in DOMAIN posts : Serves(posts[i].request, RequestOf(posts[i]))
    BY <1>1 DEF IInv, PostsOK, PostOK, RequestOf
  <2> QED BY <2>1 DEF SameCallForwarded, Serves
<1> QED BY <1>1, InductiveInvariant, PTL

\* A response answers every request of the body that has an id, in their order and
\* by its own result, and none that has not: in a batch of any length, with any
\* mix of refusals, failures and results.
THEOREM AnswersMatch == Spec => []AnswersMatchRequests
<1>1. ASSUME IInv, NEW c \in Conns, conn[c].pc = "responded"
      PROVE  LET body == conn[c].body  answers == conn[c].answers IN
             /\ {answers[i].to : i \in DOMAIN answers} = {k \in DOMAIN body : body[k].id # None}
             /\ \A i, j \in DOMAIN answers : i < j => answers[i].to < answers[j].to
             /\ \A i \in DOMAIN answers :
                 LET a == answers[i]  r == body[a.to] IN
                 /\ a.id = r.id
                 /\ "result" \in DOMAIN a.what
                        /\ r.method \notin {"starknet_call", "starknet_getStorageAt"} =>
                        a.what.result = Asked(r)
  <2> DEFINE s == conn[c]
             body == s.body
             answers == s.answers
  <2>1. SessionOK(c, s) /\ AnsweredOK(s)
    BY <1>1 DEF IInv, SessionsOK
  <2>2. Len(body) \in Nat /\ DOMAIN body = 1 .. Len(body)
    BY <1>1, <2>1, BodiesAre DEF SessionOK
  <2>3. 1 .. s.next - 1 = DOMAIN body
    <3>1. s.next = Len(body) + 1
      BY <1>1, <2>1 DEF SessionOK
    <3> QED BY <2>2, <3>1
  <2>4. \A i \in DOMAIN answers :
            LET a == answers[i] IN
            /\ a.to \in DOMAIN body
            /\ body[a.to].id # None
            /\ a.id = body[a.to].id
            /\ IsResultFor(a.what, body[a.to])
    BY <1>1, <2>1, <2>3 DEF AnsweredOK
  <2>5. \A i, j \in DOMAIN answers : i < j => answers[i].to < answers[j].to
    BY <1>1, <2>1 DEF AnsweredOK
  <2>6. \A k \in DOMAIN body : body[k].id # None => \E i \in DOMAIN answers : answers[i].to = k
    BY <1>1, <2>1, <2>3 DEF AnsweredOK
  <2>7. {answers[i].to : i \in DOMAIN answers} = {k \in DOMAIN body : body[k].id # None}
    BY <2>4, <2>6
  <2>8. ASSUME NEW i \in DOMAIN answers
        PROVE  LET a == answers[i]  r == body[a.to] IN
               /\ a.id = r.id
               /\ "result" \in DOMAIN a.what
                      /\ r.method \notin {"starknet_call", "starknet_getStorageAt"} =>
                      a.what.result = Asked(r)
    <3>1. answers[i].id = body[answers[i].to].id /\ IsResultFor(answers[i].what, body[answers[i].to])
      BY <2>4
    <3> QED BY ONLY <3>1 DEF IsResultFor, Special
  <2> QED BY ONLY <2>5, <2>7, <2>8
<1>2. IInv => AnswersMatchRequests
  BY <1>1 DEF AnswersMatchRequests
<1> QED BY <1>2, InductiveInvariant, PTL

LEMMA PositionIs ==
    ASSUME RanOK, NEW i \in Range(ran)
    PROVE  Position(i) \in DOMAIN ran /\ ran[Position(i)] = i
<1>1. \E n \in DOMAIN ran : ran[n] = i
  BY DEF Range
<1> QED BY <1>1 DEF Position

\* The node runs the posts of a connection in the order of its batch, except that
\* one that timed out may run after those that follow it.
THEOREM RunsInOrder == Spec => []BatchRunsInOrder
<1>1. ASSUME IInv, NEW i \in DOMAIN posts, NEW j \in DOMAIN posts,
             i < j, posts[i].from = posts[j].from, j \in Range(ran), ~posts[i].failed
      PROVE  i \in Range(ran) /\ Position(i) < Position(j)
  <2> DEFINE s == conn[posts[i].from]
  <2>1. PostsOK /\ RanOK
    BY <1>1 DEF IInv
  <2>2. i \in Range(ran)
    <3>1. SUFFICES ASSUME IsCurrent(posts[i], s)
                   PROVE  FALSE
      BY <1>1, <2>1 DEF PostsOK
    <3>2. PostOK(posts[j], s) /\ Before(posts[i], posts[j])
      BY <1>1, <2>1 DEF PostsOK
    <3>3. posts[i].to = s.next /\ posts[i].step = s.step
      BY <3>1 DEF IsCurrent
    <3>4. posts[j].to <= s.next /\ (posts[j].to = s.next => posts[j].step <= s.step)
      BY <3>2 DEF PostOK
    <3>5. /\ posts[i].to \in Nat /\ posts[i].step \in Nat
          /\ posts[j].to \in Nat /\ posts[j].step \in Nat
      BY <2>1, PostsAre
    <3> HIDE DEF s
    <3> QED BY <3>2, <3>3, <3>4, <3>5 DEF Before
  <2>3. /\ Position(i) \in DOMAIN ran /\ ran[Position(i)] = i
        /\ Position(j) \in DOMAIN ran /\ ran[Position(j)] = j
    BY <1>1, <2>1, <2>2, PositionIs
  <2> QED BY <1>1, <2>1, <2>2, <2>3 DEF RanOK
<1>2. IInv => BatchRunsInOrder
  BY <1>1 DEF BatchRunsInOrder
<1> QED BY <1>2, InductiveInvariant, PTL

-----------------------------------------------------------------------------
(* JsonRpc implements RemoteCall: for each call that is forwarded, every    *)
(* step is a step of one call to the node, or is not seen in it.            *)

(* What a session and the posts say of a call.                             *)

PostsIn(c, k, ps) == {i \in DOMAIN ps : ps[i].from = c /\ ps[i].to = k}
SaidIn(s, k) == {s.answers[i].what : i \in {j \in DOMAIN s.answers : s.answers[j].to = k}}
IsForwardedIn(s, k) == k \in DOMAIN s.body /\ s.body[k].method \notin Special

Outcome(said, at, ps) ==
    IF (\E what \in said : "refused" \in DOMAIN what) \/ (said = {} /\ at = {}) THEN "refused"
    ELSE IF [failed |-> 4002] \in said \/ (said = {} /\ \E i \in at : ps[i].failed) THEN "failed"
    ELSE "answered"

StateIn(c, k, s, ps) ==
    IF ~IsForwardedIn(s, k) \/ s.next < k THEN "none"
    ELSE IF s.next > k THEN Outcome(SaidIn(s, k), PostsIn(c, k, ps), ps)
    ELSE CASE s.pc \in {"calling", "waiting"} -> "open"
           [] s.pc = "gone" -> "dropped"
           [] OTHER -> "none"

RunsIn(c, k, s, ps, rs) ==
    IF IsForwardedIn(s, k) THEN Cardinality(PostsIn(c, k, ps) \cap Range(rs)) ELSE 0

LEMMA StateOfIs ==
    /\ \A c, k : StateOf(c, k) = StateIn(c, k, conn[c], posts)
    /\ \A c, k : StateOf(c, k)' = StateIn(c, k, conn'[c], posts')
<1>1. \A c, k : WhatIsSaid(c, k) = Outcome(SaidIn(conn[c], k), PostsIn(c, k, posts), posts)
  BY DEF WhatIsSaid, Outcome, SaidIn, PostsIn, PostsFor
<1>2. \A c, k : WhatIsSaid(c, k)' = Outcome(SaidIn(conn'[c], k), PostsIn(c, k, posts'), posts')
  BY DEF WhatIsSaid, Outcome, SaidIn, PostsIn, PostsFor
<1>3. \A c, k : StateOf(c, k) = StateIn(c, k, conn[c], posts)
  BY <1>1 DEF StateOf, StateIn, IsForwarded, IsForwardedIn, Special
<1>4. \A c, k : StateOf(c, k)' = StateIn(c, k, conn'[c], posts')
  BY <1>2 DEF StateOf, StateIn, IsForwarded, IsForwardedIn, Special
<1> QED BY <1>3, <1>4


\* The state of the abstract specification.
MappedState == [x \in ForwardedCalls |-> StateOf(x[1], x[2])]
MappedRuns == [x \in ForwardedCalls |->
                IF IsForwarded(x[1], x[2]) THEN Cardinality(PostsFor(x[1], x[2]) \cap Range(ran)) ELSE 0]

LEMMA MappedIs ==
    /\ RC!vars = <<MappedState, MappedRuns>>
    /\ \A c \in Conns, k \in 1 .. MaxBatch :
        /\ <<c, k>> \in ForwardedCalls
        /\ MappedState[<<c, k>>] = StateIn(c, k, conn[c], posts)
        /\ MappedState'[<<c, k>>] = StateIn(c, k, conn'[c], posts')
        /\ MappedRuns[<<c, k>>] = RunsIn(c, k, conn[c], posts, ran)
        /\ MappedRuns'[<<c, k>>] = RunsIn(c, k, conn'[c], posts', ran')
    /\ \A x \in ForwardedCalls : \E c \in Conns, k \in 1 .. MaxBatch : x = <<c, k>>
    /\ MappedState = [x \in ForwardedCalls |-> MappedState[x]]
    /\ MappedState' = [x \in ForwardedCalls |-> MappedState'[x]]
    /\ MappedRuns = [x \in ForwardedCalls |-> MappedRuns[x]]
    /\ MappedRuns' = [x \in ForwardedCalls |-> MappedRuns'[x]]
<1>1. RC!vars = <<MappedState, MappedRuns>>
  BY DEF RC!vars, MappedState, MappedRuns
<1>2. \A c \in Conns, k \in 1 .. MaxBatch : <<c, k>> \in ForwardedCalls
  BY DEF ForwardedCalls
<1>3. \A x \in ForwardedCalls : \E c \in Conns, k \in 1 .. MaxBatch : x = <<c, k>>
  BY DEF ForwardedCalls
<1>4. /\ \A x \in ForwardedCalls : MappedState[x] = StateOf(x[1], x[2])
      /\ MappedState = [x \in ForwardedCalls |-> MappedState[x]]
  BY DEF MappedState
<1>5. /\ \A x \in ForwardedCalls : MappedState'[x] = StateOf(x[1], x[2])'
      /\ MappedState' = [x \in ForwardedCalls |-> MappedState'[x]]
  BY DEF MappedState, ForwardedCalls
<1>6. /\ \A x \in ForwardedCalls : MappedRuns[x] = RunsIn(x[1], x[2], conn[x[1]], posts, ran)
      /\ MappedRuns = [x \in ForwardedCalls |-> MappedRuns[x]]
  BY DEF MappedRuns, RunsIn, IsForwarded, IsForwardedIn, PostsFor, PostsIn, Special
<1>7. /\ \A x \in ForwardedCalls : MappedRuns'[x] = RunsIn(x[1], x[2], conn'[x[1]], posts', ran')
      /\ MappedRuns' = [x \in ForwardedCalls |-> MappedRuns'[x]]
  BY DEF MappedRuns, ForwardedCalls, RunsIn, IsForwarded, IsForwardedIn, PostsFor, PostsIn, Special
<1>8. ASSUME NEW c \in Conns, NEW k \in 1 .. MaxBatch
      PROVE  /\ MappedState[<<c, k>>] = StateIn(c, k, conn[c], posts)
             /\ MappedState'[<<c, k>>] = StateIn(c, k, conn'[c], posts')
             /\ MappedRuns[<<c, k>>] = RunsIn(c, k, conn[c], posts, ran)
             /\ MappedRuns'[<<c, k>>] = RunsIn(c, k, conn'[c], posts', ran')
  BY <1>2, <1>4, <1>5, <1>6, <1>7, StateOfIs
<1> QED BY <1>1, <1>2, <1>3, <1>4, <1>5, <1>6, <1>7, <1>8

KeepsCall(c, k) == StateIn(c, k, conn'[c], posts') = StateIn(c, k, conn[c], posts)
KeepsRuns(c, k) == RunsIn(c, k, conn'[c], posts', ran') = RunsIn(c, k, conn[c], posts, ran)

\* Only the current call of a session may change its state.
OnlyCurrent(c) ==
    \A d \in Conns, k \in 1 .. MaxBatch :
        /\ KeepsRuns(d, k)
        /\ d # c \/ k # conn[c].next \/ ~IsForwardedIn(conn[c], k) => KeepsCall(d, k)

LEMMA Stutters ==
    ASSUME \A c \in Conns, k \in 1 .. MaxBatch : KeepsCall(c, k) /\ KeepsRuns(c, k)
    PROVE  UNCHANGED RC!vars
<1>1. ASSUME NEW x \in ForwardedCalls
      PROVE  MappedState'[x] = MappedState[x] /\ MappedRuns'[x] = MappedRuns[x]
  <2>1. PICK c \in Conns, k \in 1 .. MaxBatch : x = <<c, k>>
    BY MappedIs
  <2>2. /\ MappedState[<<c, k>>] = StateIn(c, k, conn[c], posts)
        /\ MappedState'[<<c, k>>] = StateIn(c, k, conn'[c], posts')
        /\ MappedRuns[<<c, k>>] = RunsIn(c, k, conn[c], posts, ran)
        /\ MappedRuns'[<<c, k>>] = RunsIn(c, k, conn'[c], posts', ran')
    BY MappedIs
  <2>3. KeepsCall(c, k) /\ KeepsRuns(c, k)
    OBVIOUS
  <2> QED BY ONLY <2>1, <2>2, <2>3 DEF KeepsCall, KeepsRuns
<1>2. MappedState' = MappedState /\ MappedRuns' = MappedRuns
  BY <1>1, MappedIs
<1>3. RC!vars = <<MappedState, MappedRuns>>
  BY DEF RC!vars, MappedState, MappedRuns
<1>4. RC!vars' = <<MappedState', MappedRuns'>>
  BY DEF RC!vars, MappedState, MappedRuns
<1> QED BY ONLY <1>2, <1>3, <1>4

\* One call goes from one state to another.
LEMMA Moves ==
    ASSUME NEW c \in Conns, NEW k \in 1 .. MaxBatch, NEW from, NEW to,
           \A d \in Conns, j \in 1 .. MaxBatch :
                KeepsRuns(d, j) /\ (d # c \/ j # k => KeepsCall(d, j)),
           StateIn(c, k, conn[c], posts) = from,
           StateIn(c, k, conn'[c], posts') = to
    PROVE  <<c, k>> \in ForwardedCalls /\ RC!Becomes(<<c, k>>, from, to)
<1> DEFINE x == <<c, k>>
<1>1. ASSUME NEW y \in ForwardedCalls
      PROVE  MappedRuns'[y] = MappedRuns[y] /\ (y # x => MappedState'[y] = MappedState[y])
  <2>1. PICK d \in Conns, j \in 1 .. MaxBatch : y = <<d, j>>
    BY MappedIs
  <2>2. /\ MappedState[<<d, j>>] = StateIn(d, j, conn[d], posts)
        /\ MappedState'[<<d, j>>] = StateIn(d, j, conn'[d], posts')
        /\ MappedRuns[<<d, j>>] = RunsIn(d, j, conn[d], posts, ran)
        /\ MappedRuns'[<<d, j>>] = RunsIn(d, j, conn'[d], posts', ran')
    BY MappedIs
  <2>3. KeepsRuns(d, j) /\ (d # c \/ j # k => KeepsCall(d, j))
    OBVIOUS
  <2>4. y # x => d # c \/ j # k
    BY <2>1
  <2> QED BY ONLY <2>1, <2>2, <2>3, <2>4 DEF KeepsCall, KeepsRuns
<1>2. x \in ForwardedCalls /\ MappedState[x] = from /\ MappedState'[x] = to
  BY MappedIs
<1>3. MappedState' = [MappedState EXCEPT ![x] = to] /\ MappedRuns' = MappedRuns
  <2> HIDE DEF x
  <2> QED BY <1>1, <1>2, MappedIs
<1>4. RC!Becomes(x, from, to) <=>
        MappedState[x] = from /\ MappedState' = [MappedState EXCEPT ![x] = to] /\ MappedRuns' = MappedRuns
  BY DEF RC!Becomes, MappedState, MappedRuns
<1> QED BY <1>2, <1>3, <1>4

LEMMA SameOutcome ==
    ASSUME NEW said, NEW at, NEW ps, NEW qs, \A i \in at : ps[i].failed = qs[i].failed
    PROVE  Outcome(said, at, ps) = Outcome(said, at, qs)
BY DEF Outcome

\* A step of one session leaves every call but its current one as it is.
LEMMA OthersKept ==
    ASSUME NEW c \in Conns, \A d \in Conns : d # c => conn'[d] = conn[d],
           conn'[c].body = conn[c].body, conn[c].next \in Nat,
           \/ conn'[c].next = conn[c].next
           \/ conn'[c].next = conn[c].next + 1 /\ conn'[c].pc = "handling",
           \A k \in Nat : k < conn[c].next => SaidIn(conn'[c], k) = SaidIn(conn[c], k),
           \A d \in Conns, k \in Nat : d # c \/ k # conn[c].next =>
                /\ PostsIn(d, k, posts') = PostsIn(d, k, posts)
                /\ \A i \in PostsIn(d, k, posts) : posts'[i].failed = posts[i].failed,
           \A d \in Conns, k \in Nat :
                PostsIn(d, k, posts') \cap Range(ran') = PostsIn(d, k, posts) \cap Range(ran)
    PROVE  OnlyCurrent(c)
<1> SUFFICES ASSUME NEW d \in Conns, NEW k \in 1 .. MaxBatch
             PROVE  /\ KeepsRuns(d, k)
                    /\ d # c \/ k # conn[c].next \/ ~IsForwardedIn(conn[c], k) => KeepsCall(d, k)
  BY DEF OnlyCurrent
<1>1. k \in Nat
  BY JsonRpcAssumption
<1>2. conn'[d].body = conn[d].body
  OBVIOUS
<1>3. KeepsRuns(d, k)
  <2>1. PostsIn(d, k, posts') \cap Range(ran') = PostsIn(d, k, posts) \cap Range(ran)
    BY <1>1
  <2> QED BY ONLY <1>2, <2>1 DEF KeepsRuns, RunsIn, IsForwardedIn
<1>4. ASSUME d # c \/ k # conn[c].next
      PROVE  Outcome(SaidIn(conn[d], k), PostsIn(d, k, posts'), posts')
                = Outcome(SaidIn(conn[d], k), PostsIn(d, k, posts), posts)
  <2>1. /\ PostsIn(d, k, posts') = PostsIn(d, k, posts)
        /\ \A i \in PostsIn(d, k, posts) : posts'[i].failed = posts[i].failed
    BY <1>1, <1>4
  <2>2. Outcome(SaidIn(conn[d], k), PostsIn(d, k, posts), posts')
            = Outcome(SaidIn(conn[d], k), PostsIn(d, k, posts), posts)
    BY ONLY <2>1, SameOutcome
  <2> QED BY ONLY <2>1, <2>2
<1>5. ASSUME d # c
      PROVE  KeepsCall(d, k)
  <2>1. conn'[d] = conn[d]
    BY <1>5
  <2>2. Outcome(SaidIn(conn[d], k), PostsIn(d, k, posts'), posts')
                = Outcome(SaidIn(conn[d], k), PostsIn(d, k, posts), posts)
    BY <1>4, <1>5
  <2> QED BY ONLY <2>1, <2>2 DEF KeepsCall, StateIn
<1>6. ASSUME d = c, k < conn[c].next
      PROVE  KeepsCall(d, k)
  <2>1. ~(conn[d].next < k) /\ conn[d].next > k /\ ~(conn'[d].next < k) /\ conn'[d].next > k
    BY <1>1, <1>6
  <2>2. Outcome(SaidIn(conn[d], k), PostsIn(d, k, posts'), posts')
                = Outcome(SaidIn(conn[d], k), PostsIn(d, k, posts), posts)
    BY <1>1, <1>4, <1>6
  <2>3. SaidIn(conn'[d], k) = SaidIn(conn[d], k)
    BY <1>1, <1>6
  <2> QED BY ONLY <1>2, <2>1, <2>2, <2>3 DEF KeepsCall, StateIn, IsForwardedIn
<1>7. ASSUME d = c, conn[c].next < k
      PROVE  KeepsCall(d, k)
  <2>1. conn[d].next < k /\ (conn'[d].next < k \/ (~(conn'[d].next > k) /\ conn'[d].pc = "handling"))
    BY <1>1, <1>7
  <2>2. StateIn(d, k, conn[d], posts) = "none" /\ StateIn(d, k, conn'[d], posts') = "none"
    BY ONLY <2>1 DEF StateIn
  <2> QED BY <2>2 DEF KeepsCall
<1>8. ASSUME d = c, ~IsForwardedIn(conn[c], k)
      PROVE  KeepsCall(d, k)
  <2>1. ~IsForwardedIn(conn[d], k) /\ ~IsForwardedIn(conn'[d], k)
    BY <1>2, <1>8 DEF IsForwardedIn
  <2>2. StateIn(d, k, conn[d], posts) = "none"
    BY ONLY <2>1 DEF StateIn
  <2>3. StateIn(d, k, conn'[d], posts') = "none"
    BY ONLY <2>1 DEF StateIn
  <2> QED BY ONLY <2>2, <2>3 DEF KeepsCall
<1> QED BY <1>1, <1>3, <1>5, <1>6, <1>7, <1>8

LEMMA CurrentStutters ==
    ASSUME NEW c \in Conns, OnlyCurrent(c),
           \/ ~IsForwardedIn(conn[c], conn[c].next)
           \/ KeepsCall(c, conn[c].next)
    PROVE  UNCHANGED RC!vars
<1>1. \A d \in Conns, k \in 1 .. MaxBatch : KeepsCall(d, k) /\ KeepsRuns(d, k)
  BY DEF OnlyCurrent
<1> QED BY <1>1, Stutters

LEMMA CurrentMoves ==
    ASSUME IInv, NEW c \in Conns, OnlyCurrent(c), IsForwardedIn(conn[c], conn[c].next),
           NEW from, NEW to,
           StateIn(c, conn[c].next, conn[c], posts) = from,
           StateIn(c, conn[c].next, conn'[c], posts') = to
    PROVE  /\ <<c, conn[c].next>> \in ForwardedCalls
           /\ RC!Becomes(<<c, conn[c].next>>, from, to)
<1> DEFINE k == conn[c].next
<1>1. k \in 1 .. MaxBatch
  <2>1. conn[c].body \in Bodies(c) \cup {<<>>}
    BY SessionIs
  <2>2. Len(conn[c].body) <= MaxBatch /\ Len(conn[c].body) \in Nat /\ k \in 1 .. Len(conn[c].body)
    BY <2>1, BodiesAre DEF IsForwardedIn
  <2> HIDE DEF k
  <2> QED BY <2>2, JsonRpcAssumption
<1>2. \A d \in Conns, j \in 1 .. MaxBatch :
        KeepsRuns(d, j) /\ (d # c \/ j # k => KeepsCall(d, j))
  BY DEF OnlyCurrent
<1>3. StateIn(c, k, conn[c], posts) = from /\ StateIn(c, k, conn'[c], posts') = to
  OBVIOUS
<1> HIDE DEF k
<1>4. <<c, k>> \in ForwardedCalls /\ RC!Becomes(<<c, k>>, from, to)
  BY ONLY c \in Conns, <1>1, <1>2, <1>3, Moves
<1> QED BY <1>4 DEF k

\* A session goes on with its request, or is done with all of them.
LEMMA StayKept ==
    ASSUME IInv, NEW c \in Conns, conn' = [conn EXCEPT ![c] = conn'[c]],
           conn'[c].body = conn[c].body, conn'[c].next = conn[c].next,
           conn'[c].answers = conn[c].answers,
           UNCHANGED <<posts, ran>>
    PROVE  OnlyCurrent(c)
<1>1. \A d \in Conns : d # c => conn'[d] = conn[d]
  BY DEF IInv, SessionsOK
<1>2. conn[c].next \in Nat
  BY SessionIs
<1>3. \A k \in Nat : k < conn[c].next => SaidIn(conn'[c], k) = SaidIn(conn[c], k)
  BY DEF SaidIn
<1>4. \A d \in Conns, k \in Nat : d # c \/ k # conn[c].next =>
            /\ PostsIn(d, k, posts') = PostsIn(d, k, posts)
            /\ \A i \in PostsIn(d, k, posts) : posts'[i].failed = posts[i].failed
  OBVIOUS
<1>5. \A d \in Conns, k \in Nat :
            PostsIn(d, k, posts') \cap Range(ran') = PostsIn(d, k, posts) \cap Range(ran)
  OBVIOUS
<1>6. conn'[c].body = conn[c].body /\ conn'[c].next = conn[c].next
  OBVIOUS
<1> QED BY ONLY c \in Conns, <1>1, <1>2, <1>3, <1>4, <1>5, <1>6, OthersKept

\* A session finishes its request: what it says of the others stays.
LEMMA FinishKept ==
    ASSUME IInv, NEW c \in Conns, conn[c].next \in DOMAIN conn[c].body,
           NEW what \in Whats, IsResultFor(what, Current(c)),
           conn' = [conn EXCEPT ![c] = Finished(c, what)],
           UNCHANGED ran, DOMAIN posts' = DOMAIN posts,
           \A i \in DOMAIN posts :
                /\ posts'[i].from = posts[i].from /\ posts'[i].to = posts[i].to
                /\ posts[i].from # c \/ posts[i].to # conn[c].next => posts'[i].failed = posts[i].failed
    PROVE  /\ OnlyCurrent(c)
           /\ \A d \in Conns, k \in Nat : PostsIn(d, k, posts') = PostsIn(d, k, posts)
           /\ conn'[c].body = conn[c].body /\ conn'[c].next > conn[c].next
           /\ SaidIn(conn'[c], conn[c].next) = IF Current(c).id = None THEN {} ELSE {what}
<1> DEFINE s == conn[c]
           t == Finished(c, what)
<1>1. SessionOK(c, s) /\ AnsweredOK(s) /\ s.next \in Nat
  BY SessionIs
<1>2. /\ SessionOK(c, t) /\ AnsweredOK(t)
      /\ t.pc = "handling" /\ t.body = s.body /\ t.next = s.next + 1
      /\ \A i \in DOMAIN t.answers :
            \/ i \in DOMAIN s.answers /\ t.answers[i] = s.answers[i]
            \/ t.answers[i].to = s.next /\ t.answers[i].what = what
  BY <1>1, FinishedSession
<1>3. conn'[c] = t /\ \A d \in Conns : d # c => conn'[d] = conn[d]
  BY DEF IInv, SessionsOK
<1> HIDE DEF t
<1>4. ASSUME NEW k \in Nat, k < s.next
      PROVE  SaidIn(t, k) = SaidIn(s, k)
  <2>1. ASSUME NEW i \in DOMAIN t.answers, t.answers[i].to = k
        PROVE  i \in DOMAIN s.answers /\ t.answers[i] = s.answers[i]
    BY <1>1, <1>2, <1>4, <2>1
  <2>2. ASSUME NEW i \in DOMAIN s.answers, s.answers[i].to = k
        PROVE  i \in DOMAIN t.answers /\ t.answers[i] = s.answers[i]
    <3>1. k \in 1 .. s.next - 1 /\ s.body[k].id # None
      BY <1>1, <2>2 DEF AnsweredOK
    <3>2. k \in 1 .. t.next - 1
      BY <1>1, <1>2, <3>1
    <3>3. PICK j \in DOMAIN t.answers : t.answers[j].to = k
      BY <1>2, <3>1, <3>2 DEF AnsweredOK
    <3>4. j \in DOMAIN s.answers /\ t.answers[j] = s.answers[j]
      BY <2>1, <3>3
    <3>5. i \in Nat /\ j \in Nat
      BY <1>1, <3>4 DEF AnsweredOK
    <3>6. i = j
      <4>1. ~(i < j) /\ ~(j < i)
        <5>1. s.answers[i].to = s.answers[j].to /\ s.answers[i].to \in Nat
          BY <2>2, <3>3, <3>4
        <5>2. \A m, n \in DOMAIN s.answers : m < n => s.answers[m].to < s.answers[n].to
          BY <1>1 DEF AnsweredOK
        <5> HIDE DEF s
        <5> QED BY <3>4, <5>1, <5>2
      <4> QED BY <3>5, <4>1
    <3> QED BY <3>3, <3>4, <3>6
  <2> QED BY <2>1, <2>2 DEF SaidIn
<1>5. SaidIn(t, s.next) = IF Current(c).id = None THEN {} ELSE {what}
  <2>0. s.next \in 1 .. t.next - 1
    <3>1. s.next \in 1 .. Len(s.body) + 1
      BY <1>1 DEF SessionOK
    <3> HIDE DEF s
    <3> QED BY <1>1, <1>2, <3>1
  <2>1. ASSUME NEW i \in DOMAIN t.answers, t.answers[i].to = s.next
        PROVE  t.answers[i].what = what /\ Current(c).id # None
    <3>1. ~(i \in DOMAIN s.answers /\ t.answers[i] = s.answers[i])
      <4>1. \A j \in DOMAIN s.answers : s.answers[j].to \in 1 .. s.next - 1
        BY <1>1 DEF AnsweredOK
      <4> HIDE DEF s
      <4> QED BY <1>1, <2>1, <4>1
    <3>2. t.body[s.next].id # None
      BY <1>2, <2>1 DEF AnsweredOK
    <3> QED BY <1>2, <3>1, <3>2 DEF Current
  <2>2. ASSUME Current(c).id # None
        PROVE  \E i \in DOMAIN t.answers : t.answers[i].to = s.next
    <3>1. t.body[s.next].id # None
      BY <1>2, <2>2 DEF Current
    <3> QED BY <1>2, <2>0, <3>1 DEF AnsweredOK
  <2> QED BY <2>1, <2>2 DEF SaidIn
<1>6. \A d \in Conns, k \in Nat : PostsIn(d, k, posts') = PostsIn(d, k, posts)
  BY DEF PostsIn
<1>7. \A d \in Conns, k \in Nat : d # c \/ k # conn[c].next =>
            /\ PostsIn(d, k, posts') = PostsIn(d, k, posts)
            /\ \A i \in PostsIn(d, k, posts) : posts'[i].failed = posts[i].failed
  <2>1. \A d \in Conns, k \in Nat : d # c \/ k # conn[c].next =>
            \A i \in PostsIn(d, k, posts) : posts'[i].failed = posts[i].failed
    BY DEF PostsIn
  <2> QED BY <1>6, <2>1
<1>8. \A d \in Conns, k \in Nat :
            PostsIn(d, k, posts') \cap Range(ran') = PostsIn(d, k, posts) \cap Range(ran)
  BY <1>6
<1>9. \A k \in Nat : k < conn[c].next => SaidIn(conn'[c], k) = SaidIn(conn[c], k)
  BY <1>3, <1>4
<1>10. /\ conn'[c].body = conn[c].body
       /\ conn'[c].next = conn[c].next + 1 /\ conn'[c].pc = "handling"
       /\ conn[c].next \in Nat /\ conn'[c].next > conn[c].next
  BY <1>1, <1>2, <1>3
<1>11. OnlyCurrent(c)
  BY ONLY c \in Conns, <1>3, <1>7, <1>8, <1>9, <1>10, OthersKept
<1> QED BY <1>3, <1>5, <1>6, <1>10, <1>11

\* What the current call of a session is.
LEMMA CurrentIs ==
    ASSUME NEW c \in Conns, NEW s, NEW k \in Nat, s.next = k, IsForwardedIn(s, k), NEW ps
    PROVE  /\ s.pc \in {"calling", "waiting"} => StateIn(c, k, s, ps) = "open"
           /\ s.pc = "gone" => StateIn(c, k, s, ps) = "dropped"
           /\ s.pc \notin InCall => StateIn(c, k, s, ps) = "none"
<1>1. ~(s.next < k) /\ ~(s.next > k)
  OBVIOUS
<1> QED BY ONLY <1>1, IsForwardedIn(s, k) DEF StateIn, InCall

LEMMA PassedIs ==
    ASSUME NEW c \in Conns, NEW s, NEW k \in Nat, s.next > k, s.next \in Nat,
           IsForwardedIn(s, k), NEW ps
    PROVE  StateIn(c, k, s, ps) = Outcome(SaidIn(s, k), PostsIn(c, k, ps), ps)
<1>1. ~(s.next < k) /\ s.next > k
  OBVIOUS
<1> QED BY ONLY <1>1, IsForwardedIn(s, k) DEF StateIn

\* A call that is forwarded is a single post.
LEMMA OnePost ==
    ASSUME IInv, NEW c \in Conns, NEW k \in Nat, IsForwardedIn(conn[c], k),
           NEW i \in PostsIn(c, k, posts), NEW j \in PostsIn(c, k, posts)
    PROVE  i = j
<1>1. /\ i \in DOMAIN posts /\ posts[i].from = c /\ posts[i].to = k
      /\ j \in DOMAIN posts /\ posts[j].from = c /\ posts[j].to = k
  BY DEF PostsIn
<1>2. posts[i].step = 1 /\ posts[j].step = 1
  <2>1. PostOK(posts[i], conn[c]) /\ PostOK(posts[j], conn[c])
    BY <1>1, PostsBehind
  <2> QED BY <1>1, <2>1 DEF PostOK, IsForwardedIn
<1>3. ~Before(posts[i], posts[j]) /\ ~Before(posts[j], posts[i])
  BY <1>1, <1>2 DEF Before
<1>4. ~(i < j) /\ ~(j < i)
  BY <1>1, <1>3 DEF IInv, PostsOK
<1> QED BY <1>1, <1>4, PostsAre DEF IInv

LEMMA RunOnce ==
    ASSUME IInv, NEW c \in Conns, NEW k \in Nat, IsForwardedIn(conn[c], k),
           NEW i \in PostsIn(c, k, posts), NEW rs
    PROVE  RunsIn(c, k, conn[c], posts, rs) = IF i \in Range(rs) THEN 1 ELSE 0
<1>1. PostsIn(c, k, posts) = {i}
  BY OnePost
<1>2. PostsIn(c, k, posts) \cap Range(rs) = IF i \in Range(rs) THEN {i} ELSE {}
  BY <1>1
<1>3. RunsIn(c, k, conn[c], posts, rs) = Cardinality(IF i \in Range(rs) THEN {i} ELSE {})
  BY <1>2 DEF RunsIn
<1> QED BY <1>3, FS_EmptySet, FS_Singleton

(* Every step of the server is a step of the abstract specification.       *)

Maps == RC!Next \/ UNCHANGED RC!vars

LEMMA AcceptMaps ==
    ASSUME IInv, NEW c \in Conns, NEW body \in Bodies(c), Accept(c, body)
    PROVE  Maps
<1>1. conn[c].pc = "idle" /\ UNCHANGED <<posts, ran>>
  BY DEF Accept
<1>2. conn[c].body = <<>>
  <2>1. conn[c] = Idle
    BY <1>1, SessionIs DEF SessionOK
  <2>2. Idle.body = <<>>
    BY DEF Idle
  <2> QED BY <2>1, <2>2
<1>3. /\ \A d \in Conns : d # c => conn'[d] = conn[d]
      /\ conn'[c].next = 1 /\ conn'[c].pc = "handling"
  BY DEF Accept, Idle, IInv, SessionsOK
<1>4. \A k \in Nat : PostsIn(c, k, posts) = {}
  <2> SUFFICES ASSUME NEW i \in DOMAIN posts, posts[i].from = c PROVE FALSE
    BY DEF PostsIn
  <2>1. posts[i].to \in DOMAIN <<>>
    BY <1>2, PostsBehind DEF PostOK
  <2> QED BY <2>1
<1>5. ASSUME NEW k \in 1 .. MaxBatch
      PROVE  KeepsCall(c, k) /\ KeepsRuns(c, k)
  <2>1. k \in Nat /\ k >= 1
    BY JsonRpcAssumption
  <2>2. ~IsForwardedIn(conn[c], k)
    BY <1>2 DEF IsForwardedIn
  <2>3. StateIn(c, k, conn[c], posts) = "none" /\ RunsIn(c, k, conn[c], posts, ran) = 0
    BY ONLY <2>2 DEF StateIn, RunsIn
  <2>4. StateIn(c, k, conn'[c], posts') = "none"
    <3>1. ~(conn'[c].next > k) /\ conn'[c].pc = "handling"
      BY <1>3, <2>1
    <3> QED BY ONLY <3>1 DEF StateIn
  <2>5. RunsIn(c, k, conn'[c], posts', ran') = 0
    <3>1. PostsIn(c, k, posts') \cap Range(ran') = {}
      BY <1>1, <1>4, <2>1
    <3> QED BY ONLY <3>1, FS_EmptySet DEF RunsIn
  <2> QED BY <2>3, <2>4, <2>5 DEF KeepsCall, KeepsRuns
<1>6. ASSUME NEW d \in Conns, NEW k \in 1 .. MaxBatch
      PROVE  KeepsCall(d, k) /\ KeepsRuns(d, k)
  <2>1. CASE d = c
    BY <1>5, <2>1
  <2>2. CASE d # c
    BY <1>1, <1>3, <2>2 DEF KeepsCall, KeepsRuns
  <2> QED BY <2>1, <2>2
<1> QED BY <1>6, Stutters DEF Maps

\* A request that is not forwarded is finished.
LEMMA FinishStutters ==
    ASSUME IInv, NEW c \in Conns, conn[c].next \in DOMAIN conn[c].body,
           ~IsForwardedIn(conn[c], conn[c].next),
           NEW what \in Whats, IsResultFor(what, Current(c)),
           conn' = [conn EXCEPT ![c] = Finished(c, what)],
           UNCHANGED <<posts, ran>>
    PROVE  UNCHANGED RC!vars
<1>1. /\ UNCHANGED ran /\ DOMAIN posts' = DOMAIN posts
      /\ \A i \in DOMAIN posts :
            /\ posts'[i].from = posts[i].from /\ posts'[i].to = posts[i].to
            /\ posts[i].from # c \/ posts[i].to # conn[c].next => posts'[i].failed = posts[i].failed
  OBVIOUS
<1>2. OnlyCurrent(c)
  BY <1>1, FinishKept
<1> QED BY <1>2, CurrentStutters

\* One that is forwarded is, and this is what the answer makes of it.
LEMMA FinishMoves ==
    ASSUME IInv, NEW c \in Conns, conn[c].next \in DOMAIN conn[c].body,
           IsForwardedIn(conn[c], conn[c].next),
           NEW what \in Whats, IsResultFor(what, Current(c)),
           conn' = [conn EXCEPT ![c] = Finished(c, what)],
           UNCHANGED ran, DOMAIN posts' = DOMAIN posts,
           \A i \in DOMAIN posts :
                /\ posts'[i].from = posts[i].from /\ posts'[i].to = posts[i].to
                /\ posts[i].from # c \/ posts[i].to # conn[c].next => posts'[i].failed = posts[i].failed,
           NEW to,
           to = Outcome(IF Current(c).id = None THEN {} ELSE {what},
                        PostsIn(c, conn[c].next, posts), posts')
    PROVE  /\ <<c, conn[c].next>> \in ForwardedCalls
           /\ conn[c].pc \in {"calling", "waiting"} => RC!Becomes(<<c, conn[c].next>>, "open", to)
           /\ conn[c].pc = "handling" => RC!Becomes(<<c, conn[c].next>>, "none", to)
<1> DEFINE k == conn[c].next
<1>1. /\ OnlyCurrent(c)
      /\ \A d \in Conns, j \in Nat : PostsIn(d, j, posts') = PostsIn(d, j, posts)
      /\ conn'[c].body = conn[c].body /\ conn'[c].next > k
      /\ SaidIn(conn'[c], k) = IF Current(c).id = None THEN {} ELSE {what}
  BY FinishKept
<1>2. k \in Nat
  BY SessionIs
<1>3. StateIn(c, k, conn'[c], posts') = to
  <2>1. IsForwardedIn(conn'[c], k)
    BY <1>1 DEF IsForwardedIn
  <2>2. ~(conn'[c].next < k)
    <3>1. conn'[c].next = k + 1
      <4>1. conn'[c] = Finished(c, what)
        BY DEF IInv, SessionsOK
      <4>2. Finished(c, what).next = k + 1
        BY SessionIs DEF Finished
      <4> QED BY <4>1, <4>2
    <3> HIDE DEF k
    <3> QED BY <1>2, <3>1
  <2>3. StateIn(c, k, conn'[c], posts') = Outcome(SaidIn(conn'[c], k), PostsIn(c, k, posts'), posts')
    BY ONLY <1>1, <2>1, <2>2 DEF StateIn
  <2>4. PostsIn(c, k, posts') = PostsIn(c, k, posts)
    BY <1>1, <1>2
  <2>5. to = Outcome(SaidIn(conn'[c], k), PostsIn(c, k, posts'), posts')
    BY <1>1, <2>4
  <2> QED BY <2>3, <2>5
<1>4. /\ conn[c].pc \in {"calling", "waiting"} => StateIn(c, k, conn[c], posts) = "open"
      /\ conn[c].pc = "handling" => StateIn(c, k, conn[c], posts) = "none"
  BY <1>2, CurrentIs DEF InCall
<1> HIDE DEF k
<1> QED BY <1>1, <1>3, <1>4, CurrentMoves DEF k

\* The request is refused, or its call opens.
LEMMA StartMaps ==
    ASSUME IInv, NEW c \in Conns, Start(c)
    PROVE  Maps
<1> DEFINE called == handle(Current(c).method, Current(c).params)
           k == conn[c].next
<1>1. /\ conn[c].pc = "handling" /\ k \in DOMAIN conn[c].body
      /\ UNCHANGED <<posts, ran>> /\ k \in Nat
  BY SessionIs DEF Start
<1>2. \/ \E code \in Int : called = Refuse(code)
      \/ /\ called = [method |-> called.method, args |-> called.args]
         /\ called.method \in Verified <=> Current(c).method \in Special
         /\ \A plan \in Plans(called.method, called.args) : PlanFor(plan, Current(c))
  BY <1>1, StartsWell
<1>3. \/ /\ "refused" \in DOMAIN called
         /\ conn' = [conn EXCEPT ![c] = Finished(c, called)]
      \/ /\ "method" \in DOMAIN called
         /\ \E plan \in Plans(called.method, called.args) :
                conn' = [conn EXCEPT ![c].pc = "calling", ![c].method = called.method,
                                     ![c].plan = plan]
  BY DEF Start
<1> HIDE DEF called
<1>4. CASE \E code \in Int : called = Refuse(code)
  <2>1. /\ "method" \notin DOMAIN called /\ "refused" \in DOMAIN called
        /\ called \in Whats /\ IsResultFor(called, Current(c))
    BY <1>4, HandledIsWhat
  <2>2. conn' = [conn EXCEPT ![c] = Finished(c, called)]
    BY <1>3, <2>1
  <2>3. CASE ~IsForwardedIn(conn[c], k)
    BY <1>1, <2>1, <2>2, <2>3, FinishStutters DEF Maps
  <2>4. CASE IsForwardedIn(conn[c], k)
    <3> DEFINE said == IF Current(c).id = None THEN {} ELSE {called}
    <3>1. PostsIn(c, k, posts) = {}
      <4>1. \A i \in DOMAIN posts : ~(posts[i].from = c /\ posts[i].to = k)
        BY <1>1, PostsBehind DEF InCall
      <4> QED BY <4>1 DEF PostsIn
    <3>2. Outcome(said, PostsIn(c, k, posts), posts') = "refused"
      BY <2>1, <3>1 DEF Outcome
    <3>3. "refused" = Outcome(said, PostsIn(c, k, posts), posts')
      BY <3>2
    <3>4. /\ UNCHANGED ran /\ DOMAIN posts' = DOMAIN posts
          /\ \A i \in DOMAIN posts :
                /\ posts'[i].from = posts[i].from /\ posts'[i].to = posts[i].to
                /\ posts[i].from # c \/ posts[i].to # conn[c].next => posts'[i].failed = posts[i].failed
      BY <1>1
    <3>5. <<c, k>> \in ForwardedCalls /\ RC!Becomes(<<c, k>>, "none", "refused")
      BY <1>1, <2>1, <2>2, <2>4, <3>3, <3>4, FinishMoves
    <3> QED BY <3>5 DEF Maps, RC!Next, RC!Refuse
  <2> QED BY <2>3, <2>4
<1>5. CASE ~\E code \in Int : called = Refuse(code)
  <2>1. called = [method |-> called.method, args |-> called.args]
    BY <1>2, <1>5
  <2>2. "refused" \notin DOMAIN called
    BY ONLY <2>1
  <2>3. PICK plan \in Plans(called.method, called.args) :
            conn' = [conn EXCEPT ![c].pc = "calling", ![c].method = called.method,
                                 ![c].plan = plan]
    BY <1>3, <2>2
  <2>4. /\ conn' = [conn EXCEPT ![c] = conn'[c]]
        /\ conn'[c] = [conn[c] EXCEPT !.pc = "calling", !.method = called.method, !.plan = plan]
    BY <2>3 DEF IInv, SessionsOK
  <2>5. /\ conn'[c].pc = "calling" /\ conn'[c].body = conn[c].body /\ conn'[c].next = conn[c].next
        /\ conn'[c].answers = conn[c].answers
    BY <2>4, SessionIs
  <2>6. OnlyCurrent(c)
    BY ONLY IInv, c \in Conns, <1>1, <2>4, <2>5, StayKept
  <2>7. CASE ~IsForwardedIn(conn[c], k)
    BY <2>6, <2>7, CurrentStutters DEF Maps
  <2>8. CASE IsForwardedIn(conn[c], k)
    <3>1. StateIn(c, k, conn[c], posts) = "none"
      BY <1>1, <2>8, CurrentIs DEF InCall
    <3>2. StateIn(c, k, conn'[c], posts') = "open"
      <4>1. conn'[c].next = k /\ IsForwardedIn(conn'[c], k) /\ conn'[c].pc \in {"calling", "waiting"}
        BY <2>5, <2>8 DEF IsForwardedIn
      <4> HIDE DEF k
      <4> QED BY <1>1, <4>1, CurrentIs
    <3>3. <<c, k>> \in ForwardedCalls /\ RC!Becomes(<<c, k>>, "none", "open")
      BY <2>6, <2>8, <3>1, <3>2, CurrentMoves
    <3> QED BY <3>3 DEF Maps, RC!Next, RC!Open
  <2> QED BY <2>7, <2>8
<1> QED BY <1>4, <1>5

\* A session in a call is with a request of its body, and has a plan for it.
LEMMA InCallIs ==
    ASSUME IInv, NEW c \in Conns, conn[c].pc \in {"calling", "waiting"}
    PROVE  /\ conn[c].next \in DOMAIN conn[c].body /\ conn[c].next \in Nat
           /\ PlanFor(conn[c].plan, Current(c))
           /\ conn[c].step \in DOMAIN conn[c].plan.steps
           /\ IsForwardedIn(conn[c], conn[c].next) <=> Current(c).method \notin Special
           /\ conn[c].method \in Verified <=> Current(c).method \in Special
BY SessionIs DEF SessionOK, InCall, Current, IsForwardedIn

LEMMA FailStutters ==
    ASSUME IInv, NEW c \in Conns, conn[c].pc \in {"calling", "waiting"},
           Current(c).method \in Special, NEW code \in Int,
           conn' = [conn EXCEPT ![c] = Finished(c, [failed |-> code])],
           UNCHANGED <<posts, ran>>
    PROVE  UNCHANGED RC!vars
<1> DEFINE what == [failed |-> code]
<1>1. what \in Whats /\ IsResultFor(what, Current(c))
  BY FailedIsWhat
<1>2. conn' = [conn EXCEPT ![c] = Finished(c, what)]
  OBVIOUS
<1> HIDE DEF what
<1> QED BY <1>1, <1>2, InCallIs, FinishStutters

LEMMA ResultIsWhat ==
    ASSUME IInv, NEW c \in Conns, conn[c].pc \in {"calling", "waiting"}
    PROVE  LET what == [result |-> conn[c].plan.steps[conn[c].plan.result]] IN
           what \in Whats /\ IsResultFor(what, Current(c))
<1>1. PlanFor(conn[c].plan, Current(c))
  BY InCallIs
<1>2. conn[c].plan.steps[conn[c].plan.result] \in Steps
  BY <1>1 DEF PlanFor
<1> QED BY <1>1, <1>2 DEF Whats, IsResultFor, PlanFor

LEMMA AdvanceStutters ==
    ASSUME IInv, NEW c \in Conns, conn[c].pc \in {"calling", "waiting"},
           Current(c).method \in Special,
           conn' = [conn EXCEPT ![c] = Advance(c)],
           UNCHANGED <<posts, ran>>
    PROVE  UNCHANGED RC!vars
<1>1. ~IsForwardedIn(conn[c], conn[c].next) /\ conn[c].next \in DOMAIN conn[c].body
  BY InCallIs
<1>2. CASE conn[c].step < Len(conn[c].plan.steps)
  <2>1. /\ conn' = [conn EXCEPT ![c] = conn'[c]]
        /\ conn'[c] = [conn[c] EXCEPT !.pc = "calling", !.step = @ + 1]
    BY <1>2 DEF Advance, IInv, SessionsOK
  <2>2. /\ conn'[c].body = conn[c].body /\ conn'[c].next = conn[c].next
        /\ conn'[c].answers = conn[c].answers
    BY ONLY IInv, c \in Conns, <2>1, SessionIs
  <2>3. OnlyCurrent(c)
    BY <2>1, <2>2, StayKept
  <2> QED BY <1>1, <2>3, CurrentStutters
<1>3. CASE ~(conn[c].step < Len(conn[c].plan.steps))
  <2> DEFINE what == [result |-> conn[c].plan.steps[conn[c].plan.result]]
  <2>1. conn' = [conn EXCEPT ![c] = Finished(c, what)]
    BY <1>3 DEF Advance
  <2>2. what \in Whats /\ IsResultFor(what, Current(c))
    BY ResultIsWhat
  <2> HIDE DEF what
  <2> QED BY <1>1, <2>1, <2>2, FinishStutters
<1> QED BY <1>2, <1>3

LEMMA RefuseBlockMaps ==
    ASSUME IInv, NEW c \in Conns, RefuseBlock(c)
    PROVE  Maps
<1>1. /\ conn[c].pc = "calling" /\ conn[c].method \in Verified
      /\ UNCHANGED <<posts, ran>>
      /\ conn' = [conn EXCEPT ![c] = Finished(c, [failed |-> -1])]
  BY DEF RefuseBlock, Verified
<1>2. Current(c).method \in Special
  BY <1>1, InCallIs
<1>3. -1 \in Int
  OBVIOUS
<1>4. UNCHANGED RC!vars
  BY ONLY IInv, c \in Conns, <1>1, <1>2, <1>3, FailStutters
<1> QED BY <1>4 DEF Maps

LEMMA RejectMaps ==
    ASSUME IInv, NEW c \in Conns, Reject(c)
    PROVE  Maps
<1> DEFINE code == -32700
<1>1. /\ conn[c].pc = "waiting" /\ conn[c].method \in Verified
      /\ UNCHANGED <<posts, ran>>
      /\ conn' = [conn EXCEPT ![c] = Finished(c, [failed |-> code])]
  BY DEF Reject
<1>2. Current(c).method \in Special
  BY <1>1, InCallIs
<1>3. code \in Int
  OBVIOUS
<1> HIDE DEF code
<1>4. UNCHANGED RC!vars
  BY ONLY IInv, c \in Conns, <1>1, <1>2, <1>3, FailStutters
<1> QED BY <1>4 DEF Maps

LEMMA ExecutionEndsMaps ==
    ASSUME IInv, NEW c \in Conns, ExecutionEnds(c)
    PROVE  Maps
<1>1. /\ conn[c].pc = "calling" /\ conn[c].plan.steps[conn[c].step] = Execute
      /\ UNCHANGED <<posts, ran>>
      /\ \/ conn' = [conn EXCEPT ![c] = Advance(c)]
         \/ conn' = [conn EXCEPT ![c] = Finished(c, [failed |-> 500])]
  BY DEF ExecutionEnds
<1>2. Current(c).method \in Special
  BY <1>1, InCallIs DEF PlanFor, Special
<1>3. UNCHANGED RC!vars
  BY <1>1, <1>2, AdvanceStutters, FailStutters
<1> QED BY <1>3 DEF Maps

LEMMA RespondMaps ==
    ASSUME IInv, NEW c \in Conns, Respond(c)
    PROVE  Maps
<1>1. /\ conn[c].next > Len(conn[c].body) /\ UNCHANGED <<posts, ran>>
      /\ conn' = [conn EXCEPT ![c] = conn'[c]]
      /\ conn'[c] = [conn[c] EXCEPT !.pc = "responded"]
  BY DEF Respond, IInv, SessionsOK
<1>2. /\ conn'[c].body = conn[c].body /\ conn'[c].next = conn[c].next
      /\ conn'[c].answers = conn[c].answers
  BY <1>1, SessionIs
<1>3. OnlyCurrent(c)
  BY <1>1, <1>2, StayKept
<1>4. ~IsForwardedIn(conn[c], conn[c].next)
  BY <1>1, SessionIs DEF IsForwardedIn
<1> QED BY <1>3, <1>4, CurrentStutters DEF Maps

\* The caller goes away from a call that is open.
LEMMA DisconnectMaps ==
    ASSUME IInv, NEW c \in Conns, Disconnect(c)
    PROVE  Maps
<1> DEFINE k == conn[c].next
<1>1. /\ conn[c].pc \in {"calling", "waiting"} /\ UNCHANGED <<posts, ran>> /\ k \in Nat
      /\ conn' = [conn EXCEPT ![c] = conn'[c]]
      /\ conn'[c] = [conn[c] EXCEPT !.pc = "gone"]
  BY SessionIs DEF Disconnect, IInv, SessionsOK
<1>2. /\ conn'[c].pc = "gone" /\ conn'[c].body = conn[c].body /\ conn'[c].next = k
      /\ conn'[c].answers = conn[c].answers
  BY <1>1, SessionIs
<1>3. OnlyCurrent(c)
  BY <1>1, <1>2, StayKept
<1>4. CASE ~IsForwardedIn(conn[c], k)
  BY <1>3, <1>4, CurrentStutters DEF Maps
<1>5. CASE IsForwardedIn(conn[c], k)
  <2>1. StateIn(c, k, conn[c], posts) = "open"
    BY <1>1, <1>5, CurrentIs
  <2>2. StateIn(c, k, conn'[c], posts') = "dropped"
    <3>1. IsForwardedIn(conn'[c], k) /\ conn'[c].next = k /\ conn'[c].pc = "gone" /\ k \in Nat
      BY <1>1, <1>2, <1>5 DEF IsForwardedIn
    <3> HIDE DEF k
    <3> QED BY ONLY c \in Conns, <3>1, CurrentIs
  <2>3. <<c, k>> \in ForwardedCalls /\ RC!Becomes(<<c, k>>, "open", "dropped")
    BY <1>3, <1>5, <2>1, <2>2, CurrentMoves
  <2> QED BY <2>3 DEF Maps, RC!Next, RC!Drop
<1> QED BY <1>4, <1>5

\* An answer that came from the node.
IsOfNode(what) == "refused" \notin DOMAIN what /\ what # [failed |-> 4002]

\* The node's answer to a call that is forwarded ends it, and the node has run it.
LEMMA AnswerMaps ==
    ASSUME IInv, NEW c \in Conns, conn[c].pc = "waiting", PostOf(c) \in Range(ran),
           Current(c).method \notin Special,
           NEW what \in Whats, IsResultFor(what, Current(c)),
           IsOfNode(what),
           conn' = [conn EXCEPT ![c] = Finished(c, what)],
           UNCHANGED <<posts, ran>>
    PROVE  Maps
<1> DEFINE k == conn[c].next
           i == PostOf(c)
           said == IF Current(c).id = None THEN {} ELSE {what}
<1>1. IsForwardedIn(conn[c], k) /\ k \in DOMAIN conn[c].body /\ k \in Nat
  BY InCallIs
<1>2. /\ i \in DOMAIN posts /\ posts[i].from = c /\ posts[i].to = k /\ posts[i].failed = FALSE
      /\ i \in Range(ran)
  BY WaitsForOne DEF IInv
<1>3. i \in PostsIn(c, k, posts) /\ \A j \in PostsIn(c, k, posts) : j = i
  <2>1. i \in PostsIn(c, k, posts)
    BY <1>2 DEF PostsIn
  <2> QED BY <1>1, <2>1, OnePost
<1>4. "answered" = Outcome(said, PostsIn(c, k, posts), posts')
  <2>1. PostsIn(c, k, posts) = {i} /\ posts'[i].failed = FALSE
    BY <1>2, <1>3
  <2>2. /\ \A w \in said : "refused" \notin DOMAIN w
        /\ [failed |-> 4002] \notin said
    BY DEF IsOfNode
  <2> HIDE DEF said, i
  <2> QED BY ONLY <2>1, <2>2 DEF Outcome
<1>5. <<c, k>> \in ForwardedCalls /\ RC!Becomes(<<c, k>>, "open", "answered")
  <2>1. /\ UNCHANGED ran /\ DOMAIN posts' = DOMAIN posts
        /\ \A j \in DOMAIN posts :
              /\ posts'[j].from = posts[j].from /\ posts'[j].to = posts[j].to
              /\ posts[j].from # c \/ posts[j].to # conn[c].next => posts'[j].failed = posts[j].failed
    OBVIOUS
  <2>2. /\ IsResultFor(what, Current(c)) /\ conn[c].pc = "waiting"
        /\ conn' = [conn EXCEPT ![c] = Finished(c, what)]
    OBVIOUS
  <2> QED BY ONLY IInv, c \in Conns, what \in Whats, <1>1, <1>4, <2>1, <2>2, FinishMoves
<1> HIDE DEF k, i, said
<1>6. RunsIn(c, k, conn[c], posts, ran) = 1
  BY <1>1, <1>2, <1>3, RunOnce
<1>7. MappedRuns[<<c, k>>] = 1
  <2>1. k \in 1 .. MaxBatch
    BY <1>5 DEF ForwardedCalls
  <2> QED BY ONLY c \in Conns, <1>6, <2>1, MappedIs
<1>8. RC!Answer(<<c, k>>)
  BY ONLY <1>5, <1>7 DEF RC!Answer, MappedRuns
<1> QED BY ONLY <1>5, <1>8 DEF Maps, RC!Next

LEMMA NodeRepliesMaps ==
    ASSUME IInv, NEW c \in Conns, NEW reply \in Replies, NodeReplies(c, reply)
    PROVE  Maps
<1>1. conn[c].pc = "waiting" /\ PostOf(c) \in Range(ran) /\ UNCHANGED <<posts, ran>>
  BY DEF NodeReplies
<1>2. CASE "failed" \in DOMAIN Read(reply)
  <2>1. PICK code \in Int : Read(reply) = [failed |-> code] /\ code # 4002
    BY <1>2, ReadIs
  <2>2. conn' = [conn EXCEPT ![c] = Finished(c, [failed |-> code])]
    BY <1>2, <2>1 DEF NodeReplies
  <2>3. CASE Current(c).method \in Special
    <3>1. UNCHANGED RC!vars
      BY <1>1, <2>2, <2>3, FailStutters
    <3> QED BY <3>1 DEF Maps
  <2>4. CASE Current(c).method \notin Special
    <3> DEFINE what == [failed |-> code]
    <3>1. what \in Whats /\ IsResultFor(what, Current(c))
      BY FailedIsWhat
    <3>2. IsOfNode(what)
      BY <2>1 DEF IsOfNode
    <3>3. conn' = [conn EXCEPT ![c] = Finished(c, what)]
      BY <2>2
    <3> HIDE DEF what
    <3> QED BY <1>1, <2>4, <3>1, <3>2, <3>3, AnswerMaps
  <2> QED BY <2>3, <2>4
<1>3. CASE "failed" \notin DOMAIN Read(reply)
  <2>1. conn' = [conn EXCEPT ![c] = Advance(c)]
    BY <1>3 DEF NodeReplies
  <2>2. CASE Current(c).method \in Special
    <3>1. UNCHANGED RC!vars
      BY <1>1, <2>1, <2>2, AdvanceStutters
    <3> QED BY <3>1 DEF Maps
  <2>3. CASE Current(c).method \notin Special
    <3> DEFINE what == [result |-> conn[c].plan.steps[conn[c].plan.result]]
    <3>1. what \in Whats /\ IsResultFor(what, Current(c))
      BY <1>1, ResultIsWhat
    <3>2. IsOfNode(what)
      <4>1. "failed" \notin DOMAIN what /\ "refused" \notin DOMAIN what
        OBVIOUS
      <4> HIDE DEF what
      <4> QED BY <4>1 DEF IsOfNode
    <3>3. conn' = [conn EXCEPT ![c] = Finished(c, what)]
      <4>1. conn[c].plan.steps = <<Asked(Current(c))>> /\ conn[c].step \in DOMAIN conn[c].plan.steps
        BY <1>1, <2>3, InCallIs DEF PlanFor
      <4>2. ~(conn[c].step < Len(conn[c].plan.steps))
        BY <4>1
      <4>3. Advance(c) = Finished(c, what)
        BY <4>2 DEF Advance
      <4> HIDE DEF what
      <4> QED BY ONLY <2>1, <4>3
    <3> HIDE DEF what
    <3> QED BY <1>1, <2>3, <3>1, <3>2, <3>3, AnswerMaps
  <2> QED BY <2>2, <2>3
<1> QED BY <1>2, <1>3

\* The server gives up waiting: the node may still run the call.
LEMMA TimesOutMaps ==
    ASSUME IInv, NEW c \in Conns, TimesOut(c)
    PROVE  Maps
<1> DEFINE k == conn[c].next
           i == PostOf(c)
           what == [failed |-> 4002]
<1>1. /\ conn[c].pc = "waiting" /\ UNCHANGED ran
      /\ posts' = [posts EXCEPT ![i].failed = TRUE]
      /\ conn' = [conn EXCEPT ![c] = Finished(c, what)]
  BY DEF TimesOut
<1>2. k \in DOMAIN conn[c].body /\ k \in Nat
  BY <1>1, InCallIs
<1>3. i \in DOMAIN posts /\ posts[i].from = c /\ posts[i].to = k
  BY <1>1, WaitsForOne DEF IInv
<1>4. what \in Whats /\ IsResultFor(what, Current(c))
  BY FailedIsWhat
<1> HIDE DEF i
<1>5. /\ DOMAIN posts' = DOMAIN posts
      /\ \A j \in DOMAIN posts :
            /\ posts'[j].from = posts[j].from /\ posts'[j].to = posts[j].to
            /\ posts[j].from # c \/ posts[j].to # conn[c].next => posts'[j].failed = posts[j].failed
      /\ posts'[i].failed = TRUE
  <2>1. posts \in Seq(PostSet)
    BY DEF IInv, PostsOK
  <2>2. posts[i] \in PostSet
    BY <1>3, <2>1
  <2>3. \A j \in DOMAIN posts : j # i => posts'[j] = posts[j]
    BY <1>1, <2>1
  <2>4. posts'[i] = [posts[i] EXCEPT !.failed = TRUE]
    BY <1>1, <1>3, <2>1
  <2>5. posts'[i].from = posts[i].from /\ posts'[i].to = posts[i].to /\ posts'[i].failed = TRUE
    BY <2>2, <2>4 DEF PostSet
  <2>6. DOMAIN posts' = DOMAIN posts
    BY <1>1, <2>1
  <2> QED BY ONLY <1>3, <2>3, <2>5, <2>6
<1>6. CASE ~IsForwardedIn(conn[c], k)
  <2> HIDE DEF what
  <2>1. OnlyCurrent(c)
    BY <1>1, <1>2, <1>4, <1>5, FinishKept
  <2> QED BY <1>6, <2>1, CurrentStutters DEF Maps
<1>7. CASE IsForwardedIn(conn[c], k)
  <2> DEFINE said == IF Current(c).id = None THEN {} ELSE {what}
  <2>1. "failed" = Outcome(said, PostsIn(c, k, posts), posts')
    <3>1. i \in PostsIn(c, k, posts)
      BY <1>3 DEF PostsIn
    <3>2. "refused" \notin DOMAIN what
      OBVIOUS
    <3>3. /\ said = {} \/ [failed |-> 4002] \in said
          /\ \A w \in said : "refused" \notin DOMAIN w
          /\ posts'[i].failed
      BY <1>5, <3>2
    <3> HIDE DEF said
    <3> QED BY ONLY <3>1, <3>3 DEF Outcome
  <2> HIDE DEF what
  <2>2. <<c, k>> \in ForwardedCalls /\ RC!Becomes(<<c, k>>, "open", "failed")
    BY <1>1, <1>2, <1>4, <1>5, <1>7, <2>1, FinishMoves
  <2> QED BY <2>2 DEF Maps, RC!Next, RC!Fail
<1> QED BY <1>6, <1>7

\* The call is posted, and stays open.
LEMMA SendMaps ==
    ASSUME IInv, NEW c \in Conns, Send(c)
    PROVE  Maps
<1> DEFINE k == conn[c].next
           n == Len(posts)
           p == [from |-> c, to |-> k, step |-> conn[c].step,
                 request |-> conn[c].plan.steps[conn[c].step], failed |-> FALSE]
<1>1. /\ conn[c].pc = "calling" /\ UNCHANGED ran /\ posts' = Append(posts, p)
      /\ conn' = [conn EXCEPT ![c] = conn'[c]]
      /\ conn'[c] = [conn[c] EXCEPT !.pc = "waiting"]
  BY DEF Send, IInv, SessionsOK
<1>2. /\ conn'[c].pc = "waiting" /\ conn'[c].body = conn[c].body /\ conn'[c].next = conn[c].next
      /\ conn'[c].answers = conn[c].answers
  BY ONLY IInv, c \in Conns, <1>1, SessionIs
<1>3. k \in Nat /\ \A d \in Conns : d # c => conn'[d] = conn[d]
  BY <1>1, InCallIs DEF IInv, SessionsOK
<1>4. /\ n \in Nat /\ DOMAIN posts = 1 .. n /\ DOMAIN posts' = 1 .. n + 1
      /\ \A i \in 1 .. n : posts'[i] = posts[i]
      /\ posts'[n + 1] = p
  <2>1. posts \in Seq(PostSet)
    BY DEF IInv, PostsOK
  <2>2. n \in Nat /\ DOMAIN posts = 1 .. n
    BY <2>1
  <2>3. Len(posts') = n + 1 /\ DOMAIN posts' = 1 .. n + 1
        /\ (\A i \in 1 .. n : posts'[i] = posts[i]) /\ posts'[n + 1] = p
    BY <1>1, <2>1, <2>2
  <2> QED BY <2>2, <2>3
<1>5. p.from = c /\ p.to = k
  OBVIOUS
<1> HIDE DEF p, n
<1>6. /\ \A i \in DOMAIN posts' : i \in DOMAIN posts \/ i = n + 1
      /\ \A i \in DOMAIN posts : i \in DOMAIN posts' /\ posts'[i] = posts[i]
      /\ n + 1 \notin DOMAIN posts
  BY <1>4
<1>7. \A d \in Conns, j \in Nat : d # c \/ j # conn[c].next =>
            /\ PostsIn(d, j, posts') = PostsIn(d, j, posts)
            /\ \A i \in PostsIn(d, j, posts) : posts'[i].failed = posts[i].failed
  <2> SUFFICES ASSUME NEW d \in Conns, NEW j \in Nat, d # c \/ j # conn[c].next
               PROVE  /\ PostsIn(d, j, posts') = PostsIn(d, j, posts)
                      /\ \A i \in PostsIn(d, j, posts) : posts'[i].failed = posts[i].failed
    OBVIOUS
  <2>1. d # c \/ j # k
    OBVIOUS
  <2> HIDE DEF k
  <2> QED BY ONLY <1>4, <1>5, <1>6, <2>1 DEF PostsIn
<1>8. \A d \in Conns, j \in Nat :
            PostsIn(d, j, posts') \cap Range(ran') = PostsIn(d, j, posts) \cap Range(ran)
  <2>1. Range(ran) \subseteq DOMAIN posts
    BY DEF IInv, RanOK, Range
  <2> SUFFICES ASSUME NEW d \in Conns, NEW j \in Nat
               PROVE  PostsIn(d, j, posts') \cap Range(ran) = PostsIn(d, j, posts) \cap Range(ran)
    BY <1>1
  <2> HIDE DEF k
  <2> QED BY ONLY <1>6, <2>1 DEF PostsIn
<1>9. OnlyCurrent(c)
  <2>1. \A j \in Nat : j < conn[c].next => SaidIn(conn'[c], j) = SaidIn(conn[c], j)
    BY ONLY <1>2 DEF SaidIn
  <2>2. conn[c].next \in Nat
    BY <1>3
  <2> QED BY ONLY c \in Conns, <1>2, <1>3, <1>7, <1>8, <2>1, <2>2, OthersKept
<1>10. ASSUME IsForwardedIn(conn[c], k)
       PROVE  KeepsCall(c, k)
  <2>1. IsForwardedIn(conn'[c], k) /\ conn'[c].next = k /\ conn'[c].pc \in {"calling", "waiting"}
    BY <1>2, <1>10 DEF IsForwardedIn
  <2>2. conn[c].next = k /\ conn[c].pc \in {"calling", "waiting"}
    BY <1>1
  <2> HIDE DEF k
  <2>3. StateIn(c, k, conn[c], posts) = "open"
    BY ONLY c \in Conns, <1>3, <1>10, <2>2, CurrentIs
  <2>4. StateIn(c, k, conn'[c], posts') = "open"
    BY ONLY c \in Conns, <1>3, <2>1, CurrentIs
  <2> QED BY <2>3, <2>4 DEF KeepsCall
<1>11. UNCHANGED RC!vars
  BY <1>9, <1>10, CurrentStutters
<1> QED BY <1>11 DEF Maps

\* The node runs a post: the one of its call, while that is open, or after it
\* failed or was dropped.
LEMMA NodeRunsMaps ==
    ASSUME IInv, NEW i \in DOMAIN posts, NodeRuns(i)
    PROVE  Maps
<1> DEFINE c == posts[i].from
           k == posts[i].to
<1>1. /\ i \notin Range(ran) /\ ran' = Append(ran, i) /\ UNCHANGED <<conn, posts>>
      /\ ran \in Seq(Nat) /\ i \in Nat /\ c \in Conns /\ k \in Nat
  BY PostsAre DEF NodeRuns, IInv, RanOK
<1>2. Range(ran') = Range(ran) \cup {i}
  <2> DEFINE n == Len(ran)
  <2>1. /\ n \in Nat /\ DOMAIN ran = 1 .. n /\ DOMAIN ran' = 1 .. n + 1
        /\ (\A m \in 1 .. n : ran'[m] = ran[m]) /\ ran'[n + 1] = i
    BY <1>1, AppendProperties
  <2> HIDE DEF n
  <2>2. \A m \in DOMAIN ran' : m \in DOMAIN ran \/ m = n + 1
    BY <2>1
  <2>3. (\A m \in DOMAIN ran : m \in DOMAIN ran') /\ n + 1 \in DOMAIN ran'
    BY <2>1
  <2> QED BY ONLY <2>1, <2>2, <2>3 DEF Range
<1>3. \A d \in Conns, j \in 1 .. MaxBatch : KeepsCall(d, j)
  BY <1>1 DEF KeepsCall
<1>4. i \in PostsIn(c, k, posts)
  BY DEF PostsIn
<1>5. \A d \in Conns, j \in 1 .. MaxBatch : d # c \/ j # k => KeepsRuns(d, j)
  <2> SUFFICES ASSUME NEW d \in Conns, NEW j \in 1 .. MaxBatch, d # c \/ j # k
               PROVE  KeepsRuns(d, j)
    OBVIOUS
  <2>1. i \notin PostsIn(d, j, posts)
    BY DEF PostsIn
  <2>2. PostsIn(d, j, posts) \cap Range(ran') = PostsIn(d, j, posts) \cap Range(ran)
    BY <1>2, <2>1
  <2> QED BY <1>1, <2>2 DEF KeepsRuns, RunsIn
<1> HIDE DEF c, k
<1>6. CASE ~IsForwardedIn(conn[c], k)
  <2>1. KeepsRuns(c, k)
    BY <1>1, <1>6 DEF KeepsRuns, RunsIn
  <2>2. UNCHANGED RC!vars
    BY <1>3, <1>5, <2>1, Stutters
  <2> QED BY <2>2 DEF Maps
<1>7. CASE IsForwardedIn(conn[c], k)
  <2> DEFINE x == <<c, k>>
  <2>1. RunsIn(c, k, conn[c], posts, ran) = 0 /\ RunsIn(c, k, conn[c], posts, ran') = 1
    BY <1>1, <1>2, <1>4, <1>7, RunOnce
  <2>2. k \in 1 .. MaxBatch
    <3>1. Len(conn[c].body) <= MaxBatch /\ Len(conn[c].body) \in Nat /\ k \in 1 .. Len(conn[c].body)
      BY <1>1, <1>7, SessionIs, BodiesAre DEF IsForwardedIn
    <3> QED BY <3>1, JsonRpcAssumption
  <2>3. StateIn(c, k, conn[c], posts) \in {"open", "failed", "dropped"}
    <3>1. posts[i].failed \/ IsCurrent(posts[i], conn[c])
      BY <1>1 DEF IInv, PostsOK, c
    <3>2. CASE IsCurrent(posts[i], conn[c])
      <4>1. conn[c].next = k /\ conn[c].pc \in {"waiting", "gone"}
        BY <3>2 DEF IsCurrent, k
      <4> QED BY ONLY <1>1, <1>7, <4>1, CurrentIs
    <3>3. CASE posts[i].failed
      <4> DEFINE said == SaidIn(conn[c], k)
      <4>1. PostOK(posts[i], conn[c]) /\ conn[c].next \in Nat
        BY <1>1, PostsBehind, SessionIs DEF c
      <4>2. conn[c].next > k
        BY <1>1, <3>3, <4>1 DEF PostOK, k
      <4>3. StateIn(c, k, conn[c], posts) = Outcome(said, PostsIn(c, k, posts), posts)
        BY ONLY <1>1, <1>7, <4>1, <4>2, PassedIs
      <4>4. \A what \in said : what = [failed |-> 4002]
        BY <3>3 DEF IInv, ToldOK, SaidIn, c, k
      <4>5. "refused" \notin DOMAIN [failed |-> 4002]
        OBVIOUS
      <4>6. /\ \A what \in said : "refused" \notin DOMAIN what
            /\ said = {} \/ [failed |-> 4002] \in said
        BY <4>4, <4>5
      <4> HIDE DEF said
      <4>7. Outcome(said, PostsIn(c, k, posts), posts) = "failed"
        BY ONLY <1>4, <3>3, <4>6 DEF Outcome
      <4> QED BY <4>3, <4>7
    <3> QED BY <3>1, <3>2, <3>3
  <2>4. /\ x \in ForwardedCalls
        /\ MappedState[x] \in {"open", "failed", "dropped"}
        /\ MappedRuns[x] = 0
        /\ MappedRuns'[x] = 1
    BY <1>1, <2>1, <2>2, <2>3, MappedIs
  <2>5. ASSUME NEW y \in ForwardedCalls
        PROVE  MappedState'[y] = MappedState[y] /\ (y # x => MappedRuns'[y] = MappedRuns[y])
    <3>1. PICK d \in Conns, j \in 1 .. MaxBatch : y = <<d, j>>
      BY MappedIs
    <3>2. /\ MappedState[<<d, j>>] = StateIn(d, j, conn[d], posts)
          /\ MappedState'[<<d, j>>] = StateIn(d, j, conn'[d], posts')
          /\ MappedRuns[<<d, j>>] = RunsIn(d, j, conn[d], posts, ran)
          /\ MappedRuns'[<<d, j>>] = RunsIn(d, j, conn'[d], posts', ran')
      BY MappedIs
    <3>3. KeepsCall(d, j) /\ (d # c \/ j # k => KeepsRuns(d, j))
      BY <1>3, <1>5
    <3>4. y # x => d # c \/ j # k
      BY <3>1
    <3> QED BY ONLY <3>1, <3>2, <3>3, <3>4 DEF KeepsCall, KeepsRuns
  <2> HIDE DEF x
  <2>6. MappedState' = MappedState /\ MappedRuns' = [MappedRuns EXCEPT ![x] = 1]
    BY ONLY <2>4, <2>5, MappedIs
  <2>7. RC!Run(x)
    BY ONLY <2>4, <2>6 DEF RC!Run, MappedState, MappedRuns
  <2> QED BY <2>4, <2>7 DEF Maps, RC!Next
<1> QED BY <1>6, <1>7

LEMMA InitMaps == Init => RC!Init
<1> SUFFICES ASSUME Init PROVE RC!Init
  OBVIOUS
<1>1. \A c \in Conns : conn[c].body = <<>>
  BY DEF Init, Idle
<1>2. \A c \in Conns, k \in 1 .. MaxBatch : ~IsForwardedIn(conn[c], k)
  BY <1>1 DEF IsForwardedIn
<1>3. \A c \in Conns, k \in 1 .. MaxBatch :
        StateIn(c, k, conn[c], posts) = "none" /\ RunsIn(c, k, conn[c], posts, ran) = 0
  BY <1>2 DEF StateIn, RunsIn
<1>4. ASSUME NEW x \in ForwardedCalls
      PROVE  MappedState[x] = "none" /\ MappedRuns[x] = 0
  <2>1. PICK c \in Conns, k \in 1 .. MaxBatch : x = <<c, k>>
    BY MappedIs
  <2>2. /\ MappedState[<<c, k>>] = StateIn(c, k, conn[c], posts)
        /\ MappedRuns[<<c, k>>] = RunsIn(c, k, conn[c], posts, ran)
    BY MappedIs
  <2> QED BY <1>3, <2>1, <2>2
<1>5. MappedState = [x \in ForwardedCalls |-> "none"] /\ MappedRuns = [x \in ForwardedCalls |-> 0]
  BY ONLY <1>4, MappedIs
<1> QED BY ONLY <1>5 DEF RC!Init, MappedState, MappedRuns

LEMMA NextMaps == IInv /\ [Next]_vars => [RC!Next]_RC!vars
<1> SUFFICES ASSUME IInv, [Next]_vars PROVE Maps
  BY DEF Maps
<1>1. ASSUME UNCHANGED <<conn, posts, ran>>
      PROVE  Maps
  <2>1. \A c \in Conns, k \in 1 .. MaxBatch : KeepsCall(c, k) /\ KeepsRuns(c, k)
    BY <1>1 DEF KeepsCall, KeepsRuns
  <2> QED BY <2>1, Stutters DEF Maps
<1>2. ASSUME NEW c \in Conns, \E body \in Bodies(c) : Accept(c, body)
      PROVE  Maps
  BY <1>2, AcceptMaps
<1>3. ASSUME NEW c \in Conns, ServerSteps(c)
      PROVE  Maps
  BY <1>3, StartMaps, SendMaps, TimesOutMaps, RefuseBlockMaps, RejectMaps, RespondMaps DEF ServerSteps
<1>4. ASSUME NEW c \in Conns, \E reply \in Replies : NodeReplies(c, reply)
      PROVE  Maps
  BY <1>4, NodeRepliesMaps
<1>5. ASSUME NEW c \in Conns, ExecutionEnds(c) \/ Disconnect(c)
      PROVE  Maps
  BY <1>5, ExecutionEndsMaps, DisconnectMaps
<1>6. ASSUME NEW i \in DOMAIN posts, NodeRuns(i)
      PROVE  Maps
  BY <1>6, NodeRunsMaps
<1>7. CASE Stop \/ Stopped \/ UNCHANGED vars
  BY <1>1, <1>7 DEF Stop, Stopped, vars
<1> QED BY <1>2, <1>3, <1>4, <1>5, <1>6, <1>7 DEF Next

\* The server is a remote call: whatever the callers send and the node and the
\* network do, a transaction that is forwarded runs at most once, never if its
\* caller is told that it was refused, and has run if its caller is told anything
\* but that the request failed.
THEOREM Implements == Spec => ImplementsRemoteCall
<1> QED BY InitMaps, NextMaps, InductiveInvariant, PTL DEF Spec, ImplementsRemoteCall, RC!Spec
=============================================================================
