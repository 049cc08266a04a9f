------------------------------- MODULE RpcTypes -------------------------------
(***************************************************************************)
(* The types of the RPC interface (mod gen of lightclientservice/src/      *)
(* gen.rs), as serde reads and writes them.                                *)
(*                                                                         *)
(* A JSON value is a class of values that some type tells apart: hex       *)
(* strings by their length and leading zeros, numbers by their sign.  An   *)
(* object or an array inside a document is "object" or "array": its own    *)
(* type reads it.  A document is a function from its fields to values; a   *)
(* document that is no object has the one field "" (serde also takes the  *)
(* array of a struct's fields, which no party of this system sends).       *)
(* A struct is the values it requires and those it may have.  An untagged  *)
(* enum is the sequence of its variants, in the order serde tries them.    *)
(***************************************************************************)
EXTENDS Integers, Sequences, Functions

NoFields == [f \in {} |-> {}]
StructWith(req, opt) == [req |-> req, opt |-> opt]
Struct(req) == StructWith(req, NoFields)
Scalar(values) == Struct([f \in {""} |-> values])
\* The fields of both documents, as in d where both have one.
Merged(d, e) == [f \in DOMAIN d \cup DOMAIN e |-> IF f \in DOMAIN d THEN d[f] ELSE e[f]]
\* #[serde(flatten)] of a struct, and of an enum.
Flatten(s, t) == [req |-> Merged(s.req, t.req), opt |-> Merged(s.opt, t.opt)]
FlattenUnion(u, t) == [i \in DOMAIN u |-> Flatten(u[i], t)]
-----------------------------------------------------------------------------
(* Values. *)
Array == {"array"}
Object == {"object"}
Bool == {"bool"}
Int64 == {"negative", "zero", "positive"}

Short == {"0x0", "0x1", "0x2", "0x3"}              \* at most 16 digits
Query == {"query0", "query1", "query2", "query3"}  \* 33 digits: 2^128 + version
Hex == Short \cup Query \cup {"hex32", "hex40", "hex63"}  \* no leading zero
Padded == {"0x00", "0x00hex40"}
String == {"text", "base64", "hex64"} \cup Hex \cup Padded  \* names apart

Felt == Hex
Address == Felt
BlockHash == Felt
TxnHash == Felt
NumAsHex == Hex \cup Padded \cup {"hex64"}
ChainId == Hex \cup Padded \cup {"hex64"}
U64 == Short
U128 == Short \cup {"hex32"}
EthAddress == {"hex40", "0x00hex40"}
StorageKey == Padded
DeprecatedContractClassProgram == {"base64", "0x00"}
NotNegative == {"zero", "positive"}
BlockNumber == NotNegative
BlockHeaderTimestamp == NotNegative
PendingBlockHeaderTimestamp == NotNegative
GetTransactionByBlockIdAndIndexIndex == NotNegative
GetBlockTransactionCountResult == NotNegative
StructAbiEntrySize == {"positive"}
ResultPageRequestChunkSize == {"positive"}
BlockIdField == {"object", "latest", "pending"}
-----------------------------------------------------------------------------
(* Names of a value. *)
BlockTag == {"latest", "pending"}
BlockStatus == {"PENDING", "ACCEPTED_ON_L2", "ACCEPTED_ON_L1", "REJECTED"}
DaMode == {"L1", "L2"}
PriceUnit == {"WEI", "FRI"}
CallType == {"LIBRARY_CALL", "CALL", "DELEGATE"}
EntryPointType == {"EXTERNAL", "L1_HANDLER", "CONSTRUCTOR"}
SimulationFlag == {"SKIP_VALIDATE", "SKIP_FEE_CHARGE"}
SimulationFlagForEstimateFee == {"SKIP_VALIDATE"}
TxGatewayStatus ==
    {"NOT_RECEIVED", "RECEIVED", "PENDING", "REJECTED", "ACCEPTED_ON_L1", "ACCEPTED_ON_L2", "REVERTED", "ABORTED"}
TxnExecutionStatus == {"SUCCEEDED", "REVERTED"}
TxnFinalityStatus == {"ACCEPTED_ON_L2", "ACCEPTED_ON_L1"}
TxnStatus == {"RECEIVED", "REJECTED", "ACCEPTED_ON_L2", "ACCEPTED_ON_L1"}
-----------------------------------------------------------------------------
(* Blocks. *)
BlockId == <<Struct([block_hash |-> BlockHash]), Struct([block_number |-> BlockNumber]),
    Scalar(BlockTag)>>
ResourcePrice == Struct([price_in_fri |-> Felt, price_in_wei |-> Felt])
BlockHeader == Struct([block_hash |-> BlockHash, block_number |-> BlockNumber, l1_gas_price |-> Object,
    new_root |-> Felt, parent_hash |-> BlockHash, sequencer_address |-> Felt, starknet_version |-> String,
    timestamp |-> BlockHeaderTimestamp])
PendingBlockHeader == Struct([l1_gas_price |-> Object, parent_hash |-> BlockHash, sequencer_address |-> Felt,
    starknet_version |-> String, timestamp |-> PendingBlockHeaderTimestamp])
BlockBodyWithTxHashes == Struct([transactions |-> Array])
BlockBodyWithTxs == Struct([transactions |-> Array])
BlockWithTxHashes == Flatten(BlockBodyWithTxHashes, Flatten(BlockHeader,
    Struct([status |-> BlockStatus])))
PendingBlockWithTxHashes == Flatten(PendingBlockHeader, BlockBodyWithTxHashes)
BlockWithTxs == Flatten(BlockBodyWithTxs, Flatten(BlockHeader, Struct([status |-> BlockStatus])))
PendingBlockWithTxs == Flatten(PendingBlockHeader, BlockBodyWithTxs)
GetBlockWithTxHashesResult == <<BlockWithTxHashes, PendingBlockWithTxHashes>>
\* Mutant: the pending variant is tried first.
PendingBlockFirst == <<PendingBlockWithTxs, BlockWithTxs>>
GetBlockWithTxsResult == <<BlockWithTxs, PendingBlockWithTxs>>
BlockHashAndNumberResult == Struct([block_hash |-> BlockHash, block_number |-> BlockNumber])
SyncStatus == Struct([current_block_hash |-> BlockHash, current_block_num |-> BlockNumber,
    highest_block_hash |-> BlockHash, highest_block_num |-> BlockNumber, starting_block_hash |-> BlockHash,
    starting_block_num |-> BlockNumber])
SyncingResult == <<Scalar(Bool), SyncStatus>>
-----------------------------------------------------------------------------
(* Transactions. *)
FunctionCall == Struct([calldata |-> Array, contract_address |-> Address, entry_point_selector |-> Felt])
ResourceBounds == Struct([max_amount |-> U64, max_price_per_unit |-> U128])
ResourceBoundsMapping == Struct([l1_gas |-> Object, l2_gas |-> Object])
InvokeTxnV0 == Struct([calldata |-> Array, contract_address |-> Address, entry_point_selector |-> Felt,
    max_fee |-> Felt, type |-> {"INVOKE"}, signature |-> Array, version |-> {"0x0", "query0"}])
InvokeTxnV1 == Struct([calldata |-> Array, max_fee |-> Felt, nonce |-> Felt, type |-> {"INVOKE"},
    sender_address |-> Address, signature |-> Array, version |-> {"0x1", "query1"}])
InvokeTxnV3 == Struct([account_deployment_data |-> Array, calldata |-> Array,
    fee_data_availability_mode |-> DaMode, nonce |-> Felt, nonce_data_availability_mode |-> DaMode,
    paymaster_data |-> Array, type |-> {"INVOKE"}, resource_bounds |-> Object, sender_address |-> Address,
    signature |-> Array, tip |-> U64, version |-> {"0x3", "query3"}])
InvokeTxn == <<InvokeTxnV0, InvokeTxnV1, InvokeTxnV3>>
\* Mutant: the version is not checked.
DeclareTxnAnyVersion == Struct([class_hash |-> Felt, max_fee |-> Felt, type |-> {"DECLARE"}, sender_address |-> Address,
    signature |-> Array, version |-> Felt])
DeclareTxnV0 == Struct([class_hash |-> Felt, max_fee |-> Felt, type |-> {"DECLARE"}, sender_address |-> Address,
    signature |-> Array, version |-> {"0x0", "query0"}])
DeclareTxnV1 == Struct([class_hash |-> Felt, max_fee |-> Felt, nonce |-> Felt, type |-> {"DECLARE"},
    sender_address |-> Address, signature |-> Array, version |-> {"0x1", "query1"}])
DeclareTxnV2 == Struct([class_hash |-> Felt, compiled_class_hash |-> Felt, max_fee |-> Felt, nonce |-> Felt,
    type |-> {"DECLARE"}, sender_address |-> Address, signature |-> Array, version |-> {"0x2", "query2"}])
DeclareTxnV3 == Struct([account_deployment_data |-> Array, class_hash |-> Felt, compiled_class_hash |-> Felt,
    fee_data_availability_mode |-> DaMode, nonce |-> Felt, nonce_data_availability_mode |-> DaMode,
    paymaster_data |-> Array, type |-> {"DECLARE"}, resource_bounds |-> Object, sender_address |-> Address,
    signature |-> Array, tip |-> U64, version |-> {"0x3", "query3"}])
DeclareTxn == <<DeclareTxnV0, DeclareTxnV1, DeclareTxnV2, DeclareTxnV3>>
DeployTxn == Struct([class_hash |-> Felt, constructor_calldata |-> Array, contract_address_salt |-> Felt,
    type |-> {"DEPLOY"}, version |-> Felt])
DeployAccountTxnV1 == Struct([class_hash |-> Felt, constructor_calldata |-> Array,
    contract_address_salt |-> Felt, max_fee |-> Felt, nonce |-> Felt, type |-> {"DEPLOY_ACCOUNT"},
    signature |-> Array, version |-> {"0x1", "query1"}])
DeployAccountTxnV3 == Struct([class_hash |-> Felt, constructor_calldata |-> Array,
    contract_address_salt |-> Felt, fee_data_availability_mode |-> DaMode, nonce |-> Felt,
    nonce_data_availability_mode |-> DaMode, paymaster_data |-> Array, type |-> {"DEPLOY_ACCOUNT"},
    resource_bounds |-> Object, signature |-> Array, tip |-> U64, version |-> {"0x3", "query3"}])
DeployAccountTxn == <<DeployAccountTxnV1, DeployAccountTxnV3>>
L1HandlerTxn == Flatten(FunctionCall, Struct([nonce |-> NumAsHex, type |-> {"L1_HANDLER"}, version |-> Felt]))
Txn == InvokeTxn \o <<L1HandlerTxn>> \o DeclareTxn \o <<DeployTxn>> \o DeployAccountTxn
BlockTransaction == FlattenUnion(Txn, Struct([transaction_hash |-> TxnHash]))
GetTransactionByHashResult == FlattenUnion(Txn, Struct([transaction_hash |-> TxnHash]))
GetTransactionByBlockIdAndIndexResult == FlattenUnion(Txn, Struct([transaction_hash |-> TxnHash]))
BroadcastedDeclareTxnV1 == Struct([contract_class |-> Object, max_fee |-> Felt, nonce |-> Felt,
    type |-> {"DECLARE"}, sender_address |-> Address, signature |-> Array, version |-> {"0x1", "query1"}])
BroadcastedDeclareTxnV2 == Struct([compiled_class_hash |-> Felt, contract_class |-> Object, max_fee |-> Felt,
    nonce |-> Felt, type |-> {"DECLARE"}, sender_address |-> Address, signature |-> Array,
    version |-> {"0x2", "query2"}])
BroadcastedDeclareTxnV3 == Struct([account_deployment_data |-> Array, compiled_class_hash |-> Felt,
    contract_class |-> Object, fee_data_availability_mode |-> DaMode, nonce |-> Felt,
    nonce_data_availability_mode |-> DaMode, paymaster_data |-> Array, type |-> {"DECLARE"},
    resource_bounds |-> Object, sender_address |-> Address, signature |-> Array, tip |-> U64,
    version |-> {"0x3", "query3"}])
BroadcastedDeclareTxn == <<BroadcastedDeclareTxnV1, BroadcastedDeclareTxnV2,
    BroadcastedDeclareTxnV3>>
BroadcastedInvokeTxn == InvokeTxn
BroadcastedDeployAccountTxn == DeployAccountTxn
BroadcastedTxn == BroadcastedInvokeTxn \o BroadcastedDeclareTxn \o BroadcastedDeployAccountTxn
MsgFromL1 == Struct([entry_point_selector |-> Felt, from_address |-> EthAddress, payload |-> Array,
    to_address |-> Address])
AddInvokeTransactionResult == Struct([transaction_hash |-> TxnHash])
AddDeclareTransactionResult == Struct([class_hash |-> Felt, transaction_hash |-> TxnHash])
AddDeployAccountTransactionResult == Struct([contract_address |-> Felt, transaction_hash |-> TxnHash])
GetTransactionStatusResult == StructWith([finality_status |-> TxnStatus],
    [execution_status |-> TxnExecutionStatus])
-----------------------------------------------------------------------------
(* Receipts and events. *)
EventContent == Struct([data |-> Array, keys |-> Array])
Event == Flatten(EventContent, Struct([from_address |-> Address]))
EmittedEvent == Flatten(Event, StructWith([transaction_hash |-> TxnHash], [block_hash |-> BlockHash,
    block_number |-> BlockNumber]))
OrderedEvent == Flatten(EventContent, StructWith(NoFields, [order |-> Int64]))
MsgToL1 == Struct([from_address |-> Felt, payload |-> Array, to_address |-> Felt])
OrderedMessage == Flatten(MsgToL1, StructWith(NoFields, [order |-> Int64]))
EventFilter == StructWith(NoFields, [address |-> Address, from_block |-> BlockIdField, keys |-> Array,
    to_block |-> BlockIdField])
ResultPageRequest == StructWith([chunk_size |-> ResultPageRequestChunkSize],
    [continuation_token |-> String])
GetEventsFilter == Flatten(ResultPageRequest, EventFilter)
EventsChunk == StructWith([events |-> Array], [continuation_token |-> String])
FeePayment == Struct([amount |-> Felt, unit |-> PriceUnit])
FeeEstimate == Struct([gas_consumed |-> Felt, gas_price |-> Felt, overall_fee |-> Felt, unit |-> PriceUnit])
ExecutionResources == StructWith([steps |-> Int64], [bitwise_builtin_applications |-> Int64,
    ec_op_builtin_applications |-> Int64, ecdsa_builtin_applications |-> Int64,
    keccak_builtin_applications |-> Int64, memory_holes |-> Int64, pedersen_builtin_applications |-> Int64,
    poseidon_builtin_applications |-> Int64, range_check_builtin_applications |-> Int64,
    segment_arena_builtin |-> Int64])
CommonReceiptProperties == StructWith([actual_fee |-> Object, block_hash |-> BlockHash,
    block_number |-> BlockNumber, events |-> Array, execution_resources |-> Object,
    execution_status |-> TxnExecutionStatus, finality_status |-> TxnFinalityStatus, messages_sent |-> Array,
    transaction_hash |-> TxnHash], [revert_reason |-> String])
InvokeTxnReceipt == Flatten(CommonReceiptProperties, Struct([type |-> {"INVOKE"}]))
L1HandlerTxnReceipt == Flatten(CommonReceiptProperties, Struct([message_hash |-> NumAsHex,
    type |-> {"L1_HANDLER"}]))
DeclareTxnReceipt == Flatten(CommonReceiptProperties, Struct([type |-> {"DECLARE"}]))
DeployTxnReceipt == Flatten(CommonReceiptProperties, Struct([contract_address |-> Felt,
    type |-> {"DEPLOY"}]))
DeployAccountTxnReceipt == Flatten(CommonReceiptProperties, Struct([contract_address |-> Felt,
    type |-> {"DEPLOY_ACCOUNT"}]))
TxnReceipt == <<InvokeTxnReceipt, L1HandlerTxnReceipt, DeclareTxnReceipt, DeployTxnReceipt,
    DeployAccountTxnReceipt>>
PendingCommonReceiptProperties == StructWith([actual_fee |-> Object, events |-> Array,
    execution_resources |-> Object, execution_status |-> TxnExecutionStatus,
    finality_status |-> {"ACCEPTED_ON_L2"}, messages_sent |-> Array, transaction_hash |-> TxnHash],
    [revert_reason |-> String])
PendingInvokeTxnReceipt == Flatten(PendingCommonReceiptProperties, Struct([type |-> {"INVOKE"}]))
PendingL1HandlerTxnReceipt == Flatten(PendingCommonReceiptProperties,
    Struct([message_hash |-> NumAsHex, type |-> {"L1_HANDLER"}]))
PendingDeclareTxnReceipt == Flatten(PendingCommonReceiptProperties, Struct([type |-> {"DECLARE"}]))
PendingDeployAccountTxnReceipt == Flatten(PendingCommonReceiptProperties,
    Struct([contract_address |-> Felt, type |-> {"DEPLOY_ACCOUNT"}]))
PendingTxnReceipt == <<PendingInvokeTxnReceipt, PendingL1HandlerTxnReceipt,
    PendingDeclareTxnReceipt, PendingDeployAccountTxnReceipt>>
GetTransactionReceiptResult == TxnReceipt \o PendingTxnReceipt
-----------------------------------------------------------------------------
(* Traces. *)
FunctionInvocation == Flatten(FunctionCall, Struct([call_type |-> CallType, caller_address |-> Felt,
    calls |-> Array, class_hash |-> Felt, entry_point_type |-> EntryPointType, events |-> Array,
    execution_resources |-> Object, messages |-> Array, result |-> Array]))
NestedCall == FunctionInvocation
InvokeTxnTraceExecuteInvocation == <<FunctionInvocation, StructWith(NoFields,
    [revert_reason |-> String])>>
InvokeTxnTrace == StructWith([execute_invocation |-> Object, type |-> {"INVOKE"}],
    [fee_transfer_invocation |-> Object, state_diff |-> Object, validate_invocation |-> Object])
DeclareTxnTrace == StructWith([type |-> {"DECLARE"}], [fee_transfer_invocation |-> Object,
    state_diff |-> Object, validate_invocation |-> Object])
DeployAccountTxnTrace == StructWith([constructor_invocation |-> Object, type |-> {"DEPLOY_ACCOUNT"}],
    [fee_transfer_invocation |-> Object, state_diff |-> Object, validate_invocation |-> Object])
L1HandlerTxnTrace == StructWith([function_invocation |-> Object, type |-> {"L1_HANDLER"}],
    [state_diff |-> Object])
TransactionTrace == <<InvokeTxnTrace, DeclareTxnTrace, DeployAccountTxnTrace, L1HandlerTxnTrace>>
SimulatedTransaction == StructWith(NoFields, [fee_estimation |-> Object, transaction_trace |-> Object])
BlockTransactionTrace == StructWith(NoFields, [trace_root |-> Object, transaction_hash |-> Felt])
-----------------------------------------------------------------------------
(* Classes. *)
TypedParameter == Struct([name |-> String, type |-> String])
StructMember == Flatten(TypedParameter, StructWith(NoFields, [offset |-> Int64]))
FunctionAbiEntry == StructWith([inputs |-> Array, name |-> String, outputs |-> Array,
    type |-> {"function", "l1_handler", "constructor"}], [stateMutability |-> {"view"}])
EventAbiEntry == Struct([data |-> Array, keys |-> Array, name |-> String, type |-> {"event"}])
StructAbiEntry == Struct([members |-> Array, name |-> String, type |-> {"struct"}, size |-> StructAbiEntrySize])
ContractAbiEntry == <<FunctionAbiEntry, EventAbiEntry, StructAbiEntry>>
DeprecatedCairoEntryPoint == Struct([offset |-> NumAsHex, selector |-> Felt])
DeprecatedContractClassEntryPointsByType == StructWith(NoFields, [CONSTRUCTOR |-> Array,
    EXTERNAL |-> Array, L1_HANDLER |-> Array])
DeprecatedContractClass == StructWith([entry_points_by_type |-> Object,
    program |-> DeprecatedContractClassProgram], [abi |-> Array])
SierraEntryPoint == Struct([function_idx |-> Int64, selector |-> Felt])
ContractClassEntryPointsByType == Struct([CONSTRUCTOR |-> Array, EXTERNAL |-> Array, L1_HANDLER |-> Array])
ContractClass == StructWith([contract_class_version |-> String, entry_points_by_type |-> Object,
    sierra_program |-> Array], [abi |-> String])
GetClassResult == <<DeprecatedContractClass, ContractClass>>
GetClassAtResult == <<DeprecatedContractClass, ContractClass>>
-----------------------------------------------------------------------------
(* State and proofs. *)
StorageDiffItem == StructWith(NoFields, [key |-> Felt, value |-> Felt])
ContractStorageDiffItem == Struct([address |-> Felt, storage_entries |-> Array])
DeployedContractItem == Struct([address |-> Felt, class_hash |-> Felt])
DeclaredClass == StructWith(NoFields, [class_hash |-> Felt, compiled_class_hash |-> Felt])
ReplacedClass == StructWith(NoFields, [class_hash |-> Felt, contract_address |-> Address])
NonceUpdate == StructWith(NoFields, [contract_address |-> Address, nonce |-> Felt])
StateDiff == Struct([declared_classes |-> Array, deployed_contracts |-> Array,
    deprecated_declared_classes |-> Array, nonces |-> Array, replaced_classes |-> Array,
    storage_diffs |-> Array])
StateUpdate == Struct([block_hash |-> BlockHash, new_root |-> Felt, old_root |-> Felt, state_diff |-> Object])
PendingStateUpdate == Struct([old_root |-> Felt, state_diff |-> Object])
GetStateUpdateResult == <<StateUpdate, PendingStateUpdate>>
BinaryNodeBinary == Struct([left |-> Felt, right |-> Felt])
BinaryNode == Struct([binary |-> Object])
EdgeNodePath == Struct([len |-> Int64, value |-> Felt])
EdgeNodeEdge == Struct([child |-> Felt, path |-> Object])
EdgeNode == Struct([edge |-> Object])
Node == <<BinaryNode, EdgeNode>>
ContractData == StructWith([class_hash |-> Felt, contract_state_hash_version |-> Felt, nonce |-> Felt,
    root |-> Felt], [storage_proofs |-> Array])
GetProofResult == StructWith([contract_proof |-> Array], [class_commitment |-> Felt, contract_data |-> Object,
    state_commitment |-> Felt])
-----------------------------------------------------------------------------
(* All types, each as the sequence of its variants. *)
Values ==
    <<Felt, Address, BlockHash, TxnHash, NumAsHex, ChainId, U64, U128, EthAddress,
    StorageKey, DeprecatedContractClassProgram, BlockNumber, BlockHeaderTimestamp,
    PendingBlockHeaderTimestamp, GetTransactionByBlockIdAndIndexIndex,
    GetBlockTransactionCountResult, StructAbiEntrySize, ResultPageRequestChunkSize,
    BlockTag, BlockStatus, DaMode, PriceUnit, CallType, EntryPointType, SimulationFlag,
    SimulationFlagForEstimateFee, TxGatewayStatus, TxnExecutionStatus, TxnFinalityStatus,
    TxnStatus>>
Structs ==
    <<ResourcePrice, BlockHeader, PendingBlockHeader, BlockBodyWithTxHashes,
    BlockBodyWithTxs, BlockWithTxHashes, PendingBlockWithTxHashes, BlockWithTxs,
    PendingBlockWithTxs, BlockHashAndNumberResult, SyncStatus, FunctionCall, ResourceBounds,
    ResourceBoundsMapping, InvokeTxnV0, InvokeTxnV1, InvokeTxnV3, DeclareTxnV0,
    DeclareTxnV1, DeclareTxnV2, DeclareTxnV3, DeployTxn, DeployAccountTxnV1,
    DeployAccountTxnV3, L1HandlerTxn, BroadcastedDeclareTxnV1, BroadcastedDeclareTxnV2,
    BroadcastedDeclareTxnV3, MsgFromL1, AddInvokeTransactionResult,
    AddDeclareTransactionResult, AddDeployAccountTransactionResult,
    GetTransactionStatusResult, EventContent, Event, EmittedEvent, OrderedEvent, MsgToL1,
    OrderedMessage, EventFilter, ResultPageRequest, GetEventsFilter, EventsChunk,
    FeePayment, FeeEstimate, ExecutionResources, CommonReceiptProperties, InvokeTxnReceipt,
    L1HandlerTxnReceipt, DeclareTxnReceipt, DeployTxnReceipt, DeployAccountTxnReceipt,
    PendingCommonReceiptProperties, PendingInvokeTxnReceipt, PendingL1HandlerTxnReceipt,
    PendingDeclareTxnReceipt, PendingDeployAccountTxnReceipt, FunctionInvocation,
    NestedCall, InvokeTxnTrace, DeclareTxnTrace, DeployAccountTxnTrace, L1HandlerTxnTrace,
    SimulatedTransaction, BlockTransactionTrace, TypedParameter, StructMember,
    FunctionAbiEntry, EventAbiEntry, StructAbiEntry, DeprecatedCairoEntryPoint,
    DeprecatedContractClassEntryPointsByType, DeprecatedContractClass, SierraEntryPoint,
    ContractClassEntryPointsByType, ContractClass, StorageDiffItem, ContractStorageDiffItem,
    DeployedContractItem, DeclaredClass, ReplacedClass, NonceUpdate, StateDiff, StateUpdate,
    PendingStateUpdate, BinaryNodeBinary, BinaryNode, EdgeNodePath, EdgeNodeEdge, EdgeNode,
    ContractData, GetProofResult>>
Unions ==
    <<BlockId, GetBlockWithTxHashesResult, GetBlockWithTxsResult, SyncingResult, InvokeTxn,
    DeclareTxn, DeployAccountTxn, Txn, BlockTransaction, GetTransactionByHashResult,
    GetTransactionByBlockIdAndIndexResult, BroadcastedDeclareTxn, BroadcastedInvokeTxn,
    BroadcastedDeployAccountTxn, BroadcastedTxn, TxnReceipt, PendingTxnReceipt,
    GetTransactionReceiptResult, InvokeTxnTraceExecuteInvocation, TransactionTrace,
    ContractAbiEntry, GetClassResult, GetClassAtResult, GetStateUpdateResult, Node>>
Types == [i \in DOMAIN Values |-> <<Scalar(Values[i])>>]
         \o [i \in DOMAIN Structs |-> <<Structs[i]>>] \o Unions
=============================================================================
