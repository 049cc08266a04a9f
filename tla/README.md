# Starknet Phone: specification and verification

TLA+ models of the parts of Starknet Phone that carry its logic: the smart
accounts that own the user's funds, the light client that the phone reads the
chain with, the wallet from its onboarding to its transfers, and the SDK that makes
its key. TLC checks the models on small instances; TLAPS proves the promises of each part
for every value of the constants.

Paths below are relative to the repository. `argent_account.cairo` is
`snphone-contracts/src/argent/argent_account.cairo`; the light client's Rust code
is in `lightclientservice/src`, its Android side in
`lightclientservice/app/src/main/java/com/snphone/lightclientservice`, the wallet
in `wallet_app/app/src/main/java/com/example/walletapp`, the SDK in
`wallet-sdk/walletsdk/src/main/java/com/snphone/snwalletsdk`.

## The system

| Part | State it keeps | Operations | What is hard |
|---|---|---|---|
| Guardian account (`argent_account.cairo`) | owner, guardian, backup, pending escape, last attempts, security period | change of each role, trigger/complete/cancel an escape, validate and execute | two parties who race, time windows, validation that keeps its effects when execution reverts, `u64` sums |
| Phone account (`account.cairo`) | one public key | `set_public_key`, validate, multicall | key changed in the middle of a multicall |
| Light client, start (`config.rs`, `client.rs`, `eth.rs`, `android_glue.rs`) | configuration, Helios | check the configuration and both endpoints, synchronise, serve | endpoints that fall silent between two phases, a network chosen in five places |
| Light client, RPC (`rpc.rs`, `gen.rs`) | the connections | read a request or a batch, call its methods, post them to the node, answer | untagged documents, timeouts after which the node still runs what it was sent, order of a batch |
| Light client, reads (`rpc.rs`, `eth.rs`) | the settled Starknet block of the start | read the state, `getStorageAt` | a state read by three calls; replicas that lag; blocks that are replaced |
| Light client, executor (`exe`) | the state an execution reads and writes | `call` | a latest block that moves between a read, its proof and the next read |
| Light client, proofs (`proof.rs`, `util.rs`) | none | check a storage proof | counting bits over edges of any length |
| Light client, service (`BeerusService.kt`, `android_glue.rs`) | instance, thread, process, port | start, stop, run, restart | threads that outlive instances, a process that dies at any step |
| Wallet, onboarding (`ui/WalletApp.kt`, `ui/onboarding`, `datastore`) | name, key, PIN hash, `has_account` on disk | create, import, set and enter a PIN | background writes that race with screens and crashes |
| Wallet, balances and transfers (`ui/account`, `ui/transfer`) | last balances, prices, the form of a transfer | fetch, confirm, send | overlapping fetches, a form that changes between its check and its transfer, second clicks |
| Wallet, token list (`db`) | Room database | create, populate, insert | crash before populate |
| Wallet SDK (`SNWalletSDK.kt`, `utils/Signer.kt`) | one encrypted key slot | deploy, balance, transfer | a store that fails silently, calls that overlap in one slot |
| other screens, `light_client_app`, `examples`, SDK demo | none of interest | | layout, samples |

How they meet: the wallet calls the SDK, which signs with its key and sends
transactions to the account contract; the service runs the light client, whose
server answers the RPC calls of applications on port 3030; that server asks a
Starknet node it does not control, and checks the storage it is given against
the root that the core contract on Ethereum has settled, read through Helios.

What makes each part correct:

* account: the two parties change a role only together, or one of them alone
  after an announcement and a full security period; the owner can always stop an
  escape of the guardian's, never the other way round; the stored data never
  makes a call impossible;
* phone account: its key passes on only as its holder has signed;
* start: what serves is of one network;
* RPC: the node gets the call that was asked for, at most once and in order, and
  the answer tells the truth about what it ran and is read as what was sent;
* reads: an answer is the storage of one block, and for `getStorageAt` of a block
  that is final;
* proofs: a value that is verified is the state's, and of a node that computes its
  proofs it is verified exactly if the state holds it;
* service: at most one server, one that comes back after a kill, and a
  notification while it runs;
* wallet and SDK: what the user confirmed is on disk and belongs together, what is
  sent is what was confirmed and checked, and the key of an account that was saved
  stays until it is replaced.

`PROJECT.json` lists the hazards one by one, each at its line.

## Modules

| Module | What it is |
|---|---|
| `ArgentAccount` | the guardian account, one action per entry point |
| `AccountRecovery` | what a guardian account promises its two parties, abstractly |
| `ArgentAccount_proofs` | its inductive invariant and theorems, and that it implements `AccountRecovery` |
| `PhoneAccount` | the account with one key |
| `StarknetNode` | the node, which is external: its chain and its replicas |
| `LightClient` | the settled state and the verified reads |
| `VerifiedReads` | what the caller of a verified read may rely on, abstractly |
| `Executor` | a call that the server executes itself |
| `Reads_proofs` | the theorems of both, over facts about the node's chain, and that `LightClient` implements `VerifiedReads` |
| `MerkleProof` | the check of a storage proof, node by node |
| `PatriciaTrie` | the network's tries and the proofs that a node computes, which are external, for TLC |
| `MerkleProof_proofs` | what the check accepts, of any answer and of a computed one |
| `BeerusStart` | one run, from its configuration to its server |
| `RpcTypes` | the types of the RPC interface as serde reads and writes them |
| `RpcWire` | a document on its way through the server |
| `RpcWire_proofs` | its theorems, from what tells the variants of each type apart |
| `JsonRpc` | requests, batches, methods, the life of the server |
| `RemoteCall` | what the caller of a remote node may rely on, abstractly |
| `JsonRpc_proofs` | its inductive invariant and theorems, and that it implements `RemoteCall` |
| `BeerusService` | the Android service and its process |
| `Beerus_proofs` | the theorems of `BeerusStart` and `BeerusService` |
| `Onboarding` | the wallet's screens up to the PIN, and the data store behind them |
| `Transfers` | balances, the form of a transfer, and the transfers |
| `Wallet_proofs` | the inductive invariants and theorems of both |
| `WalletSDK` | the SDK's deployment of an account and the store of its key |
| `OneKey_proofs` | the theorems of `PhoneAccount` and `WalletSDK` |
| `MC*` | instances for TLC |

How they fit together. `BeerusService` looks at the run of the client as something
that serves or fails; `BeerusStart` is that run up to its server. `JsonRpc` is the
server, with two calls that verify: what `getStorageAt` verifies is `LightClient`,
what `call` verifies is `Executor`, both over the same `StarknetNode`. Their operator
`verify` says that a proof is accepted exactly if it is from the block of the root
and the block holds the value: their nodes lag, fail and follow blocks that are
replaced, but compute what they answer, and of such a node that is `ComputedProofsDecide`
of `MerkleProof`. The
documents that `JsonRpc` passes on as whole values are those of `RpcTypes`, and
`RpcWire` is what reading and writing does to them. Three abstract specifications are
implemented under a refinement mapping: `AccountRecovery` by `ArgentAccount`,
`VerifiedReads` by `LightClient`, `RemoteCall` by `JsonRpc`.

### ArgentAccount

A step is one transaction, or the next block (`Tick`). The variables are the
storage fields: `signer` and `guardian_backup` are functions from the kind of
signer to a stored key, because the code has one slot per kind and finds the
signer by looking through the slots in order (`FirstSigner`,
`owner_ordered_types`). A signature is the signer that made it. A transaction
arrives by `__validate__` ("validate": the account pays; if `__execute__` reverts,
what validation wrote stays, `RevertedCall`) or by `execute_from_outside`
("outside": a revert undoes all, so it is no step). `__validate__` sees the time
rounded down to the hour (`ValidateTime`). `now + period` and
`ready_at + period` are `u64` sums that panic.

Three history variables, which no action reads, are there for the properties:
`signed` (who signed the last transaction), `triggered` (the parties and the time
of the trigger of the stored escape), `paid` (when the account last paid for each
kind of attempt) with `forgotten` (the kinds whose count has been reset since).

`AccountRecovery` has no slots, kinds, statuses or attempts: two parties, one
announcement and its window. The mapping of `ImplementsRecovery` reads the roles out
of the slots, and an escape that expired is no announcement. It finds a defect that
no invariant of a state shows: an expired escape that becomes ready again.

### PhoneAccount

A step is the sequencer's or one call of a multicall. `running` and `calls` are the
transaction in `__execute__` and what is left of it; `before` is the key that comes
back if a call fails. `sent` holds what anybody has signed, with any key, at any
time: a transaction may wait until the key that signed it has been replaced and set
again. A call that is no `set_public_key` of the account to itself succeeds or fails
as it likes, the calls of other contracts to the account among them.

### LightClient

`chain` (`StarknetNode`) is the Starknet chain, as the fork number of each block;
what Ethereum has not settled may be replaced (`Reorg`). `l1` holds, for each Ethereum
block, the settled number. `sync` is the one start: `latest`, then three calls of the
core contract at that same Ethereum block. `task` holds the requests in progress:
between two of their remote calls both chains may move on, and each call may be
answered by a replica that is up to `MaxLag` blocks behind, or fail. Replicas are
honest. The refresh of the state is commented out in `run` and not modelled.

### Executor

`call` ignores its block id, takes the root of the node's latest block (not the
settled state), and asks for everything at the latest block. `frames` is the stack of
contracts; the code of a contract is any sequence of reads, writes, calls and
replacements of its class. A read is two remote calls, the value and its proof. A
write goes to `diff`, which no read consults.

### BeerusStart

`pc` is the phase of `run`; each await is a phase, and `World` moves between two of
them: a URL falls silent or comes back, the directory goes, the node is upgraded. A
silent endpoint keeps a phase waiting: neither the client of `config.check` nor the one
that asks for the version has a timeout (only the server's own client has one), and the
loop that waits for Helios has no bound, so that no fairness is assumed and nothing is
said of the end of a start. What is behind a URL does not change during a run.

### RpcTypes, RpcWire and JsonRpc

A struct of `gen.rs` is the values each field requires and those it may have; an
untagged enum is the sequence of its variants. `RpcWire` writes a document as one
variant, changes up to `MaxChanges` fields, reads it as the server does (the first
variant that fits), writes what was read, and reads that as the receiver does.

In `JsonRpc` every method has a handler (arguments by name or position) and a method
of the client (position again); the value of an argument is the argument it was given
for, so that an argument in the wrong place shows. A connection is in `pc`: reading a
body, `calling`, `waiting` for the node, `responded`, or `gone` when its caller has
left. `posts` are the requests to the node, `ran` what the node has run and in which
order; a post that timed out may still run. `Replies` are the forms of an answer.

### MerkleProof

The state machine is the code: `EdgeNode` and `BinaryNode` are the two arms of the loop
of `parse_proof`, the last node first; `verify_storage_proofs` and
`verify_contract_proof` compare its result. A hash is the term it is made from. The
answer of the node is any that the constant `Answers` allows, whatever state it was
computed for or however it was altered; only the root that is asked about is known, and
is of one state. The tries are not the code's: `Root` and `Proof` are constants, and
`TrieAssumption` says what a trie of the network is (`IsPath`: the nodes from the root
down the path of the key, to its leaf or to an edge it does not take). `PatriciaTrie`
gives TLC their definitions, which are recursive.

`parse_proof` compares the last node with the value and the key, and each binary node
with the hash so far and a bit of the key. Of an edge above the last node it compares
nothing, and nothing says that the lengths of the nodes add up to the key. So there are
two properties. `VerifiedIfHeld` is about any answer, on the condition that the edges
above the last node lead down the key (`LeadsDown`), which the code leaves to the node.
`ComputedProofsDecide` has no such condition but a node that computes its proofs
(`IsComputed`), for the right state or another.

### BeerusService

`started`, `sticky` and `pending` are the system's record of the service;
`current`, `thread`, `messages`, `logger` and `port` belong to the process and go
with it. `onDestroy` does not quit the looper of its instance, so that a thread may
outlive it. A second `android_log::init` in one process panics, which ends the
process. The server of a run is never done by itself.

### Onboarding

`store` is the data store on disk; `tasks` holds, for each coroutine a button has
launched, the edits it has still to make. An edit is atomic, coroutines run in any
order, and only a crash stops one: neither its screen nor the activity owns it.
`backStack` is the navigation, `step` the half of a screen that shows two, which
starts again when the screen is left (`remember`). `Collect` is a new value of
`has_account` reaching `WalletApp`: the start destination changes, and the
navigation library replaces the graph with all screens on it. A PIN is verified in
two steps, a read of the store and the return to the main thread. A crash starts
again from the launcher; screens that the system restores after it has killed the
process, a second click on a button of a screen that is going away, and a check
that ends after its activity are left out.

Four history variables, which no action reads, say what the user did: `chosen` (the
last choice of each preference), `account` (the name and key brought to
`CreatePin`), `raced` and `lost` (preferences with two choices under way at once, or
with an edit lost in a crash), `again` (onboarding begun once more).

### Transfers

`fetches` are the coroutines of `fetchBalance` and what each has for each token;
`awaitAll` shows the results. An exception that is no `RpcRequestFailedException`
leaves its coroutine and ends the application (`FetchThrows`). `form` is the fields of
`SendScreen` with `activateHandleOnClick`; `launched` says that the `LaunchedEffect` is
in the composition and `waiting` holds what it runs, which checks the transfer and
then waits for the id of the chain. Recomposition comes at any later time
(`handleOnClick`, `Dispose`), so that clicks and edits fall between. `transfers` are
coroutines of the view model, which outlive the screen.

### WalletSDK

`memory` and `disk` are the one slot of the preferences, as the process sees it and as
`apply` has written it. Each call of `deployAccount` generates a key, stores it or fails
to (which is logged only), reads the slot, and sends the deployment of what it has read;
the answer may be lost. An account is the key its address is computed from.

## Runs

| Run | Question | Bounds |
|---|---|---|
| `account_escape` | Do roles stay sound, and change only as promised, whatever is signed by whom at whatever time? Is it an `AccountRecovery`? | 2 keys of 2 kinds (symmetric), periods around the minimum and one that overflows 5 bits, time for an escape to begin, get ready, expire and begin again; path "outside", which has no limit on attempts |
| `account_attempts` | Are paid attempts as far apart as the limit says? | 1 key, path "validate" with reverts, an hour of 2, time for two attempts of each kind, also around a reset |
| `account_attempts_reset` | "Values are resets when an escape is completed or canceled" (`argent_account.cairo:102`) | as above; **violated** |
| `one_key` | Does the key of an account change hands only as its holder has signed, and what can take it from the device? | 2 keys, 3 transactions sent, 2 calls in each, 3 nonces; 3 deployments with 3 keys, kills at any time (all symmetric) |
| `generated_key` | "retrieve it to generate public key" (`Signer.kt`): is it the key just generated? | 2 deployments; **violated** |
| `reads` | Is the state one settled block, and what a call reads of one block? Does a caller see a server that looks storage up in settled blocks? | 4 blocks (3 while a call is executed), 1 replacement each, replicas 1 behind; 3 Ethereum blocks, 2 requests (symmetric); 2 contracts, one of them deployed and upgraded meanwhile, 2 reads, calls 2 deep |
| `merkle_proof` | Is what is verified held, and what a node computes decided? | keys of 3 bits, every storage of up to 3 keys, 2 contract tries, 3 keys and every value asked, the root of the right state or another; the proof as it is computed, of another key, with one node altered (child, path, length, sides) or left out, the data of another contract, another state commitment |
| `beerus` | Is what serves of one network? One server, a notification, a restart? | every configuration with at most one field off, every pair of endpoints, 2 versions, 2 changes of the world; 3 requests, 3 instances in a process, 2 kills |
| `rpc_wire` | Is a document read as what was written, at both ends? | every type and variant, all or no optional fields, 2 fields changed, left out or added |
| `rpc` | Does every argument arrive in its place, are answers matched and true, does a batch run once and in order, is every body answered, and does a server stop? | every method with every form of params, batches of 2, another connection, a result or an error, a node that is late or never answers |
| `service_stop` | "so we know which request we're stopping when we finish the job" (`BeerusService.kt:70`) | 1 instance, 2 requests; **violated** |
| `wallet` | Is what is on disk in the end what was chosen, and does the PIN stand before the wallet? Is what is sent what was confirmed and checked, once? | 2 names, 2 keys, 2 PINs, 5 coroutines, and a sixth for a second passage through onboarding, 1 check at a time, 1 crash; 2 tokens, 2 fetches, 2 confirmations, amounts from below zero to all funds |

`reads`, `one_key`, `beerus` and `wallet` take two modules each that share no variable, or only a
chain that only the node changes: in a behaviour the one or the other does
something, so that the states of the run are those of the two, not their product.

Why the bounds are enough. Account: each role has one slot per kind and two keys
make a change between kinds and back possible; a security period of 2 or 3 with 9
blocks lets an escape pass through all its statuses and be overridden, and the
period that overflows makes both sums panic. The two account runs split the paths:
on "validate" the attempts add four clocks, which matter only to the limit, while
what an executed call does to roles and escapes is the same on both paths.
Light client: requests never write what another reads, so that two requests meet
every interleaving with the two chains; four blocks leave one before, one at and
two after the settled one. Executor: two reads of two blocks are the fewest that can
disagree, and a second frame lets the contract change under its caller. Phone account:
two transactions that set a key, one of them undone half way, and a third that was
signed before. Start: two changes let an endpoint fall silent in one phase and come back
in another. RPC: a batch of two is the shortest with an order, and the second connection
shows what the first one holds up; an answer of the node that is no result ends its
call with a code, which no property tells apart, so that one error stands for all;
documents: two changes are a tag and a field. Merkle: three bits are the fewest with an
edge between two binary nodes and a binary node between two edges; without the condition
`LeadsDown` the altered proofs of the run refute `VerifiedIfHeld`, so that they reach what
the code leaves uncompared. Onboarding: five
coroutines are an account imported or created, another one after going back, and a
PIN; or one account, two PINs, the second after the wallet was closed and opened. In a
second passage (`SecondPassage` of `MCWallet`) the sixth is the store of the second
`has_account`: without it no second PIN can be under way after the first is stored.
Service: the third instance is created while the thread of the first and the second
may be anywhere. Transfers: the second fetch and the second confirmation overlap with
the first. SDK: two calls overlap in every way; the third leaves room for an account
before them or after a kill.

The runs that may stop (`CHECK_DEADLOCK FALSE`): the light client whose start
failed, a call that has returned, a proof with a verdict, a document that was
received, a run that has failed or serves, a server that has stopped or whose callers
are done, a service nobody starts again, and models whose bounds are used up.

### What the runs found

* `AttemptsResetWithEscape`: a trigger that overrides an ongoing escape cancels it
  (it emits `EscapeCanceled`) without resetting the timestamps of the attempts; the
  comment of the storage says that they are reset when an escape is canceled.
* `StopsWhenFinished`: the start id is passed to the handler "so we know which
  request we're stopping", and never used: when a run has returned an error the
  service stays started with nothing to do.
* `UsesGeneratedKey`: a failed store is only logged, and all calls share one slot: a call
  may go on with the key of another call, or of an earlier one, and deploy the account of
  that key again. The comment says of the key just generated "retrieve it to generate
  public key".

What the models show of the code without a property of their own:

* `CheckSpecVersion`: `run` ends with an error unless the node says that its interface
  is of version 0.6.0, compared as a whole string, after everything has synchronised;
  the service and the test of `run` are given an endpoint of version 0.7.
* `Accepted`: "0.00", the amount that the form of a transfer begins with, is not
  `BigDecimal(0)` to `equals`, and passes the check for an empty amount.
* `Flush` and `Kill` of `WalletSDK`: `storeData` ends with `apply`, which writes to the
  disk in the background, and nothing waits for it before the account is deployed: a
  process that is killed in between leaves an account whose key is on no disk. These keys
  are `lost`, which `AccountKeysAreKept` excepts.

What holds and may surprise. `OnlyPendingIsMisread` names what `RpcWire` found: a
settled block, receipt or state update that lacks one of its own fields is no error
but is read as a pending one, and a damaged trace of a call as a revert for no reason.
A method of one argument also reads bare params. The client never compares the id of a
response with that of its request. In the executor an execution does not read what it
has written, only its first write of a slot is kept, classes and class hashes are not
verified and are those of the latest block, and the call of a contract that is not
deployed is an error of the node, so that nothing can be deployed in a call. A click
between the end of the effect of `SendScreen` and the recomposition leaves Confirm dead
until the screen is left. The balance that the SDK returns is in tokens already; the
view model divides it by 10^18 once more. The token address that the SDK calls ETH is
the one that `TokenDatabase` calls starknet. `PortIsFree` holds only because the second logger
initialisation ends the process; stopping and starting the service therefore kills
the server that the first instance left behind, and `START_STICKY` brings a new
one. `ComputedProofsDecide` says that a key that was never written is verified only in an
empty storage: proofs of absence are refused. `PaidAttemptsSpaced` names its one
exception: after a cancel, a change of a role or a completed escape the next attempt may
be paid for at once, however short ago the last one was, as the code resets what it has
stored. `AccountKeysAreKept` names two: a later call of `deployAccount` puts its key in the
only slot, and a kill takes a key that is not on the disk yet. The properties of `Onboarding` name the cases
they leave out, and each case is real: a crash between the coroutines of
`CreatePin` leaves an account whose PIN cannot be entered; going back and choosing
again while an edit is under way may leave the earlier choice on disk; a wallet
that is closed and opened before `has_account` is stored shows onboarding once more,
and the key may then be replaced without the name. In such a second passage the earlier
PIN opens the wallet while the edit of the new one is under way, which is why
`OpensWithChosenPin` asks for less there. `OwnerCanAnswer` and
`StatusNeverPanics` hold because the period cannot be changed while an escape is
ongoing.

### Fairness

* `Onboarding` (`AsksForNewPin`): weak fairness of the coroutines together, which
  `Dispatchers.IO` runs, and of the collection of a changed value. Nothing is
  assumed of the user.
* `BeerusService` (`RunsAgainWhenKilled`): the system restarts a process that it must
  (documented behaviour of a sticky service), the main thread delivers what is pending,
  and a thread takes its message and initialises; each is weak fairness on that part
  alone. Nothing is assumed of stops or of kills, or of the set-up of a run, which a silent
  endpoint may hold up for ever or which may fail every time: the property asks only that
  it be tried.
* `JsonRpc` (`EveryBodyIsAnswered`, `StopEnds`): weak fairness, by connection, of what
  the runtime does with a handler that is ready (`Start`, `Send`, `Respond`) and of the
  timer of its client (`TimesOut`), and of the end of a server that is told to stop and
  has no connection in progress. Nothing is assumed of the node, of callers, or of an
  execution, whose blocking client has no timeout; both properties except it.

Every other property is a safety property.

## What is proved

Each theorem is of the specification that the runs check, for every value of its
constants: any keys, requests, instances, contracts, configurations, and any length of a
run. The bounds of the guards are constants like the others.

| Theorem | Property |
|---|---|
| `ArgentAccount_proofs!TypeCorrect` | `TypeOK`: types, and no field beyond 64 bits |
| `RolesAreSound` | `OneOwner` |
| `BackupIsGuarded` | `BackupNeedsGuardian` |
| `EscapesComplete` | `EscapeCanComplete` |
| `EscapesAreSound` | `EscapeSeesUnchangedParties` |
| `NoPanic` | `StatusNeverPanics` |
| `OwnerMayAnswer` | `OwnerCanAnswer`, with the guards of the owner's call in place of `ENABLED` |
| `GuardianEscapeSafe` | `GuardianEscapeNeedsOwner` |
| `NoRevival` | `ExpiredStaysExpired` |
| `RolesAreGuarded` | `RolesChangeTogetherOrAnnounced` |
| `AttemptsAreSpaced` | `PaidAttemptsSpaced` |
| `Implements` | `ImplementsRecovery`: `ArgentAccount` is an `AccountRecovery` |
| `OneKey_proofs!HandedOver` | `KeyIsHandedOver` |
| `AccountKeysStay` | `AccountKeysAreKept` |
| `Reads_proofs!OneSettledBlock` | `StateIsOneSettledBlock` |
| `AnswersAreSettled` | `AnswerIsOfSettledBlock`, of one state; no run checks it, as what a run checks (`ImplementsVerifiedReads`) says more |
| `ReadsOneBlock` | `CallReadsOneBlock` |
| `Implements` | `ImplementsVerifiedReads`: `LightClient` is a `VerifiedReads` |
| `Beerus_proofs!OneNetwork` | `ServesOneNetwork` |
| `PortStaysFree` | `PortIsFree` |
| `ShownWhileRunning` | `ForegroundWhileRunning` |
| `MerkleProof_proofs!VerifiedAreHeld` | `VerifiedIfHeld`: of any answer |
| `ComputedExactly` | `ComputedProofsDecide` |
| `JsonRpc_proofs!SameCall` | `SameCallForwarded` |
| `AnswersMatch` | `AnswersMatchRequests` |
| `RunsInOrder` | `BatchRunsInOrder` |
| `Implements` | `ImplementsRemoteCall`: `JsonRpc` is a `RemoteCall` |
| `RpcWire_proofs!ConformingHolds` | `ConformingArrives` |
| `ReadAlikeHolds` | `BothEndsReadAlike` |
| `MisreadHolds` | `OnlyPendingIsMisread` |
| `Wallet_proofs!PinWithAccount` | `PinComesWithAccount` |
| `ChoicesAreStored` | `LastChoiceStored` |
| `AccountIsOne` | `AccountBelongsTogether` |
| `BehindThePin` | `AccountIsBehindPin` |
| `RightPinIsChosen` | `OpensWithChosenPin` |
| `OneTransferPerConfirmation` | `ConfirmationSendsOnce` |
| `TransfersAreChecked` | `SendsWhatWasChecked` |

A theorem of a specification with fairness uses its safety part only.

Assumptions. `SignerAssumption`: the empty slot is no key, every kind of signer is
in the ordered list once. `TimeAssumption`: constants are in the range of a
`u64`, the default period is at least the minimum, the limit is a multiple of the
hour, the chain starts later than the limit plus an hour after 1970, and no
block's time reaches half of a `u64`. `PhoneAccountAssumption`, `WalletSDKAssumption`,
`LightClientAssumption`, `ServiceAssumption`, `OnboardingAssumption`,
`TransfersAssumption`: bounds are numbers, and nothing is no key, no instance, no name,
no hash of a PIN and no amount. `JsonRpcAssumption`: bodies are sequences of at most
`MaxBatch` requests, and the params of a request for a known method are one of the
forms, sound or not, that the model tells apart. `ExecutorAssumption`: besides, every
contract has a class or none and every slot a value, in each block. `BeerusStartAssumption`: configurations and endpoints are
of their types. `MerkleAssumption`: keys and addresses are of `Height` bits.
`TrieAssumption`: in a trie of the network the proof of a key is its path; what hangs
above the leaves is a node and no stored value is the hash of one; two states do not have
one root. It holds unless hashes collide, and assumes nothing of the node.
`AnswerAssumption`: the proofs in an answer are sequences; nothing else is assumed of
them. TLC evaluates all of them, the last two for
the tries of `PatriciaTrie` and the answers of the run.

Arguments.

* Account. No single property is inductive: that an escape can complete needs that
  the roles are those of its trigger, which needs that each change of a role resets
  the escape, which needs that the status can be computed, which needs that the
  period has not grown since the trigger. `IInv` is the conjunction of `TypeOK`,
  `OneOwner`, `BackupNeedsGuardian`, `EscapeCanComplete` and
  `EscapeSeesUnchangedParties`; `StatusNeverPanics` follows from it. Lemmas about the
  slots (`FirstSigner` of `OnlySlot(s)` is `s`, `Replace` of one slot by another)
  carry the proof of the roles. The action properties follow from `IInv` step by
  step. `PaidAttemptsSpaced` has an invariant of its own, `PaidInv`: what is stored
  for an attempt is the time it was paid at, rounded down to the hour, or the attempt is
  `forgotten`.
* Refinement of the account. `IInv` gives that the roles read out of the slots are the
  two parties, and that an announcement is in time. There is a lemma for each group of
  entry points: what both sign agrees, a trigger announces, an escape completes, a call
  that reverts has no effect, and a block that ends the window closes it.
* The owner's answer. An escape is ready a whole period after its trigger, so that a period
  is at most the time now, and the sum of the two at most twice the last block's time. With
  the guards the values that the handler assigns make a step of it (`AnswerIsStep`).
* Phone account. While a transaction runs, its signer is the key of before, its nonce the
  last one used, and the key in force the last that the calls done so far have set
  (`RunningOK`, `Done`).
* Reads. What is settled is never replaced (`ChainsMove`), so that a state read at one
  Ethereum block stays the settled block of its number; for each request, what is known
  of the root and the value at each of its steps (`TaskOK`). The chain is the same for the
  executor, whose root need not be settled: a block that is replaced makes a proof fail,
  and every value that was accepted was in the block of the root (`ProofStep`).
* Reads as `VerifiedReads`. The blocks up to the settled one are the abstract ones, and the
  server has its block when it serves; of a request the caller sees whether it is open and
  what was answered. Blocks that Ethereum settles are the only move of the chains that shows
  (`ChainsSettle`), the last step of the start is the only one of the start (`StartBegins`),
  and the calls to the node show only in their outcome (`HiddenStep`, `ProofAnswers`).
* Start. From the phase in which a check has passed, what it has checked holds
  (`Checked`): a configuration does not change, and neither does what is behind a URL.
* Merkle proof, computed. The loop goes up the path (`Climbs`): the nodes from some m on
  are checked, the hash is that of node m, and the bits used are those of the key below it.
  The last node alone decides (`FirstNode`: a binary node or an edge to the value is there
  exactly if the trie has the value at the key, `LastBinary`, `LastEdge`), and all above it
  pass (`NextNode`). With no node left the hash is the root exactly if the value matches
  (`ParseEnd`), once for the storage and once for the contract (`IInv`), where it always
  matches, so that only the root asked about is left to tell.
* Merkle proof, any answer. The proof is not the trie's, so the invariant (`Rises`) says
  what would follow: if the trie of the state asked about has the hash so far on the key's
  path, at the depth that the lengths of the nodes left give it (`At`), then it has the
  value. A node that passes leads to that hash (`LeadsToHold`), and where the trie has a
  node it has what the node leads to (`AtBelow`), so that the claim moves up one node
  (`RiseStep`) until the root, which the trie has (`RiseEnd`). The contract's proof is the
  second round, and carries what the first has shown (`StorageShown`): its hash contains
  the root of the storage.
* SDK. What a call goes on with is in the slot, was replaced there, or was lost with its
  process, and so is the key of each account; what was saved is on the disk or was
  replaced (`SDKIInv`).
* RPC, the documents. A variant differs from another (`Differ`) if the other
  requires a field that it has not (`Lacks`), or a tag that both require has no value in
  common (`TaggedApart`): its documents are then never read as the other. In each of the
  25 untagged types every variant differs from those before it (`InOrder`), which a lemma
  for each type shows (`BlockIs`, `TxnDistinct`, `GetTransactionReceiptResultIs`), and in
  all but five also from those after it (`Distinct`). `InOrder` gives the first two
  theorems, `Distinct` the third. That only null fields are lost
  needs that no required field takes null, shown for every struct (`TypesNoNulls`).
  The invariant (`RpcInv`) only says what each step has read and written. Nothing is
  assumed of the values that fields are changed to, or of how many are.
* RPC, the call. Two lemmas for the table of methods: a handler that is given params of
  a sound form makes the call with the argument of each name (`GivenByName`, `CallOf`),
  and the method of the client writes each argument at its position (`Relayed`,
  `ArgsInPlace`), so that what is planned for a request serves it (`HandledWell`).
* RPC, the sessions. `IInv` has four parts. `SessionsOK`: a session is at one request of
  its body, with a plan for that one while it is in a call, and has answered those before
  it that have an id, in order. `PostsOK`: the posts of a connection are made in the order
  of its body, each by a step of a plan for its request; those the node is behind with are
  the one that is waited for, and those that failed. `RanOK`: the node runs a post once,
  and those of a connection in order unless they failed. `ToldOK`: who is answered after a
  post failed is told so. Order is not inductive without the second: the node
  runs in any order what it has, and only because a session waits for its post is there
  but one that has not failed.
* RPC as a `RemoteCall`. The state of a call is read out of its session, which has passed
  its request, is at it or has yet to come to it, of its answer and of its posts
  (`StateIn`, `Outcome`). A step of one session leaves the calls of all others, and of its
  other requests, as they are (`OthersKept`); for the call it is at there is a lemma for
  each action: it stutters or makes one move (`CurrentStutters`, `CurrentMoves`).
  A call that is forwarded has one post at most (`OnePost`), so that it runs once.
* Onboarding. Its invariant is in three parts. `DataIInv`, of the store: a preference for
  which the choices have not raced and nothing is lost has its last choice on disk, or all
  edits of it under way are of that choice; and an account that is complete, or about to be,
  comes with a PIN. Lemmas say what one edit, one launch and one crash do to
  the edits that are left (`EditMakesOne`, `LaunchAdds`, `DataCrash`). `StackOK`, of the
  screens: all that is above `EnterPin` is reached through it, and what is above
  `CreatePin` is the wallet. `AccountOK`: who is at `CreatePin` has come there with the name
  and the key that were chosen last.
* Transfers. At most one confirmation waits for the node, it is the last one made and
  nothing was sent for it yet, and the form is disabled meanwhile (`TransfersIInv`).
* Service. `OneRun`: at most one instance is past `android_log::init`, and only if the
  logger is set; a second `init` ends the process, and all instances with it.

What the proofs found. TLC had not refuted two things that did not go through.
`OpensWithChosenPin` was an invariant (a PIN found right is the one chosen last) that
holds with five coroutines: six let the user come back to onboarding, and the PIN of the
first passage is right until that of the second is stored. It is now a property of the
step that reads the store, and the bound of the run reaches the case. And the state of a
call in the refinement of `RemoteCall` was a `CASE` with arms that overlap, of which TLC
takes the first and the definition of TLA+ any; it is now read in that order.

Model-checked only. `RunsAgainWhenKilled`, `AsksForNewPin`,
`EveryBodyIsAnswered` and `StopEnds` are liveness under fairness, which is out of the
prover's reach, and so is the `ENABLED` of `OwnerCanAnswer`, of which the guards are proved.
That the tries of `PatriciaTrie` are as `TrieAssumption` says is an induction over data
and is checked for the instance only. No theorem speaks of the fairness of `Spec`.

## Plan

Done: all modules above. What is left:

1. `execute_after_upgrade` in `ArgentAccount`, with the slots that it migrates.

## Not modelled

* Account: `execute_after_upgrade`, planned above. Sessions, the nonces of calls from
  outside and the reentrancy guard are components of a library that is not in the
  repository; a session may not call the account itself. The checks of versions and
  paymaster data have no state.
* Executor: what only a transaction reaches (nonces, declared classes), the feature that
  accepts a zero root, which is for tests, and what the conversions of classes compute:
  they succeed or fail.
* RPC: a caller that stalls in the middle of its request; in `JsonRpc` a request arrives
  whole. The code sets no limit to it, and `StopEnds` says nothing of such a caller.
* Configuration: `from_env` and `from_file`, which nothing calls.
* Bindings: the blocking server, which nothing calls, and of the blocking client all but
  that it has no timeout.
* Transfers: prices and images, which no transfer reads, and the rounding of amounts to
  doubles. `StarknetClient` is not in the repository at this commit.
* SDK: `getBalance` and `transferFunds`, one request each that keeps no state, and the
  conversions of amounts.
* Token list: one table that is only added to and read as a whole. Its two risks, default
  tokens that are inserted once and in the background, and a migration that creates
  another table, are single steps.
* Other screens (layout), `light_client_app` (a switch connected to nothing), `examples`
  and the demo of the SDK (samples).
* Onboarding: screens that the system restores after it has killed the process.
