------------------------------- MODULE WalletSDK -------------------------------
(***************************************************************************)
(* How the wallet SDK makes an account (SNWalletSDK.deployAccount,         *)
(* Signer.generatePrivateKey): the one slot of the encrypted preferences,  *)
(* which every call overwrites and reads back, failures of the store that  *)
(* are only logged, and calls that overlap.                                *)
(*                                                                         *)
(* The preferences are external: a process has one copy of them, which     *)
(* apply changes at once and writes to the disk later.  The node is        *)
(* external: it takes a deployment or refuses it, and its answer may be    *)
(* lost.  An account is the key its address is computed from.              *)
(***************************************************************************)
EXTENDS Naturals, FiniteSets

CONSTANTS
    Deployments,      \* the calls of deployAccount
    RandomKeys,       \* the keys that may be generated
    NoKey        \* no key

ASSUME WalletSDKAssumption == NoKey \notin RandomKeys

VARIABLES
    disk,       \* the slot "key" of my_encrypted_prefs, on the disk
    memory,     \* the same, in the copy of the process
    pc,         \* where each call stands
    generated,  \* randomPrivateKey of each call
    privateKey, \* the key each call goes on with
    accounts,   \* the accounts whose deployment the node has taken
    \* History, which no call reads:
    saved,      \* the keys that have reached the disk
    replaced,   \* the keys in the place of which a later call has put another
    lost        \* the keys that were only in the copy of a process that is killed

histories == <<saved, replaced, lost>>
sdk_vars == <<disk, memory, pc, generated, privateKey, accounts, histories>>

\* A key is random: one that nobody has had before.
generatePrivateKey(c, key) ==
    /\ pc[c] = "idle"
    /\ \A d \in Deployments : generated[d] # key
    /\ generated' = [generated EXCEPT ![c] = key]
    /\ pc' = [pc EXCEPT ![c] = "storeData"]
    /\ UNCHANGED <<disk, memory, privateKey, accounts, histories>>

storeData(c) ==
    /\ pc[c] = "storeData"
    /\ memory' = generated[c]
    /\ replaced' = replaced \cup {memory}
    /\ pc' = [pc EXCEPT ![c] = "retrieveData"]
    /\ UNCHANGED <<disk, generated, privateKey, accounts, saved, lost>>

\* GeneralSecurityException or IOException: the call goes on.
StoreFails(c) ==
    /\ pc[c] = "storeData"
    /\ pc' = [pc EXCEPT ![c] = "retrieveData"]
    /\ UNCHANGED <<disk, memory, generated, privateKey, accounts, histories>>

\* Mutant: an empty slot is answered with the key at hand.
RetrievedOrGenerated(c) == IF memory = NoKey THEN generated[c] ELSE memory
Retrieved(c) == memory

\* What the slot holds is the key, whoever has put it there; "" is no number.
retrieveData(c) ==
    /\ pc[c] = "retrieveData"
    /\ privateKey' = [privateKey EXCEPT ![c] = Retrieved(c)]
    /\ pc' = [pc EXCEPT ![c] = IF Retrieved(c) = NoKey THEN "failed" ELSE "send"]
    /\ UNCHANGED <<disk, memory, generated, accounts, histories>>

\* "" is also what a failure to read returns.
RetrieveFails(c) ==
    /\ pc[c] = "retrieveData"
    /\ pc' = [pc EXCEPT ![c] = "failed"]
    /\ UNCHANGED <<disk, memory, generated, privateKey, accounts, histories>>

\* The node takes the deployment of an account that is not there yet; the call returns
\* its key and address, or fails for want of an answer.
deployAccount(c) ==
    /\ pc[c] = "send"
    /\ privateKey[c] \notin accounts
    /\ accounts' = accounts \cup {privateKey[c]}
    /\ \E end \in {"returned", "failed"} : pc' = [pc EXCEPT ![c] = end]
    /\ UNCHANGED <<disk, memory, generated, privateKey, histories>>

\* The node refuses: the account is there already, has no funds, or cannot be validated.
DeployFails(c) ==
    /\ pc[c] = "send"
    /\ pc' = [pc EXCEPT ![c] = "failed"]
    /\ UNCHANGED <<disk, memory, generated, privateKey, accounts, histories>>
-----------------------------------------------------------------------------
\* What apply has left to be written reaches the disk.
Flush ==
    /\ disk # memory
    /\ disk' = memory
    /\ saved' = saved \cup {memory}
    /\ UNCHANGED <<memory, pc, generated, privateKey, accounts, replaced, lost>>

\* The process is killed, with its calls, and started again.
Kill ==
    /\ memory' = disk
    /\ lost' = lost \cup ({memory} \ {disk})
    /\ pc' = [c \in Deployments |-> IF pc[c] \in {"idle", "returned"} THEN pc[c] ELSE "failed"]
    /\ UNCHANGED <<disk, generated, privateKey, accounts, saved, replaced>>

SDKInit ==
    /\ disk = NoKey /\ memory = NoKey
    /\ pc = [c \in Deployments |-> "idle"]
    /\ generated = [c \in Deployments |-> NoKey]
    /\ privateKey = [c \in Deployments |-> NoKey]
    /\ accounts = {} /\ saved = {} /\ replaced = {} /\ lost = {}

SDKNext ==
    \/ \E c \in Deployments :
        \/ \E key \in RandomKeys : generatePrivateKey(c, key)
        \/ storeData(c) \/ StoreFails(c)
        \/ retrieveData(c) \/ RetrieveFails(c)
        \/ deployAccount(c) \/ DeployFails(c)
    \/ Flush
    \/ Kill

SDKSpec == SDKInit /\ [][SDKNext]_sdk_vars
-----------------------------------------------------------------------------
(* Properties.                                                             *)

(* The key of every account stays in the slot, however the store fails and   *)
(* calls overlap, with two exceptions: a later call has put its own key in   *)
(* its place, or the process was killed before apply wrote it to the disk.   *)
(* Once it has reached the disk only the first of the two can take it away   *)
(* (Signer.generatePrivateKey, storeData, retrieveData).                     *)
AccountKeysAreKept ==
    \A key \in accounts :
        /\ key \in {memory} \cup replaced \cup lost
        /\ key \in saved => key \in {disk} \cup replaced

(* "retrieve it to generate public key" (Signer.generatePrivateKey): the key *)
(* that a call goes on with is the one that it has generated.                *)
UsesGeneratedKey ==
    \A c \in Deployments : privateKey[c] # NoKey => privateKey[c] = generated[c]
=============================================================================
