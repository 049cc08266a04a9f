----------------------------- MODULE PhoneAccount -----------------------------
(***************************************************************************)
(* The phone account (snphone-contracts/src/account.cairo): one key, which *)
(* a call of the account to itself replaces, and transactions that carry   *)
(* several calls.                                                          *)
(*                                                                         *)
(* The sequencer is external: it deploys the account, takes transactions   *)
(* that __validate__ accepts, each nonce once, and undoes a transaction    *)
(* that panics, but for its nonce.  A transaction of version 0 is invoked  *)
(* without validation.  A call to another contract succeeds or fails as it *)
(* likes, and that contract, like any other, may call the account.  A      *)
(* signature is the key that made it.                                      *)
(***************************************************************************)
EXTENDS Integers, Sequences, FiniteSets

CONSTANTS
    Keys,           \* public keys, each with its holder
    MaxCalls,       \* bound: calls of one transaction
    MaxNonce,       \* bound: transactions of the account
    MaxSent,        \* bound: transactions sent
    None            \* nothing

ASSUME PhoneAccountAssumption ==
    /\ {MaxCalls, MaxNonce, MaxSent} \subseteq Nat
    /\ None \notin Keys

Call == [type : {"set_public_key"}, key : Keys] \cup [type : {"other"}]
Calls == UNION {[1 .. n -> Call] : n \in 0 .. MaxCalls}
Transaction == [signer : Keys, nonce : 1 .. MaxNonce, calls : Calls]

VARIABLES
    public_key,     \* _public_key, or None before the account is deployed
    nonce,          \* the next nonce, which the sequencer keeps
    sent,           \* the transactions somebody has signed and sent
    running,        \* the transaction that __execute__ runs, or None
    calls,          \* what is left of its calls
    before          \* the key when it began, which comes back if it panics

vars == <<public_key, nonce, sent, running, calls, before>>

\* Mutant: nobody looks at the signature.
AnySignature(signer) == public_key # None
\* validate_transaction
is_valid_signature(signer) == public_key = signer

\* Mutant: any contract may call.
AnyCaller(caller) == TRUE
assert_only_self(caller) == caller = "self"
-----------------------------------------------------------------------------
\* The constructor, and __validate_deploy__ with the key it has stored.
Deploy(key, signer) ==
    /\ public_key = None
    /\ signer = key
    /\ public_key' = key
    /\ nonce' = 1
    /\ UNCHANGED <<sent, running, calls, before>>

\* Somebody signs a transaction and sends it; it may wait for any time.
Send(tx) ==
    /\ Cardinality(sent) < MaxSent
    /\ sent' = sent \cup {tx}
    /\ UNCHANGED <<public_key, nonce, running, calls, before>>

\* The transaction is validated and its nonce used; a declaration ends here.
Validated(tx) ==
    /\ running = None
    /\ tx \in sent
    /\ tx.nonce = nonce
    /\ is_valid_signature(tx.signer)
    /\ nonce' = nonce + 1

__validate_declare__(tx) ==
    /\ Validated(tx)
    /\ UNCHANGED <<public_key, sent, running, calls, before>>

\* __execute__ is called by the sequencer, for a transaction it has validated or for
\* one of version 0, or by a contract, with whatever calls it likes.
Reached(caller, version, tx) ==
    IF caller = "zero" /\ version # 0 THEN Validated(tx) ELSE UNCHANGED nonce

__execute__(caller, version, tx) ==
    /\ Reached(caller, version, tx)
    /\ caller = "zero"
    /\ version # 0
    /\ running' = tx
    /\ calls' = tx.calls
    /\ before' = public_key
    /\ UNCHANGED <<public_key, sent>>

\* _execute_calls: the next call is to the account itself, or comes from a contract.
set_public_key(caller, new) ==
    /\ assert_only_self(caller)
    /\ public_key # None
    /\ public_key' = new
    /\ IF caller = "self"
       THEN /\ running # None /\ calls # <<>>
            /\ Head(calls) = [type |-> "set_public_key", key |-> new]
            /\ calls' = Tail(calls)
       ELSE UNCHANGED calls
    /\ UNCHANGED <<nonce, sent, running, before>>

\* The next call is to another contract, and succeeds.
OtherCall ==
    /\ running # None /\ calls # <<>>
    /\ Head(calls).type = "other"
    /\ calls' = Tail(calls)
    /\ UNCHANGED <<public_key, nonce, sent, running, before>>

\* A call has failed: 'multicall_failed'.
multicall_failed ==
    /\ running # None /\ calls # <<>>
    /\ Head(calls).type = "other"
    /\ running' = None
    /\ public_key' = before
    /\ UNCHANGED <<nonce, sent, calls, before>>

\* All calls have succeeded.
Executed ==
    /\ running # None /\ calls = <<>>
    /\ running' = None
    /\ UNCHANGED <<public_key, nonce, sent, calls, before>>
-----------------------------------------------------------------------------
Init ==
    /\ public_key = None
    /\ nonce = 0
    /\ sent = {}
    /\ running = None
    /\ calls = <<>>
    /\ before = None

Next ==
    \/ \E key, signer \in Keys : Deploy(key, signer)
    \/ \E tx \in Transaction : Send(tx)
    \/ \E tx \in sent :
        \/ __validate_declare__(tx)
        \/ \E caller \in {"zero", "self", "contract"}, version \in {0, 1} :
            __execute__(caller, version, tx)
    \/ \E caller \in {"self", "contract"}, new \in Keys : set_public_key(caller, new)
    \/ OtherCall
    \/ multicall_failed
    \/ Executed

Spec == Init /\ [][Next]_vars
-----------------------------------------------------------------------------
(* Properties.                                                             *)

\* The key that is in force between transactions.
Holder == IF running = None THEN public_key ELSE before

\* The last key that a transaction sets, if it does.
Sets(tx, new) ==
    \E i \in 1 .. Len(tx.calls) :
        /\ tx.calls[i] = [type |-> "set_public_key", key |-> new]
        /\ \A j \in (i + 1) .. Len(tx.calls) : tx.calls[j].type = "other"

(* The key passes on only by the will of its holder: whenever another key is *)
(* in force after a transaction, the holder of the one before has signed     *)
(* that transaction, for its nonce, and the new key is the last that it      *)
(* sets, whatever was sent by others, waited from the time of an earlier     *)
(* key, or failed half way (account.cairo, set_public_key, __execute__).     *)
KeyIsHandedOver ==
    [][Holder # None /\ Holder' # Holder =>
        \E tx \in sent : tx.signer = Holder /\ tx.nonce = nonce - 1 /\ Sets(tx, Holder')]_vars
=============================================================================
