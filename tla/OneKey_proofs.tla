----------------------------- MODULE OneKey_proofs -----------------------------
(***************************************************************************)
(* The account with one key and the SDK that makes such a key.  For any    *)
(* keys and transactions of any length, the account's key passes on only   *)
(* by the will of its holder; for any number of calls that overlap, fail   *)
(* and are killed, an account's key leaves the slot only for the key of a  *)
(* later call or by a kill before it is on the disk.                       *)
(***************************************************************************)
EXTENDS PhoneAccount, WalletSDK, SequenceTheorems, TLAPS

(* The account (PhoneAccount).                                             *)

\* The first n calls have been made, and the key is what the last of them that sets
\* it has set, if one of them does.
Done(n) ==
    /\ n \in Nat
    /\ Len(running.calls) = n + Len(calls)
    /\ \A i \in 1 .. Len(calls) : calls[i] = running.calls[n + i]
    /\ \/ public_key = before
       \/ \E i \in 1 .. n :
            /\ running.calls[i] = [type |-> "set_public_key", key |-> public_key]
            /\ \A j \in (i + 1) .. n : running.calls[j].type = "other"

RunningOK ==
    /\ running \in sent
    /\ before = running.signer
    /\ running.nonce = nonce - 1
    /\ calls \in Seq(Call)
    /\ \E n \in Nat : Done(n)

IInv ==
    /\ sent \subseteq Transaction
    /\ nonce \in Nat
    /\ public_key \in Keys \cup {None}
    /\ public_key = None => running = None
    /\ running # None => RunningOK

LEMMA CallsAreSequences == Calls \subseteq Seq(Call)
BY PhoneAccountAssumption, SeqDef DEF Calls

LEMMA InitIInv == Init => IInv
BY DEF Init, IInv

\* One call of the running transaction has been made.
LEMMA NextCall ==
    ASSUME IInv, running # None, calls # <<>>, calls' = Tail(calls),
           UNCHANGED <<nonce, sent, running, before>>,
           \/ Head(calls) = [type |-> "set_public_key", key |-> public_key']
           \/ Head(calls).type = "other" /\ public_key' = public_key
    PROVE  RunningOK'
<1>1. /\ running \in sent /\ calls \in Seq(Call)
      /\ before = running.signer /\ running.nonce = nonce - 1
  BY DEF IInv, RunningOK
<1>2. PICK n \in Nat : Done(n)
  BY DEF IInv, RunningOK
<1>3. /\ Len(calls) \in Nat /\ Len(calls) > 0
      /\ calls' \in Seq(Call) /\ Len(calls') = Len(calls) - 1
      /\ \A i \in 1 .. Len(calls') : calls'[i] = calls[i + 1]
      /\ Head(calls) = calls[1]
  BY <1>1
<1>4. running.calls[n + 1] = Head(calls)
  BY <1>2, <1>3 DEF Done
<1>5. /\ Len(running.calls) = (n + 1) + Len(calls')
      /\ \A i \in 1 .. Len(calls') : calls'[i] = running.calls[(n + 1) + i]
  <2>1. Len(running.calls) = n + Len(calls)
    BY <1>2 DEF Done
  <2>2. ASSUME NEW i \in 1 .. Len(calls')
        PROVE  calls'[i] = running.calls[(n + 1) + i]
    <3>1. i + 1 \in 1 .. Len(calls) /\ n + (i + 1) = (n + 1) + i
      BY <1>3
    <3> QED BY <1>2, <1>3, <3>1 DEF Done
  <2> QED BY <1>3, <2>1, <2>2
<1>6. \/ public_key' = before
      \/ \E i \in 1 .. (n + 1) :
            /\ running.calls[i] = [type |-> "set_public_key", key |-> public_key']
            /\ \A j \in (i + 1) .. (n + 1) : running.calls[j].type = "other"
  <2>1. CASE Head(calls) = [type |-> "set_public_key", key |-> public_key']
    <3>1. /\ n + 1 \in 1 .. (n + 1)
          /\ \A j \in ((n + 1) + 1) .. (n + 1) : running.calls[j].type = "other"
      OBVIOUS
    <3> QED BY <1>4, <2>1, <3>1
  <2>2. CASE Head(calls).type = "other" /\ public_key' = public_key
    <3>1. CASE public_key = before
      BY <2>2, <3>1
    <3>2. CASE public_key # before
      <4>1. PICK i \in 1 .. n :
                /\ running.calls[i] = [type |-> "set_public_key", key |-> public_key]
                /\ \A j \in (i + 1) .. n : running.calls[j].type = "other"
        BY <1>2, <3>2 DEF Done
      <4>2. \A j \in (i + 1) .. (n + 1) : running.calls[j].type = "other"
        <5>1. \A j \in (i + 1) .. (n + 1) : j = n + 1 \/ j \in (i + 1) .. n
          BY <4>1
        <5> QED BY <1>4, <2>2, <4>1, <5>1
      <4> QED BY <2>2, <4>1, <4>2
    <3> QED BY <3>1, <3>2
  <2> QED BY <2>1, <2>2
<1>7. \E m \in Nat : Done(m)'
  <2>1. n + 1 \in Nat
    OBVIOUS
  <2> QED BY <1>5, <1>6, <2>1 DEF Done
<1> QED BY <1>1, <1>3, <1>7 DEF RunningOK

\* A transaction is validated: it is sent, and the holder of the key has signed it.
LEMMA ValidatedTx ==
    ASSUME IInv, NEW tx \in sent, Validated(tx)
    PROVE  /\ running = None /\ tx \in Transaction /\ tx.signer = public_key
           /\ public_key # None /\ nonce' \in Nat /\ tx.nonce = nonce' - 1
<1>1. tx \in Transaction /\ tx.signer \in Keys
  BY DEF IInv, Transaction
<1> QED BY <1>1, PhoneAccountAssumption DEF IInv, Validated, is_valid_signature

LEMMA NextIInv == IInv /\ [Next]_vars => IInv'
<1>1. SUFFICES ASSUME IInv, [Next]_vars PROVE IInv'
  OBVIOUS
<1>2. ASSUME NEW key \in Keys, NEW signer \in Keys, Deploy(key, signer)
      PROVE  IInv'
  BY <1>1, <1>2 DEF Deploy, IInv
<1>3. ASSUME NEW tx \in Transaction, Send(tx)
      PROVE  IInv'
  BY <1>1, <1>3 DEF Send, IInv, RunningOK, Done
<1>4. ASSUME NEW tx \in sent, __validate_declare__(tx)
      PROVE  IInv'
  <2>1. running = None /\ nonce' \in Nat
    BY <1>1, <1>4, ValidatedTx DEF __validate_declare__
  <2> QED BY <1>1, <1>4, <2>1 DEF __validate_declare__, IInv
<1>5. ASSUME NEW tx \in sent, NEW caller, NEW version, __execute__(caller, version, tx)
      PROVE  IInv'
  <2>1. /\ tx \in Transaction /\ tx.signer = public_key /\ public_key # None
        /\ nonce' \in Nat /\ tx.nonce = nonce' - 1
    BY <1>1, <1>5, ValidatedTx DEF __execute__, Reached
  <2>2. /\ running' = tx /\ calls' = tx.calls /\ before' = public_key
        /\ UNCHANGED <<public_key, sent>>
    BY <1>5 DEF __execute__, Reached
  <2>3. tx.calls \in Seq(Call)
    BY <2>1, CallsAreSequences DEF Transaction
  <2>4. Done(0)'
    BY <2>2, <2>3 DEF Done
  <2> QED BY <1>1, <2>1, <2>2, <2>3, <2>4 DEF IInv, RunningOK
<1>6. ASSUME NEW caller, NEW new \in Keys, set_public_key(caller, new)
      PROVE  IInv'
  <2>1. /\ running # None /\ calls # <<>> /\ calls' = Tail(calls) /\ public_key' = new
        /\ Head(calls) = [type |-> "set_public_key", key |-> new]
        /\ UNCHANGED <<nonce, sent, running, before>>
    BY <1>6 DEF set_public_key, assert_only_self
  <2>2. RunningOK'
    BY <1>1, <2>1, NextCall
  <2> QED BY <1>1, <2>1, <2>2, PhoneAccountAssumption DEF IInv
<1>7. CASE OtherCall
  <2>1. RunningOK'
    BY <1>1, <1>7, NextCall DEF OtherCall
  <2> QED BY <1>1, <1>7, <2>1 DEF IInv, OtherCall
<1>8. CASE multicall_failed
  <2>1. before \in Keys
    BY <1>1, <1>8 DEF multicall_failed, IInv, RunningOK, Transaction
  <2> QED BY <1>1, <1>8, <2>1 DEF multicall_failed, IInv
<1>9. CASE Executed
  BY <1>1, <1>9 DEF Executed, IInv
<1>10. CASE UNCHANGED vars
  BY <1>1, <1>10 DEF vars, IInv, RunningOK, Done
<1> QED BY <1>1, <1>2, <1>3, <1>4, <1>5, <1>6, <1>7, <1>8, <1>9, <1>10 DEF Next

(* Whoever sends which transactions, with however many calls that succeed or *)
(* fail, the key passes on only by a transaction that its holder has signed. *)
THEOREM HandedOver == Spec => KeyIsHandedOver
<1> DEFINE Step == Holder # None /\ Holder' # Holder =>
        \E tx \in sent : tx.signer = Holder /\ tx.nonce = nonce - 1 /\ Sets(tx, Holder')
<1>1. ASSUME IInv, IInv', [Next]_vars
      PROVE  [Step]_vars
  <2>1. SUFFICES ASSUME Next, Holder # None, Holder' # Holder
                 PROVE  \E tx \in sent :
                            /\ tx.signer = Holder /\ tx.nonce = nonce - 1
                            /\ Sets(tx, Holder')
    BY <1>1 DEF vars, Holder
  <2>2. ASSUME NEW key \in Keys, NEW signer \in Keys, Deploy(key, signer)
        PROVE  FALSE
    BY <1>1, <2>1, <2>2 DEF Deploy, IInv, Holder
  <2>3. ASSUME NEW tx \in Transaction, Send(tx)
        PROVE  FALSE
    BY <2>1, <2>3 DEF Send, Holder
  <2>4. ASSUME NEW tx \in sent, __validate_declare__(tx)
        PROVE  FALSE
    BY <2>1, <2>4 DEF __validate_declare__, Holder
  <2>5. ASSUME NEW tx \in sent, NEW caller, NEW version, __execute__(caller, version, tx)
        PROVE  FALSE
    <3>1. running = None /\ tx.signer = public_key /\ before' = public_key
      BY <1>1, <2>5, ValidatedTx DEF __execute__, Reached
    <3>2. running' = tx /\ public_key' = public_key
      BY <2>5 DEF __execute__, Reached
    <3> QED BY <2>1, <3>1, <3>2 DEF Holder
  <2>6. ASSUME NEW caller, NEW new \in Keys, set_public_key(caller, new)
        PROVE  FALSE
    BY <2>1, <2>6 DEF set_public_key, assert_only_self, Holder
  <2>7. CASE OtherCall
    BY <2>1, <2>7 DEF OtherCall, Holder
  <2>8. CASE multicall_failed
    BY <2>1, <2>8 DEF multicall_failed, Holder
  <2>9. CASE Executed
    <3>1. /\ running # None /\ calls = <<>> /\ Holder = before /\ Holder' = public_key
      BY <2>9 DEF Executed, Holder
    <3>2. /\ running \in sent /\ running.signer = Holder /\ running.nonce = nonce - 1
      BY <1>1, <3>1 DEF IInv, RunningOK
    <3>3. PICK n \in Nat : Done(n)
      BY <1>1, <3>1 DEF IInv, RunningOK
    <3>4. Len(running.calls) = n
      BY <3>1, <3>3 DEF Done
    <3>5. Sets(running, Holder')
      BY <2>1, <3>1, <3>3, <3>4 DEF Done, Sets
    <3> QED BY <3>2, <3>5
  <2> QED BY <2>1, <2>2, <2>3, <2>4, <2>5, <2>6, <2>7, <2>8, <2>9 DEF Next
<1>2. Spec => []IInv
  BY InitIInv, NextIInv, PTL DEF Spec
<1> QED BY <1>1, <1>2, PTL DEF Spec, KeyIsHandedOver
-----------------------------------------------------------------------------
(* The SDK (WalletSDK).                                                    *)

SDKTypeOK ==
    /\ disk \in RandomKeys \cup {NoKey}
    /\ memory \in RandomKeys \cup {NoKey}
    /\ pc \in [Deployments -> {"idle", "storeData", "retrieveData", "send", "returned", "failed"}]
    /\ generated \in [Deployments -> RandomKeys \cup {NoKey}]
    /\ privateKey \in [Deployments -> RandomKeys \cup {NoKey}]
    /\ accounts \subseteq RandomKeys
    /\ saved \cup replaced \cup lost \subseteq RandomKeys \cup {NoKey}

\* The key that a call is about to deploy an account with is in the slot, as those of
\* the accounts are, or has left it in one of the two ways; and the disk is behind the
\* copy of the process only by keys that calls have replaced.
SDKIInv ==
    /\ SDKTypeOK
    /\ disk \in {memory, NoKey} \cup replaced
    /\ \A key \in saved : key # NoKey => key \in {disk} \cup replaced
    /\ \A c \in Deployments :
        /\ pc[c] = "storeData" => generated[c] \in RandomKeys
        /\ pc[c] = "send" => /\ privateKey[c] # NoKey
                             /\ privateKey[c] \in {memory} \cup replaced \cup lost
    /\ accounts \subseteq {memory} \cup replaced \cup lost

LEMMA SDKInitIInv == SDKInit => SDKIInv
BY DEF SDKInit, SDKIInv, SDKTypeOK

LEMMA SDKNextIInv == SDKIInv /\ [SDKNext]_sdk_vars => SDKIInv'
<1>1. SUFFICES ASSUME SDKIInv, [SDKNext]_sdk_vars PROVE SDKIInv'
  OBVIOUS
<1> USE DEF SDKIInv, SDKTypeOK, histories
<1>2. ASSUME NEW c \in Deployments, NEW key \in RandomKeys, generatePrivateKey(c, key)
      PROVE  SDKIInv'
  BY <1>1, <1>2 DEF generatePrivateKey
<1>3. ASSUME NEW c \in Deployments, storeData(c)
      PROVE  SDKIInv'
  BY <1>1, <1>3 DEF storeData
<1>4. ASSUME NEW c \in Deployments, StoreFails(c)
      PROVE  SDKIInv'
  BY <1>1, <1>4 DEF StoreFails
<1>5. ASSUME NEW c \in Deployments, retrieveData(c)
      PROVE  SDKIInv'
  BY <1>1, <1>5, WalletSDKAssumption DEF retrieveData, Retrieved
<1>6. ASSUME NEW c \in Deployments, RetrieveFails(c)
      PROVE  SDKIInv'
  BY <1>1, <1>6 DEF RetrieveFails
<1>7. ASSUME NEW c \in Deployments, deployAccount(c)
      PROVE  SDKIInv'
  BY <1>1, <1>7 DEF deployAccount
<1>8. ASSUME NEW c \in Deployments, DeployFails(c)
      PROVE  SDKIInv'
  BY <1>1, <1>8 DEF DeployFails
<1>9. CASE Flush
  BY <1>1, <1>9 DEF Flush
<1>10. CASE Kill
  BY <1>1, <1>10 DEF Kill
<1>11. CASE UNCHANGED sdk_vars
  BY <1>1, <1>11 DEF sdk_vars
<1> QED
  BY <1>1, <1>2, <1>3, <1>4, <1>5, <1>6, <1>7, <1>8, <1>9, <1>10, <1>11 DEF SDKNext

(* However many calls of deployAccount overlap, however the store fails and  *)
(* whenever the process is killed, the key of an account leaves the slot only *)
(* for the key of a later call, or by a kill before it has reached the disk.  *)
THEOREM AccountKeysStay == SDKSpec => []AccountKeysAreKept
<1>1. SDKIInv => AccountKeysAreKept
  BY WalletSDKAssumption DEF SDKIInv, SDKTypeOK, AccountKeysAreKept
<1> QED BY <1>1, SDKInitIInv, SDKNextIInv, PTL DEF SDKSpec
=============================================================================
