------------------------------ MODULE MCOneKey ------------------------------
(* A small instance of the account with one key, and of the SDK that makes    *)
(* such a key.  They share no variable, so that in a behaviour the one or the *)
(* other does something.                                                      *)
EXTENDS PhoneAccount, WalletSDK, TLC

MCSymmetry == Permutations(Keys) \cup Permutations(Deployments) \cup Permutations(RandomKeys)

MCInit == Init /\ SDKInit

MCNext ==
    \/ Next /\ SDKInit /\ UNCHANGED sdk_vars
    \/ SDKNext /\ Init /\ UNCHANGED vars

MCSpec == MCInit /\ [][MCNext]_<<vars, sdk_vars>>
=============================================================================
