------------------------------ MODULE MCWallet ------------------------------
(* A small instance of the wallet: its onboarding, and its transfers.  They   *)
(* share no variable, so that in a behaviour the one or the other does        *)
(* something.                                                                 *)
EXTENDS Onboarding, Transfers

MCInit == Init /\ TransfersInit

\* Bound: only a second passage through onboarding launches a sixth coroutine, when
\* nothing of the first is left but has_account, and the process has not died.
SecondPassage ==
    Len(tasks') > 5 => again' /\ crashes' = 0 /\ raced' \subseteq {"has_account"}

\* Onboarding is looked at with one of the initial states of Transfers.
MCNext ==
    \/ Next /\ SecondPassage /\ TransfersInit /\ funds = MaxFunds /\ UNCHANGED transfers_vars
    \/ TransfersNext /\ Init /\ UNCHANGED vars

MCSpec == MCInit /\ [][MCNext]_<<vars, transfers_vars>> /\ Fairness
=============================================================================
