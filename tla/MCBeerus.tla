------------------------------ MODULE MCBeerus ------------------------------
(* A small instance of the light client's process: one run up to its server,  *)
(* and the service that starts runs.  They share no variable, so that in a    *)
(* behaviour the one or the other does something.                             *)
EXTENDS BeerusStart, BeerusService

Good == [network |-> "SEPOLIA", eth_execution_rpc |-> "url", starknet_rpc |-> "url",
         poll_secs |-> 5, port |-> "free"]
\* The configuration of run, and with one field changed.
MCConfigs ==
    {Good} \cup {[Good EXCEPT !.network = n] : n \in {"MAINNET", "other"}}
           \cup {[Good EXCEPT !.eth_execution_rpc = "invalid"],
                 [Good EXCEPT !.starknet_rpc = "invalid"], [Good EXCEPT !.port = "taken"]}
           \cup {[Good EXCEPT !.poll_secs = n] : n \in {0, 1, 3600, 3601}}
MCSites == [chain : {"ethereum", "starknet"}, network : {"MAINNET", "SEPOLIA", "other"}]
           \cup {[chain |-> "none", network |-> "other"]}

\* The service is looked at with one of the initial states of a run.
Usual ==
    /\ config = Good
    /\ eth_site = [chain |-> "ethereum", network |-> "SEPOLIA"]
    /\ starknet_site = [chain |-> "starknet", network |-> "SEPOLIA"]
    /\ spec_version = RPC_SPEC_VERSION
    /\ silent = {}
    /\ data_dir = "writable"

MCInit == Init /\ ServiceInit

MCNext ==
    \/ Next /\ ServiceInit /\ UNCHANGED service_vars
    \/ ServiceNext /\ Init /\ Usual /\ UNCHANGED vars

MCSpec == MCInit /\ [][MCNext]_<<vars, service_vars>> /\ Fairness
=============================================================================
