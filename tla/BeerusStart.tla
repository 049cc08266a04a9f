---------------------------- MODULE BeerusStart ----------------------------
(***************************************************************************)
(* One run of the light client, from its arguments to its server           *)
(* (android_glue.rs: run; config.rs; client.rs; eth.rs).  The run checks    *)
(* its configuration and asks the two endpoints which chain they are of,   *)
(* builds and synchronises Helios, asks the node which version of the RPC  *)
(* interface it speaks, reads the state and serves.  Each await is a       *)
(* state of pc, in which the rest of the world may change: an endpoint may *)
(* fall silent or come back, and the directory may go.  No client of a run *)
(* up to its server has a timeout and the loop that waits for Helios has   *)
(* no end of its own: a run may stay in any of these phases for ever, and  *)
(* nothing is promised about its reaching the end.                         *)
(* LightClient begins where this ends; what Helios verifies is its own.    *)
(***************************************************************************)
EXTENDS Integers

CONSTANTS
    Configs,     \* the configurations a run is given
    Sites,       \* what may be behind a URL
    Versions,    \* versions of the RPC interface a node may speak
    MaxChanges   \* bound: changes of the world during a run

VARIABLES
    config,
    eth_site,        \* behind eth_execution_rpc
    starknet_site,   \* behind starknet_rpc
    spec_version,    \* the version the node speaks
    silent,          \* endpoints that take a request and do not answer
    data_dir,        \* the directory: "missing", "readonly" or "writable"
    pc,
    helios,          \* the networks of Helios and of the core contract
    changes

world == <<eth_site, starknet_site, spec_version, silent, data_dir, changes>>
vars == <<config, world, pc, helios>>

RPC_SPEC_VERSION == "0.6.0"

Config == [network : {"MAINNET", "SEPOLIA", "other"}, eth_execution_rpc : {"url", "invalid"},
           starknet_rpc : {"url", "invalid"}, poll_secs : Nat, port : {"free", "taken"}]
Site == [chain : {"ethereum", "starknet", "none"}, network : {"MAINNET", "SEPOLIA", "other"}]

ASSUME BeerusStartAssumption == Configs \subseteq Config /\ Sites \subseteq Site

NoHelios == [network |-> "none", core_contract |-> "none"]
-----------------------------------------------------------------------------
(* Parts of the configuration. *)

validate ==
    /\ config.eth_execution_rpc = "url"
    /\ config.starknet_rpc = "url"
    /\ config.poll_secs \in 1 .. 3600

Supported == config.network \in {"MAINNET", "SEPOLIA"}

\* The result of a method that only nodes of its chain know is their network.
call_method(site, method) ==
    IF \/ site.chain = "ethereum" /\ method = "eth_chainId"
       \/ site.chain = "starknet" /\ method = "starknet_chainId"
    THEN <<site.chain, site.network>>
    ELSE <<>>

ethereum_chain_id == <<"ethereum", config.network>>
\* Mutant: the test network's identifier is missing.
mainnet_chain_id == <<"starknet", "MAINNET">>
starknet_chain_id == <<"starknet", config.network>>

get_core_contract_address == config.network
-----------------------------------------------------------------------------
(* The steps of run. *)

Goto(next) == pc' = next /\ UNCHANGED <<config, world, helios>>
Fails == Goto("failed")

Step(at, ok, next) ==
    /\ pc = at
    /\ IF ok THEN Goto(next) ELSE Fails

Find == Step("start", data_dir # "missing", "validate")
Validate == Step("validate", validate /\ Supported, "eth_chainId")

\* The client of config.check is reqwest's default one: no answer, no step.
CheckEthereum ==
    /\ "eth" \notin silent
    /\ Step("eth_chainId", call_method(eth_site, "eth_chainId") = ethereum_chain_id,
            "starknet_chainId")
CheckStarknet ==
    /\ "starknet" \notin silent
    /\ Step("starknet_chainId",
            call_method(starknet_site, "starknet_chainId") = starknet_chain_id,
            "check_data_dir")
check_data_dir == Step("check_data_dir", data_dir = "writable", "get_client")

\* The checkpoint is fetched from services of the network, which may fail.
get_client ==
    /\ pc = "get_client"
    /\ \/ /\ pc' = "sync"
          /\ helios' = [network |-> config.network, core_contract |-> get_core_contract_address]
          /\ UNCHANGED <<config, world>>
       \/ Fails

\* The loop of start asks Helios every second, however long it takes.
Synced == pc = "sync" /\ (("eth" \notin silent /\ Goto("specVersion")) \/ Fails)

\* The client of the bindings is the default one too (StarknetClient::new).
CheckSpecVersion ==
    /\ "starknet" \notin silent
    /\ Step("specVersion", spec_version = RPC_SPEC_VERSION, "get_state")

\* Four calls through Helios (starknet_state), each of which may fail.
get_state == pc = "get_state" /\ (("eth" \notin silent /\ Goto("serve")) \/ Fails)

\* The server is never done by itself.
serve == Step("serve", config.port = "free", "serving")
-----------------------------------------------------------------------------
(* The rest of the world. *)

Change ==
    /\ changes < MaxChanges
    /\ changes' = changes + 1
    /\ UNCHANGED <<config, pc, helios, eth_site, starknet_site>>

FallSilent(url) ==
    /\ url \notin silent
    /\ silent' = silent \cup {url}
    /\ UNCHANGED <<data_dir, spec_version>>
    /\ Change

Recover(url) ==
    /\ url \in silent
    /\ silent' = silent \ {url}
    /\ UNCHANGED <<data_dir, spec_version>>
    /\ Change

DataDirGoes ==
    /\ data_dir # "missing"
    /\ data_dir' = "missing"
    /\ UNCHANGED <<silent, spec_version>>
    /\ Change

NodeUpgrade ==
    /\ spec_version' \in Versions \ {spec_version}
    /\ UNCHANGED <<silent, data_dir>>
    /\ Change

Init ==
    /\ config \in Configs
    /\ eth_site \in Sites
    /\ starknet_site \in Sites
    /\ spec_version \in Versions
    /\ silent \in SUBSET {"eth", "starknet"}
    /\ data_dir \in {"missing", "readonly", "writable"}
    /\ pc = "start"
    /\ helios = NoHelios
    /\ changes = 0

Run ==
    \/ Find
    \/ Validate
    \/ CheckEthereum
    \/ CheckStarknet
    \/ check_data_dir
    \/ get_client
    \/ Synced
    \/ CheckSpecVersion
    \/ get_state
    \/ serve

World ==
    \/ \E url \in {"eth", "starknet"} : FallSilent(url) \/ Recover(url)
    \/ DataDirGoes
    \/ NodeUpgrade

Next == Run \/ World

Spec == Init /\ [][Next]_vars
-----------------------------------------------------------------------------
(* What a start promises. *)

\* A server answers for one network: the node it forwards to, the endpoint that
\* Helios executes on and the core contract it reads roots from are of the same
\* one, whatever URLs and network the run was given (config.check, get_client).
ServesOneNetwork ==
    pc = "serving" =>
        /\ helios = [network |-> config.network, core_contract |-> config.network]
        /\ eth_site = [chain |-> "ethereum", network |-> config.network]
        /\ starknet_site = [chain |-> "starknet", network |-> config.network]
=============================================================================
