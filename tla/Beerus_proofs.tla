---------------------------- MODULE Beerus_proofs ----------------------------
(***************************************************************************)
(* The light client as a run and as a service.  Whatever configurations    *)
(* there are and whatever happens to the endpoints meanwhile, a run that   *)
(* serves serves one network.  For any number of instances, requests and   *)
(* kills, no run finds its port taken, and the notification is there       *)
(* exactly while the current instance runs.                                *)
(***************************************************************************)
EXTENDS BeerusStart, BeerusService, TLAPS

(* One run (BeerusStart).                                                  *)

\* The phases that come after each check.
AfterClient == {"sync", "specVersion", "get_state", "serve", "serving"}
AfterStarknet == {"check_data_dir", "get_client"} \cup AfterClient
AfterEthereum == {"starknet_chainId"} \cup AfterStarknet

\* What has been checked still holds: the URLs, the network and the sites behind
\* the URLs stay what they were, whether the sites answer or not.
Checked ==
    /\ config \in Config /\ eth_site \in Site /\ starknet_site \in Site
    /\ pc \in {"start", "validate", "eth_chainId", "failed"} \cup AfterEthereum
    /\ pc \in AfterEthereum =>
          eth_site = [chain |-> "ethereum", network |-> config.network]
    /\ pc \in AfterStarknet =>
          starknet_site = [chain |-> "starknet", network |-> config.network]
    /\ pc \in AfterClient =>
          helios = [network |-> config.network, core_contract |-> config.network]

LEMMA InitChecked == Init => Checked
BY BeerusStartAssumption DEF Init, Checked, AfterEthereum, AfterStarknet, AfterClient

\* The chain's name and network tell a site from all others.
LEMMA SameSite ==
    ASSUME NEW site \in Site, NEW method,
           NEW chain, NEW network, call_method(site, method) = <<chain, network>>
    PROVE  site = [chain |-> chain, network |-> network]
BY DEF call_method, Site

LEMMA RunKeepsChecked ==
    ASSUME Checked, Run
    PROVE  Checked'
<1> USE DEF Checked, AfterEthereum, AfterStarknet, AfterClient, Goto, Fails
<1>1. CASE Find
  BY <1>1 DEF Find, Step, world
<1>2. CASE Validate
  BY <1>2 DEF Validate, Step, world
<1>3. CASE CheckEthereum
  <2>1. UNCHANGED <<config, world, helios>> /\ pc' \in {"starknet_chainId", "failed"}
    BY <1>3 DEF CheckEthereum, Step
  <2>2. pc' = "starknet_chainId" =>
            eth_site = [chain |-> "ethereum", network |-> config.network]
    BY <1>3, SameSite DEF CheckEthereum, Step, ethereum_chain_id
  <2> QED BY <2>1, <2>2 DEF world
<1>4. CASE CheckStarknet
  <2>1. /\ UNCHANGED <<config, world, helios>> /\ pc = "starknet_chainId"
        /\ pc' \in {"check_data_dir", "failed"}
    BY <1>4 DEF CheckStarknet, Step
  <2>2. pc' = "check_data_dir" =>
            starknet_site = [chain |-> "starknet", network |-> config.network]
    BY <1>4, SameSite DEF CheckStarknet, Step, starknet_chain_id
  <2> QED BY <2>1, <2>2 DEF world
<1>5. CASE check_data_dir
  BY <1>5 DEF check_data_dir, Step, world
<1>6. CASE get_client
  BY <1>6 DEF get_client, get_core_contract_address, world
<1>7. CASE Synced
  BY <1>7 DEF Synced, world
<1>8. CASE CheckSpecVersion
  BY <1>8 DEF CheckSpecVersion, Step, world
<1>9. CASE get_state
  BY <1>9 DEF get_state, world
<1>10. CASE serve
  BY <1>10 DEF serve, Step, world
<1> QED BY <1>1, <1>2, <1>3, <1>4, <1>5, <1>6, <1>7, <1>8, <1>9, <1>10 DEF Run

LEMMA WorldKeepsChecked ==
    ASSUME Checked, World
    PROVE  Checked'
<1>1. UNCHANGED <<config, eth_site, starknet_site, pc, helios>>
  BY DEF World, FallSilent, Recover, DataDirGoes, NodeUpgrade, Change
<1> QED BY <1>1 DEF Checked

\* Node, endpoint and core contract of a run that serves are of one network.
THEOREM OneNetwork == Spec => []ServesOneNetwork
<1>1. Checked /\ [Next]_vars => Checked'
  BY RunKeepsChecked, WorldKeepsChecked DEF Next, vars, world, Checked
<1>2. Checked => ServesOneNetwork
  BY DEF Checked, ServesOneNetwork, AfterEthereum, AfterStarknet, AfterClient
<1> QED BY InitChecked, <1>1, <1>2, PTL DEF Spec
-----------------------------------------------------------------------------
(* The service (BeerusService).                                            *)

\* The phases of a run that come after android_log::init.
AfterInit == {"setup", "bind", "serving"}

\* The first run of a process sets the logger and no later one gets past it, so that
\* the threads together make one run at most; a dead process has no threads.
OneRun ==
    /\ \A i \in Instances : thread[i] \in AfterInit => logger
    /\ \A i, j \in Instances : thread[i] \in AfterInit /\ thread[j] \in AfterInit => i = j
    /\ ~process => \A i \in Instances : thread[i] = "none"

IInv == TypeOK /\ OneRun /\ ForegroundWhileRunning

LEMMA ServiceInitIInv == ServiceInit => IInv
<1> SUFFICES ASSUME ServiceInit
             PROVE  IInv
  OBVIOUS
<1> USE DEF ServiceInit
<1>1. TypeOK
  <2>1. {started, sticky, process, logger, finished} \subseteq BOOLEAN
    OBVIOUS
  <2>2. \A i \in Instances : thread[i] = "none" /\ port # i
    BY ServiceAssumption
  <2>3. thread \in [Instances -> {"none", "idle"} \cup Running] /\ messages \in [Instances -> Nat]
    OBVIOUS
  <2> QED BY <2>1, <2>2, <2>3 DEF TypeOK
<1>2. OneRun
  BY DEF OneRun, AfterInit
<1>3. ForegroundWhileRunning
  BY ServiceAssumption DEF ForegroundWhileRunning
<1> QED BY <1>1, <1>2, <1>3 DEF IInv

\* A process that dies leaves nothing behind.
LEMMA DiesIInv ==
    ASSUME IInv, Dies,
           {started', sticky'} \subseteq BOOLEAN, {pending', requests', kills'} \subseteq Nat
    PROVE  IInv'
BY ServiceAssumption
   DEF IInv, Dies, TypeOK, OneRun, AfterInit, ForegroundWhileRunning, Running

LEMMA SystemIInv ==
    ASSUME IInv, System
    PROVE  IInv'
<1> USE DEF TypeOK, OneRun, AfterInit, ForegroundWhileRunning, Running
<1>1. CASE startService
  <2>1. pending' \in Nat /\ requests' \in Nat /\ started' \in BOOLEAN /\ process' = TRUE
    BY <1>1 DEF startService, IInv
  <2>2. UNCHANGED <<sticky, current, thread, messages, foreground, logger, port, kills, finished>>
    BY <1>1 DEF startService
  <2> QED BY <2>1, <2>2 DEF IInv
<1>2. CASE onDestroy
  <2>1. pending' \in Nat /\ started' = FALSE /\ sticky' = FALSE /\ finished' = FALSE
    BY <1>2 DEF onDestroy
  <2>2. current' = None /\ UNCHANGED <<process, thread, messages, logger, port, requests, kills>>
    BY <1>2 DEF onDestroy
  <2>3. foreground' = {}
    BY <1>2 DEF onDestroy, IInv
  <2>4. TypeOK'
    <3>1. {started', sticky', process', logger', finished'} \subseteq BOOLEAN
      BY <2>1, <2>2 DEF IInv
    <3> QED BY <2>1, <2>2, <2>3, <3>1 DEF IInv
  <2>5. OneRun' /\ ForegroundWhileRunning'
    BY <2>2, <2>3, ServiceAssumption DEF IInv
  <2> QED BY <2>4, <2>5 DEF IInv
<1>3. CASE Killed
  <2>1. Dies /\ {started', sticky'} \subseteq BOOLEAN
    BY <1>3 DEF Killed, IInv
  <2>2. {pending', requests', kills'} \subseteq Nat
    BY <1>3 DEF Killed, IInv
  <2> QED BY <2>1, <2>2, DiesIInv
<1>4. CASE Restart
  BY <1>4 DEF Restart, IInv
<1> QED BY <1>1, <1>2, <1>3, <1>4 DEF System

LEMMA MainIInv ==
    ASSUME IInv, Main
    PROVE  IInv'
<1> USE DEF TypeOK, OneRun, AfterInit, ForegroundWhileRunning, Running
<1>1. CASE onStartCommand
  <2>1. messages' \in [Instances -> Nat] /\ pending' \in Nat
    BY <1>1 DEF onStartCommand, IInv
  <2>2. sticky' \in BOOLEAN /\ finished' \in BOOLEAN
    BY <1>1 DEF onStartCommand, START_STICKY
  <2>3. UNCHANGED <<started, process, current, thread, foreground, logger, port, requests, kills>>
    BY <1>1 DEF onStartCommand
  <2> QED BY <2>1, <2>2, <2>3 DEF IInv
<1>2. ASSUME NEW i \in Instances, onCreate(i)
      PROVE  IInv'
  BY <1>2, ServiceAssumption DEF onCreate, system, IInv
<1> QED BY <1>1, <1>2 DEF Main

LEMMA ThreadIInv ==
    ASSUME IInv, NEW i \in Instances, Thread(i)
    PROVE  IInv'
<1> USE DEF TypeOK, OneRun, AfterInit, ForegroundWhileRunning, Running
<1>1. CASE handleMessage(i)
  BY <1>1 DEF handleMessage, system, IInv
<1>2. CASE android_log_init(i)
  <2>1. CASE logger
    <3>1. Dies /\ {started', sticky'} \subseteq BOOLEAN /\ {pending', requests', kills'} \subseteq Nat
      BY <1>2, <2>1 DEF android_log_init, system, IInv
    <3> QED BY <3>1, DiesIInv
  <2>2. CASE ~logger
    BY <1>2, <2>2 DEF android_log_init, system, IInv
  <2> QED BY <2>1, <2>2
<1>3. CASE SetUp(i)
  BY <1>3 DEF SetUp, system, IInv
<1>4. CASE rpc_serve(i)
  BY <1>4, ServiceAssumption DEF rpc_serve, system, IInv
<1>5. CASE RunFails(i)
  BY <1>5 DEF RunFails, stopForeground, MayReturn, system, IInv
<1> QED BY <1>1, <1>2, <1>3, <1>4, <1>5 DEF Thread

LEMMA NextIInv == IInv /\ [ServiceNext]_service_vars => IInv'
<1> SUFFICES ASSUME IInv, [ServiceNext]_service_vars
             PROVE  IInv'
  OBVIOUS
<1>1. CASE ServiceNext
  BY <1>1, SystemIInv, MainIInv, ThreadIInv DEF ServiceNext
<1>2. CASE UNCHANGED service_vars
  BY <1>2 DEF service_vars, IInv, TypeOK, OneRun, ForegroundWhileRunning
<1> QED BY <1>1, <1>2

LEMMA AlwaysIInv == ServiceSpec => []IInv
BY ServiceInitIInv, NextIInv, PTL DEF ServiceSpec

\* The run of an earlier instance, whose thread survives onDestroy, never holds the
\* port when another run asks for it (BeerusService.kt, android_glue.rs).
THEOREM PortStaysFree == ServiceSpec => []PortIsFree
<1>1. IInv => PortIsFree
  <2> SUFFICES ASSUME IInv, NEW i \in Instances, thread[i] = "bind", port # None
               PROVE  FALSE
    BY DEF PortIsFree
  <2>1. port \in Instances /\ thread[port] = "serving"
    BY DEF IInv, TypeOK
  <2>2. port = i
    BY <2>1 DEF IInv, OneRun, AfterInit
  <2> QED BY <2>1, <2>2
<1> QED BY <1>1, AlwaysIInv, PTL

\* The system shows the notification of the service exactly while the current instance
\* runs the light client (isForeground, BeerusService.kt).
THEOREM ShownWhileRunning == ServiceSpec => []ForegroundWhileRunning
<1>1. IInv => ForegroundWhileRunning
  BY DEF IInv
<1> QED BY <1>1, AlwaysIInv, PTL
=============================================================================
