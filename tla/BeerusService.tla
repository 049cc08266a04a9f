---------------------------- MODULE BeerusService ----------------------------
(***************************************************************************)
(* The Android service that runs the light client: BeerusService.kt with   *)
(* the native run of android_glue.rs (lightclientservice).                 *)
(*                                                                         *)
(* The system creates an instance of the service, delivers start requests  *)
(* to it and destroys it, all on the main thread.  Each instance has a     *)
(* thread whose looper handles one message at a time and is never quit, so *)
(* that it outlives its instance.  Everything but the system's own record  *)
(* dies with the process, at any moment.                                   *)
(***************************************************************************)
EXTENDS Integers

CONSTANTS
    Instances,    \* bound: the instances that one process may see
    MaxRequests,  \* bound: how many start requests are made
    MaxKills,     \* bound: how often the system kills the process
    None          \* no instance

ASSUME ServiceAssumption ==
    /\ {MaxRequests, MaxKills} \subseteq Nat
    /\ None \notin Instances

VARIABLES
    started,   \* the system's record: the service is to run
    sticky,    \* and is to be restarted with its process
    pending,   \* start requests not yet delivered
    process,   \* the process is alive
    current,   \* the instance that has been created and not destroyed
    thread,    \* what the thread of each instance is doing
    messages,  \* the messages waiting for each thread
    foreground,\* the instances that the system shows a notification for
    logger,    \* android_log::init has been called in this process
    port,      \* the instance whose run listens on port 3030
    requests, kills, \* how often each has happened, for the bounds
    finished   \* the current instance has handled all its requests: none is left

service_vars ==
    <<started, sticky, pending, process, current, thread, messages, foreground,
      logger, port, requests, kills, finished>>
system == <<started, sticky, pending, requests, kills>>

Running == {"init", "setup", "bind", "serving"}

\* What is left of a process that dies.
Dies ==
    /\ process' = FALSE
    /\ current' = None
    /\ thread' = [i \in Instances |-> "none"]
    /\ messages' = [i \in Instances |-> 0]
    /\ foreground' = {}
    /\ logger' = FALSE
    /\ port' = None
    /\ finished' = FALSE
-----------------------------------------------------------------------------
(* The system and the applications that start and stop the service.        *)

\* startService, by the button of MainActivity or by another application.
startService ==
    /\ requests < MaxRequests
    /\ requests' = requests + 1
    /\ pending' = pending + 1
    /\ started' = TRUE
    /\ process' = TRUE
    /\ UNCHANGED <<sticky, current, thread, messages, foreground, logger, port, kills, finished>>

\* stopService: onDestroy leaves the thread as it is.
onDestroy ==
    /\ started
    /\ started' = FALSE
    /\ sticky' = FALSE
    /\ pending' = 0
    /\ current' = None
    /\ foreground' = foreground \ {current}
    /\ finished' = FALSE
    /\ UNCHANGED <<process, thread, messages, logger, port, requests, kills>>

Killed ==
    /\ process
    /\ kills < MaxKills
    /\ kills' = kills + 1
    /\ Dies
    /\ UNCHANGED <<started, sticky, pending, requests>>

\* The process of a service that has requests, or is sticky, is started again;
\* a sticky one gets a request, without an intent, if there is no other.
Restart ==
    /\ ~process
    /\ started
    /\ pending > 0 \/ sticky
    /\ process' = TRUE
    /\ pending' = IF pending = 0 THEN 1 ELSE pending
    /\ UNCHANGED <<started, sticky, current, thread, messages, foreground, logger, port,
                   requests, kills, finished>>
-----------------------------------------------------------------------------
(* The main thread.                                                        *)

onCreate(i) ==
    /\ process /\ started
    /\ pending > 0
    /\ current = None
    /\ thread[i] = "none"
    /\ current' = i
    /\ thread' = [thread EXCEPT ![i] = "idle"]
    /\ UNCHANGED <<system, process, messages, foreground, logger, port, finished>>

\* Mutant: START_NOT_STICKY.
NOT_STICKY == FALSE
START_STICKY == TRUE

onStartCommand ==
    /\ current # None
    /\ pending > 0
    /\ pending' = pending - 1
    /\ messages' = [messages EXCEPT ![current] = @ + 1]
    /\ sticky' = START_STICKY
    /\ finished' = FALSE
    /\ UNCHANGED <<started, process, current, thread, foreground, logger, port, requests, kills>>
-----------------------------------------------------------------------------
(* A thread.                                                               *)

\* startForeground means nothing to the system once i has been destroyed.
handleMessage(i) ==
    /\ thread[i] = "idle"
    /\ messages[i] > 0
    /\ messages' = [messages EXCEPT ![i] = @ - 1]
    /\ thread' = [thread EXCEPT ![i] = "init"]
    /\ foreground' = IF i = current THEN foreground \cup {i} ELSE foreground
    /\ UNCHANGED <<system, process, current, logger, port, finished>>

\* Mutant: a logger that is there already is no error.
InitIgnoringError(i) ==
    /\ thread[i] = "init"
    /\ logger' = TRUE
    /\ thread' = [thread EXCEPT ![i] = "setup"]
    /\ UNCHANGED <<system, process, current, messages, foreground, port, finished>>
\* android_log::init(..).unwrap(): the second one of a process ends it.
android_log_init(i) ==
    /\ thread[i] = "init"
    /\ IF logger THEN Dies /\ UNCHANGED system
       ELSE /\ logger' = TRUE
            /\ thread' = [thread EXCEPT ![i] = "setup"]
            /\ UNCHANGED <<system, process, current, messages, foreground, port, finished>>

\* config.check, Client::new, start, spec_version and get_state succeed.
SetUp(i) ==
    /\ thread[i] = "setup"
    /\ thread' = [thread EXCEPT ![i] = "bind"]
    /\ UNCHANGED <<system, process, current, messages, foreground, logger, port, finished>>

\* rpc::serve, after which the server is never done.
rpc_serve(i) ==
    /\ thread[i] = "bind"
    /\ port = None
    /\ port' = i
    /\ thread' = [thread EXCEPT ![i] = "serving"]
    /\ UNCHANGED <<system, process, current, messages, foreground, logger, finished>>

\* Mutant: the notification stays when run returns an error.
KeepForeground(i) == UNCHANGED foreground
stopForeground(i) == foreground' = foreground \ {i}

MayReturn == {"setup", "bind"}

\* run returns an error, which handleMessage drops.
RunFails(i) ==
    /\ thread[i] \in MayReturn
    /\ thread' = [thread EXCEPT ![i] = "idle"]
    /\ stopForeground(i)
    /\ finished' = (i = current /\ messages[i] = 0 /\ pending = 0)
    /\ UNCHANGED <<system, process, current, messages, logger, port>>
-----------------------------------------------------------------------------
ServiceInit ==
    /\ started = FALSE
    /\ sticky = FALSE
    /\ pending = 0
    /\ process = FALSE
    /\ current = None
    /\ thread = [i \in Instances |-> "none"]
    /\ messages = [i \in Instances |-> 0]
    /\ foreground = {}
    /\ logger = FALSE
    /\ port = None
    /\ requests = 0
    /\ kills = 0
    /\ finished = FALSE

System == startService \/ onDestroy \/ Killed \/ Restart
Main == onStartCommand \/ \E i \in Instances : onCreate(i)
Thread(i) ==
    handleMessage(i) \/ android_log_init(i) \/ SetUp(i) \/ rpc_serve(i) \/ RunFails(i)

ServiceNext == System \/ Main \/ \E i \in Instances : Thread(i)

\* The system restarts what it must and each thread begins the runs it is asked for;
\* no run has to come to an end of its set-up, as an endpoint may be silent, and nobody
\* has to make a request, to stop the service or to kill the process.
Fairness ==
    /\ WF_service_vars(Restart)
    /\ WF_service_vars(Main)
    /\ \A i \in Instances : WF_service_vars(handleMessage(i) \/ android_log_init(i))

ServiceSpec == ServiceInit /\ [][ServiceNext]_service_vars /\ Fairness
-----------------------------------------------------------------------------
\* Every variable has a value of its type, a run serves exactly while it has
\* the port, and a dead process holds nothing.
TypeOK ==
    /\ {started, sticky, process, logger, finished} \subseteq BOOLEAN
    /\ {pending, requests, kills} \subseteq Nat
    /\ current \in Instances \cup {None}
    /\ thread \in [Instances -> {"none", "idle"} \cup Running]
    /\ messages \in [Instances -> Nat]
    /\ foreground \in SUBSET Instances
    /\ port \in Instances \cup {None}
    /\ \A i \in Instances : thread[i] = "serving" <=> port = i
    /\ ~process => current = None /\ port = None /\ ~logger

\* run never finds its port taken by the run of an earlier instance, which its
\* thread has survived (onDestroy quits no looper): android_log::init has then
\* ended the process before the port is asked for.
PortIsFree == \A i \in Instances : thread[i] = "bind" => port = None

\* The current instance has a notification exactly while its run is in
\* progress, whatever the threads of earlier instances do (isForeground).
ForegroundWhileRunning ==
    foreground = {i \in {current} \cap Instances : thread[i] \in Running}

\* "if we get killed, after returning from here, restart": unless the service
\* is stopped, the light client runs again (onStartCommand).  A killed process
\* that had not returned from it still has its requests.
RunsAgainWhenKilled ==
    (~process /\ started) ~> (~started \/ \E i \in Instances : thread[i] \in Running \ {"init"})

\* "so we know which request we're stopping when we finish the job": once the
\* last job is finished the service stops (the start id in onStartCommand).
StopsWhenFinished == finished ~> ~started
=============================================================================
